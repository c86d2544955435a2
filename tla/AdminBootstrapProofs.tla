------------------------ MODULE AdminBootstrapProofs ------------------------
(***************************************************************************)
(* The admin credential is the only admin key, and the operator is not     *)
(* locked out, for every number of groups, keys, failures and rotations.   *)
(*                                                                         *)
(* SoleKey is not inductive: a bootstrap destroys and creates keys while   *)
(* the Secret and the informer's copy are read by nobody. OneKey says      *)
(* where the only key can be at each step, and that a complete Secret is   *)
(* never there while a bootstrap runs; it rests on OneGroup, since keys    *)
(* are cleared group by group.                                             *)
(***************************************************************************)
EXTENDS AdminBootstrap, TLAPS

Pair(c) == <<c.group, c.key>>

\* Without lag there is one group of the name at most, and it is listed.
OneGroup == ~Lag => listed = groups /\ \A g, h \in groups : g = h

\* Everything that names a group names one that exists.
Attached ==
  /\ boot.pc \notin {"idle", "group"} => boot.group \in groups
  /\ admin # NoCreds => admin.group \in groups
  /\ secret.key # None => secret.group \in groups
  /\ informer.key # None => informer.group \in groups
  /\ exempted \subseteq groups
  /\ \A k \in keys : k[1] \in groups

OneKey ==
  (~Lag /\ ~LostWrites) =>
    /\ boot.pc # "idle" => admin = NoCreds /\ secret.key = None /\ informer.key = None
    /\ boot.pc = "key" => keys = {}
    /\ boot.pc \in {"write", "rollback"} => keys = {Pair(boot)}
    /\ admin # NoCreds => keys = {Pair(admin)}
    /\ secret.key # None => keys = {Pair(secret)} /\ (admin # NoCreds \/ informer = secret)
    /\ informer.key # None => keys = {Pair(informer)}

IInv == TypeOK /\ OneGroup /\ Attached /\ OneKey

LEMMA InitHolds == Init => IInv
BY AdminAssumption
   DEF Init, IInv, TypeOK, OneGroup, Attached, OneKey, Secrets, Creds, NoSecret, NoCreds, NoBoot,
       None, Groups, Keys, Plan

\* The bounds and the bootstrap under way, in the steps that may fail.
Budgets == [plan : DOMAIN Plans, fail : Nat, rotate : Nat]
Boots == [pc : {"idle", "group", "clear", "key", "write", "rollback"},
          group : Groups \cup {None}, key : Keys \cup {None}]

LEMMA FaultTyped ==
  ASSUME budget \in Budgets, Fault PROVE budget' \in Budgets /\ budget'.plan = budget.plan
BY DEF Budgets, Fault

LEMMA IdleTyped == NoBoot \in Boots /\ NoBoot.pc = "idle"
BY DEF Boots, NoBoot

LEMMA GroupFound ==
  ASSUME boot \in Boots, NEW g \in Groups, boot' = [boot EXCEPT !.pc = "clear", !.group = g]
  PROVE  boot' \in Boots /\ boot'.pc = "clear" /\ boot'.group = g
BY DEF Boots

LEMMA KeyCreated ==
  ASSUME boot \in Boots, NEW k \in Keys, boot' = [boot EXCEPT !.pc = "write", !.key = k]
  PROVE  boot' \in Boots /\ boot'.pc = "write" /\ boot'.group = boot.group /\ boot'.key = k
BY DEF Boots

LEMMA EnsureAdminStep == IInv /\ EnsureAdmin => IInv'
<1> SUFFICES ASSUME IInv, EnsureAdmin PROVE IInv'
  OBVIOUS
<1> USE DEF EnsureAdmin, At, Goto, provVars
<1>1. TypeOK'
  BY DEF IInv, TypeOK, Secrets, Creds, NoCreds
<1>2. OneGroup' /\ Attached'
  BY DEF IInv, TypeOK, OneGroup, Attached, Lag, NoCreds, None
<1>3. OneKey'
  BY DEF IInv, TypeOK, OneKey, Pair, Lag, LostWrites, NoCreds, None, Secrets
<1> QED
  BY <1>1, <1>2, <1>3 DEF IInv

LEMMA EnsureGroupStep == IInv /\ EnsureCredentialsGroup => IInv'
<1> SUFFICES ASSUME IInv, EnsureCredentialsGroup PROVE IInv'
  OBVIOUS
<1> USE DEF EnsureCredentialsGroup, At, FindGroup
<1>1. CASE \E g \in FindGroup :
             /\ boot' = [boot EXCEPT !.pc = "clear", !.group = g]
             /\ UNCHANGED <<groups, listed, budget>>
  BY <1>1 DEF IInv, TypeOK, OneGroup, Attached, OneKey, Pair, Lag, LostWrites
<1>2. CASE FindGroup = {} /\ CreateGroup
  <2>0. PICK g \in Groups \ groups :
          /\ groups' = groups \cup {g}
          /\ listed' = IF Lag THEN listed ELSE listed \cup {g}
          /\ \/ boot' = [boot EXCEPT !.pc = "clear", !.group = g] /\ UNCHANGED budget
             \/ Fault /\ boot' = NoBoot
    BY <1>2 DEF CreateGroup
  <2>1. Lag' = Lag /\ LostWrites' = LostWrites
    BY <2>0 DEF IInv, TypeOK, Lag, LostWrites, Fault
  <2>2. UNCHANGED <<secret, informer, keys, minted, exempted, admin>> /\ boot.pc = "group"
    OBVIOUS
  <2>3. budget \in Budgets /\ boot \in Boots
    BY DEF IInv, TypeOK, Budgets, Boots
  <2>4. /\ budget' \in Budgets
        /\ boot' \in Boots /\ boot'.pc \in {"idle", "clear"}
        /\ boot'.pc = "clear" => boot'.group = g
    <3>1. CASE boot' = [boot EXCEPT !.pc = "clear", !.group = g] /\ UNCHANGED budget
      BY <2>3, <3>1, GroupFound
    <3>2. CASE Fault /\ boot' = NoBoot
      BY <2>3, <3>2, IdleTyped, FaultTyped
    <3> QED
      BY <2>0, <3>1, <3>2
  <2>5. TypeOK'
    BY <2>0, <2>2, <2>4 DEF IInv, TypeOK, Budgets, Boots
  <2>7. OneGroup'
    BY <1>2, <2>0, <2>1 DEF IInv, TypeOK, OneGroup
  <2>8. Attached'
    BY <2>0, <2>2, <2>4 DEF IInv, TypeOK, Attached
  <2>9. OneKey'
    BY <2>1, <2>2, <2>4 DEF IInv, TypeOK, OneKey, Pair
  <2> QED
    BY <2>5, <2>7, <2>8, <2>9 DEF IInv
<1> QED
  BY <1>1, <1>2

LEMMA ClearKeysStep == IInv /\ ClearKeys => IInv'
<1> SUFFICES ASSUME IInv, ClearKeys PROVE IInv'
  OBVIOUS
<1> USE DEF ClearKeys, At, Goto, Fault, NoBoot
<1>1. TypeOK' /\ keys' \subseteq keys
  BY DEF IInv, TypeOK
<1>2. (Lag' <=> Lag) /\ (LostWrites' <=> LostWrites)
  BY DEF IInv, TypeOK, Lag, LostWrites
<1>3. OneGroup' /\ Attached'
  BY <1>1, <1>2 DEF IInv, TypeOK, OneGroup, Attached
<1>4. ASSUME ~Lag, boot'.pc = "key" PROVE keys' = {}
  BY <1>4 DEF IInv, TypeOK, OneGroup, Attached
<1>5. OneKey'
  BY <1>2, <1>4 DEF IInv, TypeOK, OneKey, Pair
<1> QED
  BY <1>1, <1>3, <1>5 DEF IInv

LEMMA CreateKeyStep == IInv /\ CreateKey => IInv'
<1> SUFFICES ASSUME IInv, CreateKey PROVE IInv'
  OBVIOUS
<1>1. /\ boot.pc = "key" /\ boot.group \in groups
      /\ minted' = minted + 1 /\ minted' \in Keys
      /\ keys' = keys \cup {<<boot.group, minted'>>}
      /\ UNCHANGED <<secret, informer, groups, listed, exempted, admin>>
  BY AdminAssumption DEF IInv, TypeOK, Attached, Keys, CreateKey, At
<1>2. \/ boot' = [boot EXCEPT !.pc = "write", !.key = minted'] /\ UNCHANGED budget
      \/ Fault /\ boot' = NoBoot
  BY DEF CreateKey
<1>3. (Lag' <=> Lag) /\ (LostWrites' <=> LostWrites)
  BY <1>2 DEF IInv, TypeOK, Lag, LostWrites, Fault
<1>4. budget \in Budgets /\ boot \in Boots
  BY DEF IInv, TypeOK, Budgets, Boots
<1>5. /\ budget' \in Budgets
      /\ boot' \in Boots /\ boot'.pc \in {"idle", "write"}
      /\ boot'.pc = "write" => boot'.group = boot.group /\ boot'.key = minted'
  <2>1. CASE boot' = [boot EXCEPT !.pc = "write", !.key = minted'] /\ UNCHANGED budget
    <3> DEFINE k == minted'
    <3>1. k \in Keys /\ boot' = [boot EXCEPT !.pc = "write", !.key = k]
      BY <1>1, <2>1
    <3> HIDE DEF k
    <3>2. boot' \in Boots /\ boot'.pc = "write" /\ boot'.group = boot.group /\ boot'.key = k
      BY <1>4, <3>1, KeyCreated
    <3> QED
      BY <1>4, <2>1, <3>2 DEF k
  <2>2. CASE Fault /\ boot' = NoBoot
    BY <1>4, <2>2, IdleTyped, FaultTyped
  <2> QED
    BY <1>2, <2>1, <2>2
<1>6. keys' \subseteq Groups \X Keys /\ minted' \in 0..MaxKeys
  BY <1>1, AdminAssumption DEF IInv, TypeOK, Keys
<1>7. TypeOK'
  BY <1>1, <1>5, <1>6 DEF IInv, TypeOK, Budgets, Boots
<1>8. OneGroup' /\ Attached'
  BY <1>1, <1>3, <1>5 DEF IInv, TypeOK, OneGroup, Attached
<1>9. OneKey'
  BY <1>1, <1>3, <1>5 DEF IInv, TypeOK, OneKey, Pair
<1> QED
  BY <1>7, <1>8, <1>9 DEF IInv

LEMMA WriteSecretStep == IInv /\ WriteSecret => IInv'
<1> SUFFICES ASSUME IInv, WriteSecret PROVE IInv'
  OBVIOUS
<1>1. boot.pc = "write" /\ boot.group \in groups /\ UNCHANGED <<informer, provVars, exempted>>
  BY DEF IInv, Attached, WriteSecret, At
<1> USE DEF provVars
<1>2. CASE /\ WriteApplies
           /\ secret' = [present |-> TRUE, group |-> boot.group, key |-> boot.key]
           /\ admin' = [group |-> boot.group, key |-> boot.key]
           /\ boot' = NoBoot
           /\ UNCHANGED budget
  <2>1. TypeOK'
    BY <1>1, <1>2 DEF IInv, TypeOK, Secrets, Creds, NoBoot
  <2>2. OneGroup' /\ Attached'
    BY <1>1, <1>2 DEF IInv, TypeOK, OneGroup, Attached, NoBoot, Lag
  <2>3. ASSUME ~Lag, ~LostWrites PROVE informer.key = None /\ keys = {Pair(boot)}
    BY <1>1, <2>3 DEF IInv, OneKey
  <2>4. boot'.pc = "idle" /\ Pair(admin') = Pair(boot) /\ Pair(secret') = Pair(boot)
    BY <1>2 DEF NoBoot, Pair
  <2>5. admin' # NoCreds \/ secret'.key = None
    BY <1>2 DEF NoCreds
  <2>6. OneKey'
    BY <1>1, <1>2, <2>3, <2>4, <2>5 DEF OneKey, Lag, LostWrites
  <2> QED
    BY <2>1, <2>2, <2>6 DEF IInv
<1>3. CASE /\ WriteApplies
           /\ secret' = [present |-> TRUE, group |-> boot.group, key |-> boot.key]
           /\ LostWrites /\ Fault /\ Goto("rollback") /\ UNCHANGED admin
  <2>1. (Lag' <=> Lag) /\ (LostWrites' <=> LostWrites)
    BY <1>3 DEF IInv, TypeOK, Lag, LostWrites, Fault
  <2>2. TypeOK'
    BY <1>1, <1>3 DEF IInv, TypeOK, Secrets, Goto, Fault
  <2>3. OneGroup' /\ Attached'
    BY <1>1, <1>3, <2>1 DEF IInv, TypeOK, OneGroup, Attached, Goto
  <2> QED
    BY <1>3, <2>1, <2>2, <2>3 DEF IInv, OneKey
<1>4. CASE ~WriteApplies /\ Goto("rollback") /\ UNCHANGED <<secret, admin, budget>>
  BY <1>1, <1>4 DEF IInv, TypeOK, OneGroup, Attached, OneKey, Pair, Goto, Lag, LostWrites
<1> QED
  BY <1>2, <1>3, <1>4 DEF WriteSecret

LEMMA RollbackStep == IInv /\ (Rollback \/ CallFails) => IInv'
<1> SUFFICES ASSUME IInv, Rollback \/ CallFails PROVE IInv'
  OBVIOUS
<1> USE DEF Rollback, CallFails, At, Goto, Fault, NoBoot, provVars
<1>1. TypeOK'
  BY DEF IInv, TypeOK
<1>2. (Lag' <=> Lag) /\ (LostWrites' <=> LostWrites)
  BY DEF IInv, TypeOK, Lag, LostWrites
<1>3. OneGroup' /\ Attached'
  BY <1>2 DEF IInv, TypeOK, OneGroup, Attached
<1>4. OneKey'
  BY <1>2 DEF IInv, TypeOK, OneKey, Pair
<1> QED
  BY <1>1, <1>3, <1>4 DEF IInv

\* Steps of the environment, and a policy written with the credential.
LEMMA EnvironmentStep ==
  IInv /\ (UseAdmin \/ CacheSync \/ ListingSettles \/ Crash \/ SecretRemoved \/ RestartByHand) => IInv'
<1> SUFFICES ASSUME IInv,
                    UseAdmin \/ CacheSync \/ ListingSettles \/ Crash \/ SecretRemoved \/ RestartByHand
             PROVE  IInv'
  OBVIOUS
<1> USE DEF UseAdmin, CacheSync, ListingSettles, Crash, SecretRemoved, RestartByHand, Restart, At,
            Fault, NoBoot, NoCreds, NoSecret, provVars
<1>1. TypeOK'
  <2>1. CASE UseAdmin
    BY <2>1 DEF IInv, TypeOK
  <2>2. CASE CacheSync \/ ListingSettles
    BY <2>2 DEF IInv, TypeOK
  <2>3. CASE Crash \/ RestartByHand
    BY <2>3 DEF IInv, TypeOK, Creds
  <2>4. CASE SecretRemoved
    <3>1. secret' = NoSecret \/ secret' = [NoSecret EXCEPT !.present = TRUE]
      BY <2>4
    <3>2. NoSecret \in Secrets /\ [NoSecret EXCEPT !.present = TRUE] \in Secrets
      BY DEF Secrets
    <3>3. secret' \in Secrets
      BY <3>1, <3>2
    <3>4. budget' \in Budgets
      BY <2>4 DEF IInv, TypeOK, Budgets
    <3> QED
      BY <2>4, <3>3, <3>4 DEF IInv, TypeOK, Budgets
  <2> QED
    BY <2>1, <2>2, <2>3, <2>4
<1>2. (Lag' <=> Lag) /\ (LostWrites' <=> LostWrites)
  BY DEF IInv, TypeOK, Lag, LostWrites
<1>3. OneGroup' /\ Attached'
  BY <1>2 DEF IInv, TypeOK, OneGroup, Attached
<1>4. OneKey'
  BY <1>2 DEF IInv, TypeOK, OneKey, Pair
<1> QED
  BY <1>1, <1>3, <1>4 DEF IInv

\* The inductive invariant of the bootstrap.
THEOREM Invariance == Spec => []IInv
<1>1. IInv /\ [Next]_vars => IInv'
  <2> SUFFICES ASSUME IInv, [Next]_vars PROVE IInv'
    OBVIOUS
  <2>1. CASE Next
    BY <2>1, EnsureAdminStep, EnsureGroupStep, ClearKeysStep, CreateKeyStep, WriteSecretStep,
       RollbackStep, EnvironmentStep DEF Next, Bootstrap
  <2>2. CASE UNCHANGED vars
    BY <2>2 DEF vars, IInv, TypeOK, OneGroup, Attached, OneKey, Pair, Lag, LostWrites
  <2> QED
    BY <2>1, <2>2
<1> QED
  BY InitHolds, <1>1, PTL DEF Spec

\* Type correctness of the bootstrap.
THEOREM AdminTyped == Spec => []TypeOK
BY Invariance, PTL DEF IInv

\* However many calls fail and processes die, the key the operator works with is
\* the only admin key (ensureAdmin), unless listings lag or answers get lost.
THEOREM AdminSoleKey == Spec => []SoleKey
<1>1. IInv => SoleKey
  BY DEF IInv, OneKey, SoleKey, Pair
<1> QED
  BY Invariance, <1>1, PTL

\* However often the key is replaced, every policy exempts the group the operator
\* works with (ensureAdmin, EnsureCredentialsGroup), unless listings lag.
THEOREM AdminNotLockedOut == Spec => []NotLockedOut
<1>1. IInv => NotLockedOut
  BY DEF IInv, OneGroup, Attached, NotLockedOut
<1> QED
  BY Invariance, <1>1, PTL
=============================================================================
