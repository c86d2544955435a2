--------------------------- MODULE AdminBootstrap ---------------------------
(***************************************************************************)
(* The operator's own S3 credential (ensureAdmin in                        *)
(* internal/controller/bucket_controller.go): one credentials group with a *)
(* fixed display name and one access key in it, kept in a Secret and in    *)
(* the memory of the process. Every data-plane call of every Bucket uses   *)
(* it, and every bucket policy exempts its group.                          *)
(*                                                                         *)
(* The mutex admits one bootstrap at a time, so one record holds the       *)
(* bootstrap under way. The Secret is read through the informer, whose     *)
(* copy lags; it is written with the version the informer shows. The       *)
(* listing of the groups may lag behind a create.                          *)
(***************************************************************************)
EXTENDS Naturals

CONSTANTS
  MaxGroups,  \* bound: admin groups created
  MaxKeys,    \* bound: admin keys created
  Plans       \* the situations this instance goes through, by name

\* Bounds of a situation: failures crashes and failing calls, rotations Secrets
\* deleted or damaged by hand. With lag a new group is not listed at once; with
\* lostWrites the answer of a Secret write that was applied may be lost.
Plan == [failures : Nat, rotations : Nat, lag : BOOLEAN, lostWrites : BOOLEAN]

ASSUME AdminAssumption ==
  /\ MaxGroups \in Nat /\ MaxKeys \in Nat
  /\ \A name \in DOMAIN Plans : Plans[name] \in Plan

None == 0
Groups == 1..MaxGroups
Keys == 1..MaxKeys

\* What the Secret holds; the key is None when it is absent or incomplete.
Secrets == [present : BOOLEAN, group : Groups \cup {None}, key : Keys \cup {None}]
NoSecret == [present |-> FALSE, group |-> None, key |-> None]

Creds == [group : Groups \cup {None}, key : Keys \cup {None}]
NoCreds == [group |-> None, key |-> None]

VARIABLES
  secret, informer,  \* the admin Secret, and the informer's copy of it
  groups, listed,    \* the groups of that name, and those the listing shows
  keys,              \* the keys that exist, as pairs of group and key
  minted,            \* how many keys were created
  exempted,          \* the admin groups that the bucket policies exempt
  admin,             \* r.admin, the credential in memory
  boot,              \* the bootstrap under way
  budget             \* the plan of this behaviour and what is left of its bounds

provVars == <<groups, listed, keys, minted>>
vars == <<secret, informer, groups, listed, keys, minted, exempted, admin, boot, budget>>

NoBoot == [pc |-> "idle", group |-> None, key |-> None]

Init ==
  /\ secret = NoSecret /\ informer = NoSecret
  /\ groups = {} /\ listed = {} /\ keys = {} /\ minted = 0
  /\ exempted = {}
  /\ admin = NoCreds /\ boot = NoBoot
  /\ \E plan \in DOMAIN Plans :
       budget = [plan |-> plan, fail |-> Plans[plan].failures, rotate |-> Plans[plan].rotations]

----------------------------------------------------------------------------

Lag == Plans[budget.plan].lag
LostWrites == Plans[budget.plan].lostWrites

At(step) == boot.pc = step
Goto(step) == boot' = [boot EXCEPT !.pc = step]

Fault ==
  /\ budget.fail > 0
  /\ budget' = [budget EXCEPT !.fail = @ - 1]

\* A reconcile needs the credential: from memory, or from a complete Secret, or
\* else by a bootstrap.
EnsureAdmin ==
  /\ At("idle") /\ admin = NoCreds
  /\ IF informer.key # None
       THEN admin' = [group |-> informer.group, key |-> informer.key] /\ UNCHANGED boot
       ELSE Goto("group") /\ UNCHANGED admin
  /\ UNCHANGED <<secret, informer, provVars, exempted, budget>>

\* Mutant of FindGroup: the look-up by display name is skipped.
FindGroupNever == {}

\* findCredentialsGroupByName: the first of that name in a listing without order.
FindGroup == listed

CreateGroup ==
  \E g \in Groups \ groups :
    /\ groups' = groups \cup {g}
    /\ listed' = IF Lag THEN listed ELSE listed \cup {g}
    /\ \/ boot' = [boot EXCEPT !.pc = "clear", !.group = g] /\ UNCHANGED budget
       \/ Fault /\ boot' = NoBoot   \* the answer is lost

EnsureCredentialsGroup ==
  /\ At("group")
  /\ \/ \E g \in FindGroup :
          /\ boot' = [boot EXCEPT !.pc = "clear", !.group = g]
          /\ UNCHANGED <<groups, listed, budget>>
     \/ FindGroup = {} /\ CreateGroup
  /\ UNCHANGED <<secret, informer, keys, minted, exempted, admin>>

\* Mutant of ClearKeys: a group that was just looked up is taken to have no key.
ClearKeysSkipped ==
  /\ At("clear")
  /\ Goto("key")
  /\ UNCHANGED <<secret, informer, provVars, exempted, admin, budget>>

\* DeleteAllAccessKeys: some keys may be gone when one deletion fails.
ClearKeys ==
  /\ At("clear")
  /\ \/ keys' = {k \in keys : k[1] # boot.group} /\ Goto("key") /\ UNCHANGED budget
     \/ /\ Fault /\ boot' = NoBoot
        /\ \E left \in SUBSET {k \in keys : k[1] = boot.group} :
             keys' = {k \in keys : k[1] # boot.group} \cup left
  /\ UNCHANGED <<secret, informer, groups, listed, minted, exempted, admin>>

CreateKey ==
  /\ At("key")
  /\ minted < MaxKeys
  /\ minted' = minted + 1
  /\ keys' = keys \cup {<<boot.group, minted'>>}
  /\ \/ boot' = [boot EXCEPT !.pc = "write", !.key = minted'] /\ UNCHANGED budget
     \/ Fault /\ boot' = NoBoot   \* the answer is lost
  /\ UNCHANGED <<secret, informer, groups, listed, exempted, admin>>

\* Mutant of WriteApplies: the Secret is only ever created.
WriteCreatesOnly == ~secret.present

\* writeAdminSecret creates the Secret the informer does not show and updates the
\* one it shows; the API server refuses either when the copy is not current.
WriteApplies == informer = secret

\* The Secret holds the credential and the process keeps it; a write that fails
\* takes the fresh key back.
WriteSecret ==
  /\ At("write")
  /\ \/ /\ WriteApplies
        /\ secret' = [present |-> TRUE, group |-> boot.group, key |-> boot.key]
        /\ \/ /\ admin' = [group |-> boot.group, key |-> boot.key]
              /\ boot' = NoBoot
              /\ UNCHANGED budget
           \/ LostWrites /\ Fault /\ Goto("rollback") /\ UNCHANGED admin
     \/ ~WriteApplies /\ Goto("rollback") /\ UNCHANGED <<secret, admin, budget>>
  /\ UNCHANGED <<informer, provVars, exempted>>

\* Mutant of Rollback: a key that could not be taken back is kept in a state of
\* its own, which nothing leaves.
RollbackParks ==
  /\ At("rollback")
  /\ \/ keys' = keys \ {<<boot.group, boot.key>>} /\ boot' = NoBoot /\ UNCHANGED budget
     \/ Fault /\ Goto("orphaned") /\ UNCHANGED keys
  /\ UNCHANGED <<secret, informer, groups, listed, minted, exempted, admin>>

\* DeleteAccessKey after a failed write; its own failure is only logged.
Rollback ==
  /\ At("rollback")
  /\ \/ keys' = keys \ {<<boot.group, boot.key>>} /\ UNCHANGED budget
     \/ Fault /\ UNCHANGED keys
  /\ boot' = NoBoot
  /\ UNCHANGED <<secret, informer, groups, listed, minted, exempted, admin>>

\* A call fails without effect: the error requeues the Bucket, but a Secret that
\* was not written takes the key with it.
CallFails ==
  /\ boot.pc \in {"group", "key", "write"}
  /\ Fault
  /\ IF At("write") THEN Goto("rollback") ELSE boot' = NoBoot
  /\ UNCHANGED <<secret, informer, provVars, exempted, admin>>

\* A pass writes a bucket's policy with the credential; it exempts its group.
UseAdmin ==
  /\ admin # NoCreds
  /\ <<admin.group, admin.key>> \in keys
  /\ exempted' = exempted \cup {admin.group}
  /\ exempted' # exempted
  /\ UNCHANGED <<secret, informer, provVars, admin, boot, budget>>

----------------------------------------------------------------------------

CacheSync ==
  /\ informer # secret
  /\ informer' = secret
  /\ UNCHANGED <<secret, provVars, exempted, admin, boot, budget>>

ListingSettles ==
  /\ listed # groups
  /\ listed' = groups
  /\ UNCHANGED <<secret, informer, groups, keys, minted, exempted, admin, boot, budget>>

Restart ==
  /\ admin' = NoCreds /\ boot' = NoBoot
  /\ informer' = secret
  /\ UNCHANGED <<secret, provVars, exempted>>

Crash ==
  /\ ~At("idle") \/ admin # NoCreds
  /\ Fault
  /\ Restart

\* The Secret is deleted, or loses one of its values. The process does not notice:
\* replacing the key by hand takes a restart as well.
SecretRemoved ==
  /\ budget.rotate > 0
  /\ secret.present
  /\ secret' \in {NoSecret, [NoSecret EXCEPT !.present = TRUE]}
  /\ budget' = [budget EXCEPT !.rotate = @ - 1]
  /\ UNCHANGED <<informer, provVars, exempted, admin, boot>>

RestartByHand ==
  /\ admin # NoCreds /\ secret.key = None
  /\ Restart
  /\ UNCHANGED budget

----------------------------------------------------------------------------

Bootstrap ==
  \/ EnsureAdmin \/ EnsureCredentialsGroup \/ ClearKeys \/ CreateKey
  \/ WriteSecret \/ Rollback

Next ==
  \/ Bootstrap \/ CallFails \/ UseAdmin
  \/ CacheSync \/ ListingSettles \/ Crash
  \/ SecretRemoved \/ RestartByHand

Spec == Init /\ [][Next]_vars

\* Bucket passes keep asking for the credential (an error requeues the Bucket);
\* the informer catches up.
FairSpec == Spec /\ WF_vars(Bootstrap) /\ WF_vars(CacheSync) /\ WF_vars(ListingSettles)

----------------------------------------------------------------------------
(* Properties. *)

TypeOK ==
  /\ secret \in Secrets /\ informer \in Secrets
  /\ groups \subseteq Groups /\ listed \subseteq groups
  /\ keys \subseteq Groups \X Keys /\ minted \in 0..MaxKeys
  /\ exempted \subseteq Groups
  /\ admin \in Creds
  /\ boot \in [pc : {"idle", "group", "clear", "key", "write", "rollback"},
               group : Groups \cup {None}, key : Keys \cup {None}]
  /\ budget \in [plan : DOMAIN Plans, fail : Nat, rotate : Nat]

\* The key the process works with is the only admin key there is: whatever failed
\* or crashed before, no key whose secret half is lost stays behind with it
\* (ensureAdmin clears the group, and takes a key back that could not be stored).
SoleKey ==
  (admin # NoCreds /\ ~Lag /\ ~LostWrites) => keys = {<<admin.group, admin.key>>}

\* The operator is not locked out of its own buckets: every policy exempts the
\* group of the credential in memory, also after the key was replaced. A group
\* of that name created while the listing lags can break this.
NotLockedOut == (admin # NoCreds /\ ~Lag) => exempted \subseteq {admin.group}

\* The credential the process works with is alive: nobody deletes its key here but
\* ensureAdmin itself. With lost answers this fails.
AdminKeyLives == admin # NoCreds => <<admin.group, admin.key>> \in keys

\* After the last failure the process holds a credential that works, and a Secret
\* that is complete holds the same one: an incomplete Secret is filled, and a
\* write refused for an outdated copy is made again.
Bootstraps ==
  <>[](/\ <<admin.group, admin.key>> \in keys
       /\ secret.key # None => secret.group = admin.group /\ secret.key = admin.key)
=============================================================================
