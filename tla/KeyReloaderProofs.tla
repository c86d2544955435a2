-------------------------- MODULE KeyReloaderProofs --------------------------
(***************************************************************************)
(* The poller's schedule and its gauge, for every set of contents, every   *)
(* cap and every interleaving of file changes, revocations and outages.    *)
(*                                                                         *)
(* AlarmStands is not inductive: a definitive rejection puts the probed    *)
(* content on the schedule, so the induction has to know that a candidate  *)
(* under probe is never the key in use.                                    *)
(***************************************************************************)
EXTENDS KeyReloader, TLAPS

ProbeIsCandidate == probing # None => probing # loaded

IInv == TypeOK /\ BackoffCoherent /\ AlarmStands /\ ProbeIsCandidate

\* The cap maxWaitIntervals computes is a positive number of polls.
LEMMA CapPositive == MaxWaitIntervals \in Nat /\ MaxWaitIntervals >= 1
BY ReloaderAssumption DEF MaxWaitIntervals

\* The doubling of rejected leaves room for the wait it grants and stays
\* within the cap.
LEMMA DoubledBounds ==
  ASSUME NEW w \in Nat, 1 <= w, w <= MaxWaitIntervals
  PROVE  /\ Doubled(w) \in Nat
         /\ w - 1 \in Nat /\ w - 1 < Doubled(w)
         /\ 1 <= Doubled(w) /\ Doubled(w) <= MaxWaitIntervals
BY CapPositive DEF Doubled

\* A definitive rejection of a content other than the one in use keeps the
\* schedule coherent and the gauge raised.
LEMMA DefinitiveStep ==
  ASSUME IInv, NEW h \in Contents, h # loaded, RejectedDefinitively(h)
  PROVE  /\ backoffHash' \in Contents /\ waitIntervals' \in Nat /\ ticksLeft' \in Nat
         /\ failing' = TRUE /\ backoffHash' # loaded
         /\ BackoffCoherent'
<1> DEFINE w == IF h = backoffHash THEN waitIntervals ELSE 1
<1>1. w \in Nat /\ 1 <= w /\ w <= MaxWaitIntervals
  BY CapPositive DEF IInv, TypeOK, BackoffCoherent
<1>2. /\ ticksLeft' = w - 1 /\ waitIntervals' = Doubled(w)
      /\ backoffHash' = h /\ failing' = TRUE
  BY DEF RejectedDefinitively
<1> HIDE DEF w
<1>3. h # None
  BY ReloaderAssumption
<1> QED
  BY <1>1, <1>2, <1>3, DoubledBounds DEF BackoffCoherent

\* A poll that leaves the operator on a working key restores the initial schedule.
LEMMA SettledStep ==
  ASSUME Settled
  PROVE  /\ backoffHash' = None /\ waitIntervals' = 1 /\ ticksLeft' = 0
         /\ failing' = FALSE
         /\ BackoffCoherent'
BY CapPositive DEF Settled, BackoffCoherent

\* A transient rejection leaves the accrued gap alone.
LEMMA TransientStep ==
  ASSUME IInv, RejectedTransiently
  PROVE  /\ backoffHash' = backoffHash /\ waitIntervals' = waitIntervals
         /\ ticksLeft' = 0 /\ failing' = TRUE
         /\ BackoffCoherent'
BY DEF RejectedTransiently, IInv, TypeOK, BackoffCoherent

\* A poll that learned nothing keeps the whole invariant, whether it ended at
\* the file or at the probe.
LEMMA TransientAlarm ==
  ASSUME IInv, RejectedTransiently, UNCHANGED <<file, valid, loaded, changes>>,
         probing' \in {probing, None}, outages' \in Nat
  PROVE  IInv'
<1>1. TypeOK /\ AlarmStands /\ ProbeIsCandidate
  BY DEF IInv
<1>2. /\ backoffHash' = backoffHash /\ waitIntervals' = waitIntervals
      /\ ticksLeft' = 0 /\ failing' = TRUE /\ BackoffCoherent'
  BY TransientStep
<1>3. TypeOK'
  BY <1>1, <1>2 DEF TypeOK
<1>4. backoffHash # None => backoffHash # loaded
  BY <1>1, Zenon DEF AlarmStands
<1>5. AlarmStands'
  BY <1>2, <1>4 DEF AlarmStands
<1>6. ProbeIsCandidate'
  BY <1>1 DEF ProbeIsCandidate
<1> QED
  BY <1>2, <1>3, <1>5, <1>6 DEF IInv

\* Every step of the poller and of the world keeps the invariant.
LEMMA Inductive == IInv /\ [Next]_vars => IInv'
<1> SUFFICES ASSUME IInv, [Next]_vars PROVE IInv'
  OBVIOUS
<1> USE ReloaderAssumption
<1>1. CASE PollUnreadable
  <2>1. RejectedTransiently /\ UNCHANGED <<file, valid, loaded, probing, changes, outages>>
    BY <1>1 DEF PollUnreadable, world
  <2>2. outages' \in Nat
    BY <2>1 DEF IInv, TypeOK
  <2> QED
    BY <2>1, <2>2, TransientAlarm
<1>2. CASE PollUnchanged
  BY <1>2, SettledStep
  DEF PollUnchanged, IInv, TypeOK, AlarmStands, ProbeIsCandidate, world
<1>3. CASE PollBackingOff
  BY <1>3
  DEF PollBackingOff, BackingOff, IInv, TypeOK, BackoffCoherent, AlarmStands,
      ProbeIsCandidate, world
<1>4. CASE PollMalformed
  <2>1. file \in Contents /\ file # loaded
    BY <1>4 DEF PollMalformed, Candidate
  <2>2. RejectedDefinitively(file)
    BY <1>4 DEF PollMalformed
  <2> QED
    BY <1>4, <2>1, <2>2, DefinitiveStep
    DEF PollMalformed, IInv, TypeOK, AlarmStands, ProbeIsCandidate, world
<1>5. CASE PollProbes
  BY <1>5
  DEF PollProbes, Candidate, IInv, TypeOK, BackoffCoherent, AlarmStands,
      ProbeIsCandidate, schedule, world
<1>6. CASE ProbeAccepted
  BY <1>6, SettledStep
  DEF ProbeAccepted, IInv, TypeOK, AlarmStands, ProbeIsCandidate, world
<1>7. CASE ProbeRefused
  <2>1. probing \in Contents /\ probing # loaded
    BY <1>7 DEF ProbeRefused, IInv, TypeOK, ProbeIsCandidate
  <2>2. RejectedDefinitively(probing)
    BY <1>7 DEF ProbeRefused
  <2> QED
    BY <1>7, <2>1, <2>2, DefinitiveStep
    DEF ProbeRefused, IInv, TypeOK, AlarmStands, ProbeIsCandidate, world
<1>8. CASE ProbeUnanswered
  <2>1. RejectedTransiently /\ UNCHANGED <<file, valid, loaded, changes>>
    BY <1>8 DEF ProbeUnanswered
  <2>2. probing' = None /\ outages' \in Nat
    BY <1>8 DEF ProbeUnanswered, IInv, TypeOK
  <2> QED
    BY <2>1, <2>2, TransientAlarm
<1>9. ASSUME NEW c \in Contents \cup {None}, FileChanges(c) PROVE IInv'
  BY <1>9
  DEF FileChanges, IInv, TypeOK, BackoffCoherent, AlarmStands, ProbeIsCandidate,
      reloader, schedule
<1>10. ASSUME NEW c \in Contents \ Malformed, KeyGranted(c) \/ KeyRevoked(c) PROVE IInv'
  BY <1>10
  DEF KeyGranted, KeyRevoked, IInv, TypeOK, BackoffCoherent, AlarmStands,
      ProbeIsCandidate, reloader, schedule
<1>11. CASE UNCHANGED vars
  BY <1>11 DEF vars, IInv, TypeOK, BackoffCoherent, AlarmStands, ProbeIsCandidate
<1> QED
  BY <1>1, <1>2, <1>3, <1>4, <1>5, <1>6, <1>7, <1>8, <1>9, <1>10, <1>11 DEF Next, Poll

\* The process starts on the key in the file with the initial schedule.
LEMMA Initially == Init => IInv
<1> SUFFICES ASSUME Init PROVE IInv
  OBVIOUS
<1>1. TypeOK
  BY ReloaderAssumption DEF Init, TypeOK
<1>2. BackoffCoherent
  BY CapPositive DEF Init, BackoffCoherent
<1>3. AlarmStands /\ ProbeIsCandidate
  BY DEF Init, AlarmStands, ProbeIsCandidate
<1> QED
  BY <1>1, <1>2, <1>3 DEF IInv

\* The backoff of a rejected key is bounded by the cap, whatever sequence of
\* rejections, outages and file changes went before (rejected, settled, tick).
THEOREM BackoffBounded == Spec => [](TypeOK /\ BackoffCoherent)
<1>1. IInv => TypeOK /\ BackoffCoherent
  BY DEF IInv
<1> QED
  BY <1>1, Initially, Inductive, PTL DEF Spec

\* The types alone: the reloader only ever holds contents the file has had, and
\* its failure counts stay numbers (reload, tick).
THEOREM ReloaderTyped == Spec => []TypeOK
<1>1. TypeOK /\ BackoffCoherent => TypeOK
  OBVIOUS
<1> QED
  BY <1>1, BackoffBounded, PTL

\* The gauge stays raised for as long as a rejected content is on the schedule,
\* and that content is never the one in use (Observe, reload).
THEOREM AlarmHolds == Spec => []AlarmStands
<1>1. IInv => AlarmStands
  BY DEF IInv
<1> QED
  BY <1>1, Initially, Inductive, PTL DEF Spec

=============================================================================
