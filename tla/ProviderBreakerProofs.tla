------------------------ MODULE ProviderBreakerProofs ------------------------
(***************************************************************************)
(* Proofs, for every number of workers, threshold, cooldown and cap, that  *)
(* the schedule of the circuit breaker stays coherent and that failures in *)
(* flight never postpone the probe.                                        *)
(***************************************************************************)
EXTENDS ProviderBreaker, TLAPS

\* ScheduleCoherent speaks of a schedule that lies between the clock and the
\* cap, so it is inductive only together with the types and with a clock that
\* never reads the zero time.
IInv == TypeOK /\ now # Zero /\ ScheduleCoherent

\* The constructor's cap is a number that is at least the base cooldown
\* (NewProviderBreaker).
LEMMA CapBounds == MaxCooldown \in Nat /\ BaseCooldown <= MaxCooldown
  BY BreakerAssumption DEF MaxCooldown

\* The cap keeps a wait between the base cooldown and the cap.
LEMMA CappedBounds ==
  ASSUME NEW d \in Nat, BaseCooldown <= d
  PROVE  Capped(d) \in Nat /\ BaseCooldown <= Capped(d) /\ Capped(d) <= MaxCooldown
  BY CapBounds, BreakerAssumption DEF Capped

\* A capped doubling never shortens a wait that respects the cap.
LEMMA CappedDoubling ==
  ASSUME NEW d \in Nat, d <= MaxCooldown
  PROVE  d <= Capped(d * 2)
  BY CapBounds DEF Capped

\* A failure keeps the schedule coherent, whichever of its cases applies.
LEMMA FailureStep ==
  ASSUME IInv, Failure, now' = now, busy' \in SUBSET Workers
  PROVE  IInv'
<1> USE BreakerAssumption DEF IInv, TypeOK, ScheduleCoherent, Zero, Enabled
<1>1. CASE CountFailure
  BY <1>1 DEF CountFailure
<1>2. CASE Trip
  <2>1. cooldown' \in Nat /\ BaseCooldown <= cooldown' /\ cooldown' <= MaxCooldown
    BY <1>2, CappedBounds DEF Trip
  <2> QED BY <1>2, <2>1, CapBounds DEF Trip
<1>3. CASE FailureWhileShut
  BY <1>3 DEF FailureWhileShut
<1>4. CASE FailedProbe
  <2>1. BaseCooldown <= cooldown * 2 /\ cooldown * 2 \in Nat /\ cooldown <= MaxCooldown
    BY <1>4 DEF FailedProbe
  <2>2. cooldown' \in Nat /\ BaseCooldown <= cooldown' /\ cooldown' <= MaxCooldown
    BY <1>4, <2>1, CappedBounds DEF FailedProbe
  <2> QED BY <1>4, <2>2, CapBounds DEF FailedProbe
<1>5. CASE ~Enabled /\ UNCHANGED breakerVars
  BY <1>5 DEF breakerVars
<1> QED BY <1>1, <1>2, <1>3, <1>4, <1>5 DEF Failure

\* A success closes the breaker, or leaves a disabled one as it is.
LEMMA SuccessStep ==
  ASSUME IInv, Success, now' = now, busy' \in SUBSET Workers
  PROVE  IInv'
  BY BreakerAssumption
  DEF IInv, TypeOK, ScheduleCoherent, Zero, Enabled, Success, breakerVars

\* The inductive invariant holds throughout; every theorem below rests on it.
LEMMA Inductive == Spec => []IInv
<1>1. Init => IInv
  BY BreakerAssumption DEF Init, IInv, TypeOK, ScheduleCoherent, Zero, Enabled
<1>2. IInv /\ [Next]_vars => IInv'
  <2> SUFFICES ASSUME IInv, [Next]_vars PROVE IInv'
    OBVIOUS
  <2>1. ASSUME NEW w \in Workers, Admit(w) PROVE IInv'
    BY <2>1 DEF Admit, breakerVars, IInv, TypeOK, ScheduleCoherent
  <2>2. ASSUME NEW w \in Workers, PassFails(w) PROVE IInv'
    BY <2>2, FailureStep DEF PassFails, IInv, TypeOK
  <2>3. ASSUME NEW w \in Workers, PassSucceeds(w) PROVE IInv'
    BY <2>3, SuccessStep DEF PassSucceeds, IInv, TypeOK
  <2>4. ASSUME NEW w \in Workers, PassEndsUnreported(w) PROVE IInv'
    BY <2>4 DEF PassEndsUnreported, breakerVars, IInv, TypeOK, ScheduleCoherent
  <2>5. CASE KeyReloaded
    BY <2>5, SuccessStep DEF KeyReloaded, IInv, TypeOK
  <2>6. CASE Tick
    BY <2>6, CapBounds, BreakerAssumption
    DEF Tick, breakerVars, IInv, TypeOK, ScheduleCoherent, Zero, Enabled
  <2>7. CASE Restart
    BY <2>7, BreakerAssumption DEF Restart, IInv, TypeOK, ScheduleCoherent, Zero, Enabled
  <2>8. CASE UNCHANGED vars
    BY <2>8 DEF vars, IInv, TypeOK, ScheduleCoherent
  <2> QED BY <2>1, <2>2, <2>3, <2>4, <2>5, <2>6, <2>7, <2>8 DEF Next
<1> QED BY <1>1, <1>2, PTL DEF Spec

\* The breaker's state always has its types and its schedule is always coherent:
\* no caller of Allow or Failure is told to wait past the cap (breaker.go).
THEOREM BreakerSafety == Spec => [](TypeOK /\ ScheduleCoherent)
<1>1. IInv => TypeOK /\ ScheduleCoherent
  BY DEF IInv
<1> QED BY <1>1, Inductive, PTL

\* The types alone: the counters of Failure stay numbers, and only workers are
\* inside admitted passes.
THEOREM BreakerTyped == Spec => []TypeOK
<1>1. TypeOK /\ ScheduleCoherent => TypeOK
  OBVIOUS
<1> QED BY <1>1, BreakerSafety, PTL

\* Failures that race the cooldown never postpone the probe: while the breaker
\* is shut only an answer of the provider, or a restart, moves its schedule.
THEOREM ShutScheduleHolds == Spec => ShutScheduleFixed
<1>1. IInv /\ [Next]_vars
        => [ (openUntil # Zero /\ now < openUntil)
               => openUntil' \in {openUntil, Zero} ]_vars
  <2> SUFFICES ASSUME IInv, Next, openUntil # Zero, now < openUntil
               PROVE  openUntil' \in {openUntil, Zero}
    BY DEF vars
  <2> USE BreakerAssumption DEF IInv, TypeOK, Enabled, Zero, breakerVars
  <2>1. Failure => openUntil' = openUntil
    BY DEF Failure, CountFailure, Trip, FailureWhileShut, FailedProbe
  <2>2. Success => openUntil' \in {openUntil, Zero}
    BY DEF Success
  <2> QED
    BY <2>1, <2>2 DEF Next, Admit, PassFails, PassSucceeds,
       PassEndsUnreported, KeyReloaded, Restart, Tick
<1> QED BY <1>1, Inductive, PTL DEF Spec, ShutScheduleFixed

\* openedAt measures the outage: it never moves within an open episode, and the
\* waits of one episode never get shorter.
THEOREM EpisodeDated == Spec => EpisodeDatesOutage
<1>1. IInv /\ [Next]_vars
        => [ (openUntil # Zero /\ openUntil' # Zero)
               => openedAt' = openedAt /\ cooldown' >= cooldown ]_vars
  <2> SUFFICES ASSUME IInv, Next, openUntil # Zero, openUntil' # Zero
               PROVE  openedAt' = openedAt /\ cooldown' >= cooldown
    BY DEF vars
  <2> USE BreakerAssumption DEF IInv, TypeOK, ScheduleCoherent, Enabled, Zero, breakerVars
  <2>1. ASSUME Failure PROVE openedAt' = openedAt /\ cooldown' >= cooldown
    <3>1. cooldown <= MaxCooldown /\ cooldown \in Nat
      OBVIOUS
    <3>2. cooldown <= Capped(cooldown * 2) /\ Capped(cooldown * 2) \in Nat
      BY <3>1, CappedDoubling, CapBounds DEF Capped
    <3> QED
      BY <2>1, <3>1, <3>2
      DEF Failure, CountFailure, Trip, FailureWhileShut, FailedProbe
  <2>2. ASSUME Success PROVE openedAt' = openedAt /\ cooldown' >= cooldown
    BY <2>2 DEF Success
  <2> QED
    BY <2>1, <2>2 DEF Next, Admit, PassFails, PassSucceeds,
       PassEndsUnreported, KeyReloaded, Restart, Tick
<1> QED BY <1>1, Inductive, PTL DEF Spec, EpisodeDatesOutage
=============================================================================
