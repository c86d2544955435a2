--------------------------- MODULE ProviderBreaker ---------------------------
(***************************************************************************)
(* The fleet-wide circuit breaker of internal/controller/breaker.go, with  *)
(* the callers that drive it: the workers of the bucket controller, each   *)
(* of which asks Allow before it talks to the provider and reports the     *)
(* outcome of its pass, and the service-account-key reloader, which closes *)
(* the breaker from a goroutine of its own.                                *)
(*                                                                         *)
(* Every call of the breaker holds its mutex, so each one is a step. Time  *)
(* is a counter that starts at 1: the zero time of Go is 0 here.           *)
(***************************************************************************)
EXTENDS Integers, FiniteSets

CONSTANTS
  Workers,       \* the reconciling workers (one in production)
  Threshold,     \* failures in a row that open the breaker; below 1: disabled
  BaseCooldown,  \* circuitBaseCooldown
  DefaultCap,    \* DefaultCircuitMaxCooldown
  ConfiguredCap, \* the configured cap, of any sign
  MaxTime        \* bound: the horizon of the clock

ASSUME BreakerAssumption ==
  /\ Threshold \in Int
  /\ BaseCooldown \in Nat \ {0}
  /\ DefaultCap \in Nat \ {0}
  /\ ConfiguredCap \in Int
  /\ MaxTime \in Nat

VARIABLES
  now,          \* the clock
  consecutive,  \* failures since the last success
  cooldown,     \* the wait the last trip applied
  openUntil,    \* when the next probe may run; Zero: closed
  openedAt,     \* when the current open episode began; Zero: closed
  busy          \* the workers inside a pass that Allow admitted

breakerVars == <<consecutive, cooldown, openUntil, openedAt>>
vars == <<now, consecutive, cooldown, openUntil, openedAt, busy>>

Zero == 0

\* NewProviderBreaker: a non-positive cap is the default one, and a cap below
\* the base cooldown is raised to it.
MaxCooldown ==
  LET cap == IF ConfiguredCap <= 0 THEN DefaultCap ELSE ConfiguredCap
  IN  IF cap < BaseCooldown THEN BaseCooldown ELSE cap

Enabled == Threshold >= 1

\* Mutant of Capped: the doubling is never capped.
CappedUncapped(d) == d

Capped(d) == IF d > MaxCooldown THEN MaxCooldown ELSE d

----------------------------------------------------------------------------
(* The operations of the breaker. *)

\* Mutant of Allow: an elapsed cooldown is not noticed.
AllowOnlyClosed == ~Enabled \/ openUntil = Zero

\* A reconcile may talk to the provider now.
Allow == ~Enabled \/ openUntil = Zero \/ openUntil <= now

\* A pass ended without an answer of the provider. Below the threshold only the
\* count moves; a trip sets the schedule; a failure that arrives while the
\* breaker is shut leaves the schedule alone; a failed probe doubles the wait.
CountFailure ==
  /\ Enabled /\ consecutive + 1 < Threshold
  /\ consecutive' = consecutive + 1
  /\ UNCHANGED <<cooldown, openUntil, openedAt>>

\* Mutant of Trip: the schedule is the remaining wait, not the time it ends.
TripRelative ==
  /\ Enabled /\ consecutive + 1 >= Threshold
  /\ openUntil = Zero
  /\ consecutive' = consecutive + 1
  /\ cooldown' = Capped(BaseCooldown)
  /\ openedAt' = now
  /\ openUntil' = cooldown' - now

Trip ==
  /\ Enabled /\ consecutive + 1 >= Threshold
  /\ openUntil = Zero
  /\ consecutive' = consecutive + 1
  /\ cooldown' = Capped(BaseCooldown)
  /\ openedAt' = now
  /\ openUntil' = now + cooldown'

\* Mutant of FailureWhileShut: a racing failure starts the cooldown afresh.
FailureWhileShutExtends ==
  /\ Enabled /\ consecutive + 1 >= Threshold
  /\ openUntil # Zero /\ now < openUntil
  /\ consecutive' = consecutive + 1
  /\ openUntil' = now + cooldown
  /\ UNCHANGED <<cooldown, openedAt>>

FailureWhileShut ==
  /\ Enabled /\ consecutive + 1 >= Threshold
  /\ openUntil # Zero /\ now < openUntil
  /\ consecutive' = consecutive + 1
  /\ UNCHANGED <<cooldown, openUntil, openedAt>>

\* Mutant of FailedProbe: every failed probe dates the outage anew.
FailedProbeRedates ==
  /\ Enabled /\ consecutive + 1 >= Threshold
  /\ openUntil # Zero /\ openUntil <= now
  /\ consecutive' = consecutive + 1
  /\ cooldown' = Capped(cooldown * 2)
  /\ openUntil' = now + cooldown'
  /\ openedAt' = now

FailedProbe ==
  /\ Enabled /\ consecutive + 1 >= Threshold
  /\ openUntil # Zero /\ openUntil <= now
  /\ consecutive' = consecutive + 1
  /\ cooldown' = Capped(cooldown * 2)
  /\ openUntil' = now + cooldown'
  /\ UNCHANGED openedAt

Failure ==
  \/ CountFailure
  \/ Trip
  \/ FailureWhileShut
  \/ FailedProbe
  \/ ~Enabled /\ UNCHANGED breakerVars

Success ==
  IF Enabled
    THEN /\ consecutive' = 0
         /\ cooldown' = 0
         /\ openUntil' = Zero
         /\ openedAt' = Zero
    ELSE UNCHANGED breakerVars

----------------------------------------------------------------------------
(* The callers. *)

Init ==
  /\ now = 1
  /\ consecutive = 0
  /\ cooldown = 0
  /\ openUntil = Zero
  /\ openedAt = Zero
  /\ busy = {}

\* Reconcile / reconcileDelete: the gate before the provider work of a pass.
Admit(w) ==
  /\ w \notin busy
  /\ Allow
  /\ busy' = busy \cup {w}
  /\ UNCHANGED <<now, breakerVars>>

\* fail(): the pass ended with a failure that says nothing definitive.
PassFails(w) ==
  /\ w \in busy
  /\ Failure
  /\ busy' = busy \ {w}
  /\ UNCHANGED now

\* The terminal Ready write, or a finished teardown.
PassSucceeds(w) ==
  /\ w \in busy
  /\ Success
  /\ busy' = busy \ {w}
  /\ UNCHANGED now

\* A definitive fault (failNoRequeue, BucketMissing), a conflict on the terminal
\* write or a running clone: the pass ends and the breaker hears nothing.
PassEndsUnreported(w) ==
  /\ w \in busy
  /\ busy' = busy \ {w}
  /\ UNCHANGED <<now, breakerVars>>

\* SAKeyReloadObserver.Observe on ReloadApplied, from the reload goroutine.
KeyReloaded ==
  /\ Success
  /\ UNCHANGED <<now, busy>>

\* The breaker lives in memory: a restarted operator has a new one, and the
\* passes it was in are gone.
Restart ==
  /\ consecutive' = 0 /\ cooldown' = 0 /\ openUntil' = Zero /\ openedAt' = Zero
  /\ busy' = {}
  /\ UNCHANGED now

Tick ==
  /\ now < MaxTime
  /\ now' = now + 1
  /\ UNCHANGED <<breakerVars, busy>>

Next ==
  \/ \E w \in Workers : Admit(w)
  \/ \E w \in Workers : PassFails(w)
  \/ \E w \in Workers : PassSucceeds(w)
  \/ \E w \in Workers : PassEndsUnreported(w)
  \/ KeyReloaded
  \/ Restart
  \/ Tick

Spec == Init /\ [][Next]_vars

\* Time passes; nothing is assumed of the workers or of the provider.
FairSpec == Spec /\ WF_vars(Tick)

----------------------------------------------------------------------------
(* Properties. *)

TypeOK ==
  /\ now \in Nat
  /\ consecutive \in Nat
  /\ cooldown \in Nat
  /\ openUntil \in Nat
  /\ openedAt \in Nat
  /\ busy \in SUBSET Workers

\* The schedule is coherent (breaker.go, Failure and Success): the breaker is
\* open exactly when the failures in a row reached the threshold, an open
\* episode has a start that lies in the past, and no caller is ever told to wait
\* longer than the cap, whatever number of probes failed.
ScheduleCoherent ==
  /\ openUntil # Zero <=> (Enabled /\ consecutive >= Threshold)
  /\ openUntil # Zero <=> openedAt # Zero
  /\ openUntil = Zero => cooldown = 0
  /\ openUntil # Zero =>
       /\ BaseCooldown <= cooldown /\ cooldown <= MaxCooldown
       /\ openedAt <= now
       /\ openedAt + cooldown <= openUntil
       /\ openUntil <= now + MaxCooldown

\* While the breaker is shut nothing but an answer of the provider, or a restart,
\* moves its schedule: the failures of passes that were already in flight when it opened
\* cannot postpone the probe.
ShutScheduleFixed ==
  [][ (openUntil # Zero /\ now < openUntil)
        => openUntil' \in {openUntil, Zero} ]_vars

\* openedAt dates the outage and not the last probe: across the failed probes of
\* one episode it stays where it was, while the waits never get shorter.
EpisodeDatesOutage ==
  [][ (openUntil # Zero /\ openUntil' # Zero)
        => openedAt' = openedAt /\ cooldown' >= cooldown ]_vars

\* A shut breaker admits a probe again within one capped cooldown of time.
ProbeComesDue ==
  (~Allow /\ now + MaxCooldown <= MaxTime) ~> Allow

=============================================================================
