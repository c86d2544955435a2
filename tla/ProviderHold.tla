---------------------------- MODULE ProviderHold ----------------------------
(***************************************************************************)
(* A fleet of Buckets through an outage of the provider: what each of them *)
(* advertises while its passes fail (fail, degrade, holdsReadyThrough), or *)
(* are held back by the circuit breaker (holdForProvider), and when the    *)
(* provider answers again; also when a pass ends with a verdict on the     *)
(* Bucket itself: its bucket is gone (guardBucketPresent), or its spec     *)
(* cannot be provisioned (failNoRequeue). The breaker is the one of        *)
(* ProviderBreaker, and this module's steps are steps of that module.      *)
(*                                                                         *)
(* A pass is two steps: its start, with markProvisioning, and its end. The *)
(* object may change in between, and then the final status write is        *)
(* refused. Passes over different Buckets may overlap: the controller runs *)
(* one worker by default, and one pass at a time is a special case.        *)
(***************************************************************************)
EXTENDS Integers, FiniteSets

CONSTANTS
  Workers, Threshold, BaseCooldown, DefaultCap, ConfiguredCap, MaxTime,
  Grace,        \* ProviderDegradedGrace; 0: no Ready is held
  MaxTurns,     \* bound: changes of the provider's condition
  MaxEvents     \* bound: spec changes, buckets deleted out of band, operator restarts

ASSUME HoldAssumption ==
  /\ Threshold \in Int /\ ConfiguredCap \in Int
  /\ BaseCooldown \in Nat \ {0} /\ DefaultCap \in Nat \ {0} /\ MaxTime \in Nat
  /\ Grace \in Nat /\ MaxTurns \in Nat /\ MaxEvents \in Nat

VARIABLES
  now, consecutive, cooldown, openUntil, openedAt, busy,  \* as in ProviderBreaker
  res,       \* the Buckets as the API server holds them
  copy,      \* the object of the pass under way; New between passes
  provider,  \* "answers", "silent" or "refuses"
  gone,      \* the Buckets whose provisioned bucket the provider does not have any more
  turns, events   \* what is left of the bounds

Breaker == INSTANCE ProviderBreaker

breakerVars == <<now, consecutive, cooldown, openUntil, openedAt, busy>>
cloud == <<provider, gone>>
bounds == <<turns, events>>
vars == <<now, consecutive, cooldown, openUntil, openedAt, busy,
          res, copy, provider, gone, turns, events>>

Never == 0

\* faulty: the spec holds a fault no retry can fix; resolved: the Bucket was
\* provisioned once (status.resolvedBucketName).
Resource ==
  [phase : {"Pending", "Provisioning", "Ready", "Failed"}, ready : BOOLEAN,
   generation : Nat, faulty : BOOLEAN, observed : Nat, resolved : BOOLEAN,
   degradedSince : Nat]

New == [phase |-> "Pending", ready |-> FALSE, generation |-> 1, faulty |-> FALSE,
        observed |-> 0, resolved |-> FALSE, degradedSince |-> Never]

Init ==
  /\ Breaker!Init
  /\ res = [w \in Workers |-> New]
  /\ copy = res
  /\ provider = "answers" /\ gone = {}
  /\ turns = MaxTurns /\ events = MaxEvents

----------------------------------------------------------------------------
(* What a pass makes of the object it holds. *)

ProvisioningSettled(r) == r.observed = r.generation /\ r.phase \in {"Ready", "Failed"}

\* Not reached with a spec specGuardError rejects.
MarkProvisioning(r) ==
  IF r.faulty \/ ProvisioningSettled(r) THEN r ELSE [r EXCEPT !.phase = "Provisioning"]

MarkReady(r) ==
  [r EXCEPT !.phase = "Ready", !.ready = TRUE, !.observed = r.generation,
            !.resolved = TRUE, !.degradedSince = Never]

\* Mutant of MarkFailed: a phase the CRD does not know.
MarkFailedUnknownPhase(r) == [r EXCEPT !.phase = "Unreachable", !.ready = FALSE]

MarkFailed(r) ==
  [r EXCEPT !.phase = "Failed", !.ready = FALSE, !.observed = r.generation]

\* guardBucketPresent's report of a vanished bucket: the provider answered, so
\* the degradation is over, and Ready is False.
MarkMissing(r) == [MarkFailed(r) EXCEPT !.degradedSince = Never]

\* Only a Bucket that converged on its current spec has a Ready to hold.
HoldsReadyThrough(r) ==
  Grace > 0 /\ r.observed = r.generation /\ r.phase = "Ready" /\ r.ready

GraceOver(r) == r.degradedSince # Never /\ now - r.degradedSince >= Grace

\* Mutant of DegradeOrFail: every failure dates the degradation anew.
DegradeRedates(r) ==
  IF HoldsReadyThrough(r) /\ ~GraceOver(r)
    THEN [r EXCEPT !.degradedSince = now]
    ELSE MarkFailed(r)

\* degrade, or markFailed when degrade declines.
DegradeOrFail(r) ==
  IF HoldsReadyThrough(r) /\ ~GraceOver(r)
    THEN [r EXCEPT !.degradedSince = IF @ = Never THEN now ELSE @]
    ELSE MarkFailed(r)

\* Mutant of HoldNeedsWrite: a held Bucket is never written again.
HoldNeedsFirstWrite(r) == r.phase # "Failed" /\ r.degradedSince = Never

\* providerHoldNeedsWrite: the first visit under the outage, and the end of the grace.
HoldNeedsWrite(r) ==
  /\ r.phase # "Failed"
  /\ r.degradedSince = Never \/ (Grace > 0 /\ GraceOver(r))

\* The final status write of a pass; refused when the object moved.
Write(w, r) ==
  res' = IF copy[w].generation = res[w].generation THEN [res EXCEPT ![w] = r] ELSE res

----------------------------------------------------------------------------
(* The passes. *)

Begin(w) ==
  /\ Breaker!Admit(w)
  /\ res' = [res EXCEPT ![w] = MarkProvisioning(@)]
  /\ copy' = [copy EXCEPT ![w] = res'[w]]
  /\ UNCHANGED <<cloud, bounds>>

\* The terminal write and, only when it landed, Breaker.Success.
Succeed(w) ==
  /\ provider = "answers" /\ w \notin gone /\ ~copy[w].faulty
  /\ IF copy[w].generation = res[w].generation
       THEN Breaker!PassSucceeds(w)
       ELSE Breaker!PassEndsUnreported(w)
  /\ Write(w, MarkReady(copy[w]))
  /\ copy' = [copy EXCEPT ![w] = New]
  /\ UNCHANGED <<cloud, bounds>>

\* fail() after a call the provider did not answer.
Fail(w) ==
  /\ provider = "silent" /\ ~copy[w].faulty
  /\ Breaker!PassFails(w)
  /\ Write(w, DegradeOrFail(copy[w]))
  /\ copy' = [copy EXCEPT ![w] = New]
  /\ UNCHANGED <<cloud, bounds>>

\* fail() after a structured refusal, which no Ready is held through.
FailRefused(w) ==
  /\ provider = "refuses" /\ ~copy[w].faulty
  /\ Breaker!PassFails(w)
  /\ Write(w, MarkFailed(copy[w]))
  /\ copy' = [copy EXCEPT ![w] = New]
  /\ UNCHANGED <<cloud, bounds>>

\* guardBucketPresent: the bucket is gone. No report to the breaker either way;
\* the error is requeued, so a restored bucket recovers.
ReportMissing(w) ==
  /\ provider = "answers" /\ w \in gone /\ ~copy[w].faulty
  /\ Breaker!PassEndsUnreported(w)
  /\ Write(w, MarkMissing(copy[w]))
  /\ copy' = [copy EXCEPT ![w] = New]
  /\ UNCHANGED <<cloud, bounds>>

\* failNoRequeue: a fault of the spec, whatever the provider does. It keeps a
\* recorded degradation, reports nothing to the breaker and is not requeued.
FailDefinitive(w) ==
  /\ copy[w].faulty
  /\ Breaker!PassEndsUnreported(w)
  /\ Write(w, MarkFailed(copy[w]))
  /\ copy' = [copy EXCEPT ![w] = New]
  /\ UNCHANGED <<cloud, bounds>>

\* Mutant of Hold: a held pass counts as one more failure of the provider.
HoldCounts(w) ==
  /\ w \notin busy /\ ~Breaker!Allow
  /\ Breaker!Failure
  /\ UNCHANGED <<now, busy, res, copy, cloud, bounds>>

\* holdForProvider: no provider call, no report to the breaker.
Hold(w) ==
  /\ w \notin busy /\ ~Breaker!Allow
  /\ res' = [res EXCEPT ![w] = IF HoldNeedsWrite(@) THEN DegradeOrFail(@) ELSE @]
  /\ UNCHANGED <<breakerVars, copy, cloud, bounds>>

KeyReloaded ==
  /\ provider = "answers"
  /\ Breaker!KeyReloaded
  /\ UNCHANGED <<res, copy, cloud, bounds>>

\* An event that spends the bound; the provider's condition stays.
Happens == events > 0 /\ events' = events - 1 /\ turns' = turns

Restart ==
  /\ Happens
  /\ Breaker!Restart
  /\ copy' = [w \in Workers |-> New]
  /\ UNCHANGED <<res, cloud>>

----------------------------------------------------------------------------
(* Users, the provider and the clock. *)

Edited(r, faulty) == [r EXCEPT !.generation = r.generation + 1, !.faulty = faulty]

\* The repair of a faulty spec spends no bound: there is one per fault.
UserEditsSpec(w, faulty) ==
  /\ IF res[w].faulty /\ ~faulty THEN UNCHANGED bounds ELSE Happens
  /\ res' = [res EXCEPT ![w] = Edited(@, faulty)]
  /\ UNCHANGED <<breakerVars, copy, cloud>>

ProviderTurns(p) ==
  /\ turns > 0 /\ turns' = turns - 1
  /\ p # provider /\ provider' = p
  /\ UNCHANGED <<breakerVars, res, copy, gone, events>>

\* The bucket of a provisioned Bucket is deleted out of band, or brought back.
BucketVanishes(w) ==
  /\ Happens
  /\ res[w].resolved /\ w \notin gone /\ gone' = gone \cup {w}
  /\ UNCHANGED <<breakerVars, res, copy, provider>>

BucketRestored(w) ==
  /\ w \in gone /\ gone' = gone \ {w}
  /\ UNCHANGED <<breakerVars, res, copy, provider, bounds>>

Tick ==
  /\ Breaker!Tick
  /\ UNCHANGED <<res, copy, cloud, bounds>>

End(w) == Succeed(w) \/ Fail(w) \/ FailRefused(w) \/ ReportMissing(w) \/ FailDefinitive(w)

Next ==
  \/ \E w \in Workers : Begin(w) \/ End(w) \/ Hold(w)
  \/ \E w \in Workers, faulty \in BOOLEAN : UserEditsSpec(w, faulty)
  \/ \E w \in Workers : BucketVanishes(w) \/ BucketRestored(w)
  \/ KeyReloaded \/ Restart \/ Tick
  \/ \E p \in {"answers", "silent", "refuses"} : ProviderTurns(p)

Spec == Init /\ [][Next]_vars

\* A Bucket failNoRequeue gave up on: no timer brings it back before its next edit.
Parked(w) == res[w].faulty /\ res[w].phase = "Failed" /\ res[w].observed = res[w].generation

\* Every pass ends by an answer or a timeout, a held, failed or verified Bucket
\* is requeued unless it is parked, and time passes. Nothing is assumed of the
\* provider, nor that a vanished bucket is brought back.
FairSpec ==
  /\ Spec
  /\ WF_vars(Tick)
  /\ \A w \in Workers : /\ WF_vars(~Parked(w) /\ Begin(w))
                         /\ WF_vars(End(w))
                         /\ WF_vars(~Parked(w) /\ Hold(w))

----------------------------------------------------------------------------
(* Properties. *)

TypeOK ==
  /\ Breaker!TypeOK
  /\ res \in [Workers -> Resource]
  /\ copy \in [Workers -> Resource]
  /\ provider \in {"answers", "silent", "refuses"}
  /\ gone \subseteq Workers
  /\ turns \in Nat /\ events \in Nat

\* The fleet drives the breaker as ProviderBreaker says it is driven: only an
\* admitted pass reports to it, once, and a held one reports nothing. What is
\* proved of the breaker therefore holds of the breaker in this fleet.
DrivesBreaker == Breaker!Spec

\* The status a pass leaves when the provider answered about the Bucket: verified
\* Ready for its spec, or Failed because its bucket is gone.
Established(w) ==
  \/ w \notin gone /\ res[w].ready /\ res[w].observed = res[w].generation
  \/ w \in gone /\ ~res[w].ready /\ res[w].phase = "Failed"

\* One outage has one beginning: neither failed probes, nor held passes, nor a
\* definitive failure, nor a restart of the operator move degradedSince while it
\* is set; only a pass the provider answered about this Bucket clears it: it
\* verified Ready, or it found the bucket gone and dropped Ready (clearDegraded
\* in the terminal write and in guardBucketPresent).
OutageDatedOnce ==
  [][ \A w \in Workers :
        (res[w].degradedSince # Never /\ res'[w].degradedSince # res[w].degradedSince)
          => res'[w].degradedSince = Never /\ provider = "answers" /\ Established(w)' ]_vars

\* The grace ends: a Ready that is only held does not outlive the window, also
\* when the breaker keeps every pass away from the provider.
GraceEnds ==
  \A w \in Workers :
    (res[w].ready /\ res[w].degradedSince # Never
       /\ res[w].degradedSince + Grace <= MaxTime)
      ~> (~res[w].ready \/ res[w].degradedSince = Never)

\* When the provider answers again and keeps answering, every Bucket of the fleet
\* comes to show the truth with at most one more cooldown in between: Ready for its
\* spec, or Failed when its bucket is gone or its spec is at fault. Buckets with
\* such a verdict, which reports nothing to the breaker, keep nobody else waiting.
FleetRecovers ==
  (provider = "answers" /\ turns = 0 /\ now + Breaker!MaxCooldown <= MaxTime)
    ~> (\A w \in Workers :
          IF res[w].faulty THEN res[w].phase = "Failed" /\ ~res[w].ready
                           ELSE Established(w))

=============================================================================
