------------------------- MODULE ProviderHoldProofs -------------------------
(***************************************************************************)
(* The fleet implements ProviderBreaker, and an outage has one beginning   *)
(* on every Bucket, for any number of Buckets, any grace and any cooldown. *)
(*                                                                         *)
(* A pass writes the copy it read at its start. That such a write cannot   *)
(* bring back an older degradedSince is not evident from the step alone:   *)
(* the induction carries that nobody else writes it during a pass.         *)
(***************************************************************************)
EXTENDS ProviderHold, TLAPS

\* During a pass the record of the degradation is the pass's own, and the whole
\* copy is current unless the spec moved.
CopyCurrent ==
  \A w \in busy :
    /\ copy[w].degradedSince = res[w].degradedSince
    /\ copy[w].generation <= res[w].generation
    /\ copy[w].generation = res[w].generation => copy[w] = res[w]

\* A step of the fleet is a step of the breaker's own specification, or leaves
\* the breaker, the clock and the set of admitted passes alone.
LEMMA FleetStep == [Next]_vars => [Breaker!Next]_(Breaker!vars)
<1> SUFFICES ASSUME [Next]_vars PROVE [Breaker!Next]_(Breaker!vars)
  OBVIOUS
<1> USE DEF Breaker!Next, Breaker!vars
<1>1. ASSUME NEW w \in Workers, Begin(w) PROVE Breaker!Next
  BY <1>1 DEF Begin
<1>2. ASSUME NEW w \in Workers, Succeed(w) PROVE Breaker!Next
  BY <1>2 DEF Succeed
<1>3. ASSUME NEW w \in Workers, Fail(w) \/ FailRefused(w) \/ ReportMissing(w) \/ FailDefinitive(w)
      PROVE  Breaker!Next
  BY <1>3 DEF Fail, FailRefused, ReportMissing, FailDefinitive
<1>4. ASSUME NEW w \in Workers, NEW faulty \in BOOLEAN, Hold(w) \/ UserEditsSpec(w, faulty)
               \/ BucketVanishes(w) \/ BucketRestored(w)
      PROVE  UNCHANGED Breaker!vars
  BY <1>4 DEF Hold, UserEditsSpec, BucketVanishes, BucketRestored, breakerVars
<1>5. CASE KeyReloaded \/ Restart \/ Tick
  BY <1>5 DEF KeyReloaded, Restart, Tick
<1>6. ASSUME NEW p \in {"answers", "silent", "refuses"}, ProviderTurns(p)
      PROVE  UNCHANGED Breaker!vars
  BY <1>6 DEF ProviderTurns, breakerVars
<1>7. CASE UNCHANGED vars
  BY <1>7 DEF vars
<1> QED
  BY <1>1, <1>2, <1>3, <1>4, <1>5, <1>6, <1>7 DEF Next, End

\* The fleet drives the breaker exactly as ProviderBreaker allows, so what
\* ProviderBreakerProofs establishes holds of the breaker in the fleet (fail,
\* holdForProvider, the terminal Ready write, Observe).
THEOREM FleetDrivesBreaker == Spec => DrivesBreaker
<1>1. Init => Breaker!Init
  BY DEF Init
<1> QED
  BY <1>1, FleetStep, PTL DEF Spec, DrivesBreaker, Breaker!Spec

----------------------------------------------------------------------------
(* The record of an outage on a Bucket. *)

\* The objects are records with their fields; what a pass makes of one is one too.
Typed == res \in [Workers -> Resource] /\ copy \in [Workers -> Resource]

IInv == now \in Nat /\ busy \subseteq Workers /\ Typed /\ CopyCurrent

\* The results of a pass are records; the failing ones keep a date that is set,
\* and none of them touches the generation.
LEMMA Results ==
  ASSUME NEW r \in Resource, now \in Nat
  PROVE  /\ MarkProvisioning(r) \in Resource
         /\ MarkReady(r) \in Resource
         /\ MarkFailed(r) \in Resource
         /\ MarkMissing(r) \in Resource
         /\ DegradeOrFail(r) \in Resource
         /\ MarkProvisioning(r).degradedSince = r.degradedSince
         /\ MarkProvisioning(r).generation = r.generation
         /\ MarkFailed(r).degradedSince = r.degradedSince
         /\ r.degradedSince # Never => DegradeOrFail(r).degradedSince = r.degradedSince
         /\ MarkReady(r).degradedSince = Never
         /\ MarkReady(r).ready = TRUE
         /\ MarkReady(r).observed = MarkReady(r).generation
         /\ MarkMissing(r).degradedSince = Never
         /\ MarkMissing(r).ready = FALSE
         /\ MarkMissing(r).phase = "Failed"
BY DEF Resource, MarkProvisioning, MarkReady, MarkFailed, MarkMissing, DegradeOrFail, Never

\* Every end of a pass leaves the clock alone and takes its worker out.
LEMMA EndStep ==
  ASSUME NEW w \in Workers,
         Breaker!PassSucceeds(w) \/ Breaker!PassEndsUnreported(w) \/ Breaker!PassFails(w)
  PROVE  w \in busy /\ now' = now /\ busy' = busy \ {w}
BY DEF Breaker!PassSucceeds, Breaker!PassEndsUnreported, Breaker!PassFails

\* The end of a pass: whatever it writes is a record, and the copies of the other
\* passes stay current.
LEMMA WriteStep ==
  ASSUME IInv, NEW w \in Workers, NEW r \in Resource, Write(w, r),
         copy' = [copy EXCEPT ![w] = New],
         w \in busy, now' = now, busy' = busy \ {w}
  PROVE  IInv'
<1>1. New \in Resource
  BY DEF New, Resource, Never
<1>2. Typed'
  BY <1>1 DEF IInv, Typed, Write
<1>3. \A x \in busy' : x # w /\ x \in busy /\ res'[x] = res[x] /\ copy'[x] = copy[x]
  BY DEF IInv, Typed, Write
<1>4. CopyCurrent'
  BY <1>3 DEF IInv, CopyCurrent
<1> QED
  BY <1>2, <1>4 DEF IInv

\* Every step keeps the copies of the running passes current.
LEMMA Inductive == IInv /\ [Next]_vars => IInv'
<1> SUFFICES ASSUME IInv, [Next]_vars PROVE IInv'
  OBVIOUS
<1>0. now \in Nat /\ busy \subseteq Workers /\ Typed /\ CopyCurrent
  BY DEF IInv
<1>1. ASSUME NEW w \in Workers, Begin(w) PROVE IInv'
  <2>1. now' = now /\ busy' = busy \cup {w}
    BY <1>1 DEF Begin, Breaker!Admit, Breaker!breakerVars
  <2>2. MarkProvisioning(res[w]) \in Resource
    BY <1>0, Results DEF Typed
  <2>3. /\ res' = [res EXCEPT ![w] = MarkProvisioning(res[w])]
        /\ copy' = [copy EXCEPT ![w] = res'[w]]
    BY <1>1 DEF Begin
  <2>4. Typed'
    BY <1>0, <2>2, <2>3 DEF Typed
  <2>5. res'[w] \in Resource /\ copy'[w] = res'[w]
    BY <1>0, <2>2, <2>3 DEF Typed
  <2>6. copy'[w].generation <= res'[w].generation
    BY <2>5 DEF Resource
  <2>7. \A x \in busy \ {w} : res'[x] = res[x] /\ copy'[x] = copy[x]
    BY <1>0, <2>3 DEF Typed
  <2>8. CopyCurrent'
    BY <1>0, <2>1, <2>5, <2>6, <2>7 DEF CopyCurrent
  <2> QED
    BY <1>0, <2>1, <2>4, <2>8 DEF IInv
<1>2. ASSUME NEW w \in Workers, End(w) PROVE IInv'
  <2>1. /\ copy[w] \in Resource
        /\ MarkReady(copy[w]) \in Resource
        /\ DegradeOrFail(copy[w]) \in Resource
        /\ MarkFailed(copy[w]) \in Resource
        /\ MarkMissing(copy[w]) \in Resource
    BY <1>0, Results DEF Typed
  <2>2. w \in busy /\ now' = now /\ busy' = busy \ {w}
    BY <1>2, EndStep DEF End, Succeed, Fail, FailRefused, ReportMissing, FailDefinitive
  <2>3. \E r \in Resource : Write(w, r)
    BY <1>2, <2>1 DEF End, Succeed, Fail, FailRefused, ReportMissing, FailDefinitive
  <2>4. copy' = [copy EXCEPT ![w] = New]
    BY <1>2 DEF End, Succeed, Fail, FailRefused, ReportMissing, FailDefinitive
  <2> QED
    BY <2>2, <2>3, <2>4, WriteStep
<1>3. ASSUME NEW w \in Workers, Hold(w) PROVE IInv'
  <2>1. /\ w \notin busy /\ now' = now /\ busy' = busy /\ copy' = copy
        /\ res' = [res EXCEPT ![w] = IF HoldNeedsWrite(res[w])
                                       THEN DegradeOrFail(res[w]) ELSE res[w]]
    BY <1>3 DEF Hold, breakerVars
  <2>2. Typed'
    BY <1>0, <2>1, Results DEF Typed
  <2>3. \A x \in busy : res'[x] = res[x]
    BY <1>0, <2>1 DEF Typed
  <2>4. CopyCurrent'
    BY <1>0, <2>1, <2>3 DEF CopyCurrent
  <2> QED
    BY <1>0, <2>1, <2>2, <2>4 DEF IInv
<1>4. ASSUME NEW w \in Workers, NEW faulty \in BOOLEAN, UserEditsSpec(w, faulty) PROVE IInv'
  <2> DEFINE r == Edited(res[w], faulty)
  <2>1. /\ now' = now /\ busy' = busy /\ copy' = copy
        /\ res' = [res EXCEPT ![w] = r]
    BY <1>4 DEF UserEditsSpec, breakerVars
  <2>a. res[w] \in Resource /\ copy[w] \in Resource
    BY <1>0 DEF Typed
  <2>b. res[w].generation \in Nat /\ copy[w].generation \in Nat
    BY <2>a DEF Resource
  <2>c. r \in Resource
    <3> DEFINE n == res[w].generation + 1
    <3>1. n \in Nat
      BY <2>b
    <3> HIDE DEF n
    <3>2. [res[w] EXCEPT !.generation = n] \in Resource
      BY <2>a, <3>1 DEF Resource
    <3>3. [[res[w] EXCEPT !.generation = n] EXCEPT !.faulty = faulty] \in Resource
      BY <3>2 DEF Resource
    <3>4. r = [[res[w] EXCEPT !.generation = n] EXCEPT !.faulty = faulty]
      BY <2>a DEF Resource, Edited, n
    <3> QED
      BY <3>3, <3>4
  <2>d. r.degradedSince = res[w].degradedSince /\ r.generation = res[w].generation + 1
    BY <2>a DEF Resource, Edited
  <2>2. /\ r \in Resource /\ r.degradedSince = res[w].degradedSince
        /\ r.generation = res[w].generation + 1
        /\ res[w].generation \in Nat /\ copy[w].generation \in Nat
    BY <2>b, <2>c, <2>d
  <2> HIDE DEF r
  <2>3. Typed'
    BY <1>0, <2>1, <2>2 DEF Typed
  <2>4. res'[w] = r /\ \A x \in busy \ {w} : res'[x] = res[x]
    BY <1>0, <2>1 DEF Typed
  <2>5. CopyCurrent'
    BY <1>0, <2>1, <2>2, <2>4 DEF CopyCurrent
  <2> QED
    BY <1>0, <2>1, <2>3, <2>5 DEF IInv
<1>5. CASE KeyReloaded
  BY <1>0, <1>5 DEF KeyReloaded, Breaker!KeyReloaded, IInv, Typed, CopyCurrent
<1>6. CASE Restart
  <2>1. New \in Resource
    BY DEF New, Resource, Never
  <2> QED
    BY <1>0, <1>6, <2>1 DEF Restart, Breaker!Restart, IInv, Typed, CopyCurrent
<1>7. CASE Tick
  BY <1>0, <1>7 DEF Tick, Breaker!Tick, IInv, Typed, CopyCurrent
<1>8. ASSUME NEW p \in {"answers", "silent", "refuses"}, ProviderTurns(p) PROVE IInv'
  BY <1>0, <1>8 DEF ProviderTurns, breakerVars, IInv, Typed, CopyCurrent
<1>9. CASE UNCHANGED vars
  BY <1>0, <1>9 DEF vars, IInv, Typed, CopyCurrent
<1>10. ASSUME NEW w \in Workers, BucketVanishes(w) \/ BucketRestored(w) PROVE IInv'
  BY <1>0, <1>10 DEF BucketVanishes, BucketRestored, breakerVars, IInv, Typed, CopyCurrent
<1> QED
  BY <1>1, <1>2, <1>3, <1>4, <1>5, <1>6, <1>7, <1>8, <1>9, <1>10 DEF Next

\* A step that moves a recorded beginning of an outage is the end of a pass the
\* provider answered, about this Bucket.
LEMMA DatedStep ==
  ASSUME IInv, Next, NEW w \in Workers, res[w].degradedSince # Never,
         res'[w].degradedSince # res[w].degradedSince
  PROVE  /\ res'[w].degradedSince = Never
         /\ provider = "answers"
         /\ Established(w)'
<1>0. now \in Nat /\ busy \subseteq Workers /\ Typed /\ CopyCurrent
  BY DEF IInv
<1>a. res[w] \in Resource /\ copy[w] \in Resource
  BY <1>0 DEF Typed
<1>1. ASSUME NEW x \in Workers, Begin(x) PROVE FALSE
  <2>1. res' = [res EXCEPT ![x] = MarkProvisioning(res[x])]
    BY <1>1 DEF Begin
  <2> QED
    BY <1>0, <1>a, <2>1, Results DEF Typed
<1>2. ASSUME NEW x \in Workers, NEW r, Write(x, r), res'[w] # res[w]
      PROVE  x = w /\ copy[w].generation = res[w].generation /\ res'[w] = r
  BY <1>0, <1>2 DEF Typed, Write
<1>3. ASSUME NEW x \in Workers, Succeed(x)
      PROVE  /\ res'[w].degradedSince = Never
             /\ provider = "answers"
             /\ Established(w)'
  <2>1. /\ Write(x, MarkReady(copy[x])) /\ provider = "answers"
        /\ x \notin gone /\ gone' = gone
    BY <1>3 DEF Succeed, cloud
  <2>2. x = w /\ res'[w] = MarkReady(copy[w])
    BY <1>2, <2>1
  <2> QED
    BY <1>0, <1>a, <2>1, <2>2, Results DEF Established
<1>9. ASSUME NEW x \in Workers, ReportMissing(x)
      PROVE  /\ res'[w].degradedSince = Never
             /\ provider = "answers"
             /\ Established(w)'
  <2>1. /\ Write(x, MarkMissing(copy[x])) /\ provider = "answers"
        /\ x \in gone /\ gone' = gone
    BY <1>9 DEF ReportMissing, cloud
  <2>2. x = w /\ res'[w] = MarkMissing(copy[w])
    BY <1>2, <2>1
  <2> QED
    BY <1>0, <1>a, <2>1, <2>2, Results DEF Established
<1>4. ASSUME NEW x \in Workers, Fail(x) \/ FailRefused(x) \/ FailDefinitive(x) PROVE FALSE
  <2>1. x \in busy
    BY <1>4, EndStep DEF Fail, FailRefused, FailDefinitive
  <2>2. \E r \in {DegradeOrFail(copy[x]), MarkFailed(copy[x])} : Write(x, r)
    BY <1>4 DEF Fail, FailRefused, FailDefinitive
  <2>3. /\ x = w /\ copy[w].generation = res[w].generation
        /\ res'[w] \in {DegradeOrFail(copy[w]), MarkFailed(copy[w])}
    BY <1>2, <2>2
  <2>4. copy[w] = res[w]
    BY <1>0, <2>1, <2>3 DEF CopyCurrent
  <2> QED
    BY <1>0, <1>a, <2>3, <2>4, Results
<1>5. ASSUME NEW x \in Workers, Hold(x) PROVE FALSE
  <2>1. res' = [res EXCEPT ![x] = IF HoldNeedsWrite(res[x])
                                    THEN DegradeOrFail(res[x]) ELSE res[x]]
    BY <1>5 DEF Hold
  <2> QED
    BY <1>0, <1>a, <2>1, Results DEF Typed
<1>6. ASSUME NEW x \in Workers, NEW faulty \in BOOLEAN, UserEditsSpec(x, faulty) PROVE FALSE
  <2> DEFINE r == Edited(res[x], faulty)
  <2>1. res' = [res EXCEPT ![x] = r]
    BY <1>6 DEF UserEditsSpec
  <2>2. r.degradedSince = res[x].degradedSince
    BY <1>0 DEF Typed, Resource, Edited
  <2> HIDE DEF r
  <2> QED
    BY <1>0, <2>1, <2>2 DEF Typed
<1>7. ASSUME KeyReloaded \/ Restart \/ Tick PROVE FALSE
  BY <1>7 DEF KeyReloaded, Restart, Tick
<1>8. ASSUME NEW p \in {"answers", "silent", "refuses"}, ProviderTurns(p) PROVE FALSE
  BY <1>8 DEF ProviderTurns
<1>10. ASSUME NEW x \in Workers, BucketVanishes(x) \/ BucketRestored(x) PROVE FALSE
  BY <1>10 DEF BucketVanishes, BucketRestored
<1> QED
  BY <1>1, <1>3, <1>4, <1>5, <1>6, <1>7, <1>8, <1>9, <1>10 DEF Next, End

\* The fleet starts with no pass under way.
LEMMA Initially == Init => IInv
BY DEF Init, Breaker!Init, IInv, Typed, CopyCurrent, New, Resource, Never

\* One outage has one beginning on every Bucket, across failed probes, held
\* passes, spec changes, definitive failures, conflicting writes and restarts: it
\* is cleared only by a pass the provider answered about the Bucket, with Ready or
\* with the report that its bucket is gone (degrade, clearDegraded).
THEOREM OutageHasOneDate == Spec => OutageDatedOnce
<1>1. IInv /\ [Next]_vars
        => [ \A w \in Workers :
               (res[w].degradedSince # Never
                  /\ res'[w].degradedSince # res[w].degradedSince)
                 => res'[w].degradedSince = Never /\ provider = "answers" /\ Established(w)' ]_vars
  BY DatedStep
<1> QED
  BY <1>1, Initially, Inductive, PTL DEF Spec, OutageDatedOnce
----------------------------------------------------------------------------
(* The types of the whole fleet. *)

\* A breaker with typed state has typed state after any of its steps; of its
\* constants only the cap matters, which is a number.
LEMMA BreakerStep ==
  ASSUME Breaker!TypeOK, [Breaker!Next]_(Breaker!vars)
  PROVE  Breaker!TypeOK'
<1> USE DEF Breaker!TypeOK
<1>1. Breaker!MaxCooldown \in Nat
  BY HoldAssumption DEF Breaker!MaxCooldown
<1>2. \A d \in Nat : Breaker!Capped(d) \in Nat
  BY <1>1 DEF Breaker!Capped
<1>3. ASSUME Breaker!Failure
      PROVE  /\ consecutive' \in Nat /\ cooldown' \in Nat
             /\ openUntil' \in Nat /\ openedAt' \in Nat
  <2>1. cooldown * 2 \in Nat /\ BaseCooldown \in Nat
    BY HoldAssumption
  <2>2. Breaker!Capped(cooldown * 2) \in Nat /\ Breaker!Capped(BaseCooldown) \in Nat
    BY <1>2, <2>1
  <2> QED
    BY <1>3, <2>2
    DEF Breaker!Failure, Breaker!CountFailure, Breaker!Trip, Breaker!FailureWhileShut,
        Breaker!FailedProbe, Breaker!breakerVars
<1>4. ASSUME Breaker!Success
      PROVE  /\ consecutive' \in Nat /\ cooldown' \in Nat
             /\ openUntil' \in Nat /\ openedAt' \in Nat
  BY <1>4 DEF Breaker!Success, Breaker!breakerVars, Breaker!Zero
<1> QED
  BY <1>3, <1>4
  DEF Breaker!Next, Breaker!vars, Breaker!Admit, Breaker!PassFails, Breaker!PassSucceeds,
      Breaker!PassEndsUnreported, Breaker!KeyReloaded, Breaker!Restart, Breaker!Tick,
      Breaker!breakerVars, Breaker!Zero

\* The provider stays in one of its three conditions, only Buckets lose a bucket,
\* and no bound is overdrawn.
LEMMA BoundsStep ==
  ASSUME TypeOK, [Next]_vars
  PROVE  /\ provider' \in {"answers", "silent", "refuses"}
         /\ gone' \subseteq Workers
         /\ turns' \in Nat /\ events' \in Nat
<1> USE DEF TypeOK, cloud, bounds, Happens
<1>1. ASSUME NEW w \in Workers, Begin(w) \/ End(w) \/ Hold(w)
      PROVE  UNCHANGED <<provider, gone, turns, events>>
  BY <1>1 DEF Begin, End, Succeed, Fail, FailRefused, ReportMissing, FailDefinitive, Hold
<1>2. ASSUME NEW w \in Workers, NEW faulty \in BOOLEAN, UserEditsSpec(w, faulty)
      PROVE  turns' \in Nat /\ events' \in Nat /\ UNCHANGED <<provider, gone>>
  BY <1>2 DEF UserEditsSpec
<1>3. ASSUME KeyReloaded \/ Tick \/ UNCHANGED vars
      PROVE  UNCHANGED <<provider, gone, turns, events>>
  BY <1>3 DEF KeyReloaded, Tick, vars
<1>4. ASSUME Restart PROVE events' \in Nat /\ UNCHANGED <<provider, gone, turns>>
  BY <1>4 DEF Restart
<1>5. ASSUME NEW p \in {"answers", "silent", "refuses"}, ProviderTurns(p)
      PROVE  turns' \in Nat /\ provider' = p /\ UNCHANGED <<gone, events>>
  BY <1>5 DEF ProviderTurns
<1>6. ASSUME NEW w \in Workers, BucketVanishes(w) \/ BucketRestored(w)
      PROVE  /\ gone' \subseteq Workers /\ provider' = provider
             /\ turns' \in Nat /\ events' \in Nat
  BY <1>6 DEF BucketVanishes, BucketRestored
<1> QED
  BY <1>1, <1>2, <1>3, <1>4, <1>5, <1>6 DEF Next

\* The fleet's state keeps its types: every status a pass, a hold or a restart
\* leaves is one the CRD knows (markFailed, degrade), and the breaker's state is
\* that of ProviderBreaker.
THEOREM FleetTyped == Spec => []TypeOK
<1>1. Init => TypeOK
  BY HoldAssumption
  DEF Init, Breaker!Init, TypeOK, Breaker!TypeOK, Breaker!Zero, New, Resource, Never
<1>2. TypeOK /\ IInv /\ [Next]_vars /\ IInv' => TypeOK'
  <2> SUFFICES ASSUME TypeOK, IInv', [Next]_vars PROVE TypeOK'
    OBVIOUS
  <2>1. Breaker!TypeOK'
    BY FleetStep, BreakerStep DEF TypeOK
  <2>2. Typed'
    BY DEF IInv
  <2> QED
    BY <2>1, <2>2, BoundsStep DEF TypeOK, Typed
<1> QED
  BY <1>1, <1>2, Initially, Inductive, PTL DEF Spec

=============================================================================
