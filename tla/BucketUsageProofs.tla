-------------------------- MODULE BucketUsageProofs --------------------------
(***************************************************************************)
(* The two writers of one status do not undo each other, for a bucket and  *)
(* a cap of any size and any number of edits, failures and restarts.       *)
(*                                                                         *)
(* The property is about one write, and needs to know what the copy that   *)
(* write is made from has in common with the object it replaces: Tracked   *)
(* says that a provisioning pass whose version is current holds the        *)
(* measurement as it stands.                                               *)
(***************************************************************************)
EXTENDS BucketUsage, TLAPS

Shown(o) == <<o.usage.present, o.usage.size, o.usage.message>>

\* An update that will not conflict carries the measurement that is there.
Tracked == (prov.busy /\ ~prov.stale) => Shown(prov.obj) = Shown(cr)

IInv == TypeOK /\ Tracked

Passes == [pc : {"idle", "list", "write", "message", "park", "clear"},
           obj : Resource, usage : Usage]
Provs == [busy : BOOLEAN, stale : BOOLEAN, obj : Resource]

LEMMA UsageTyped == NoUsage \in Usage /\ Parked \in Usage /\ ~NoUsage.present
<1>1. 0 \in Sizes
  BY UsageAssumption DEF Sizes
<1>2. NoUsage \in Usage /\ ~NoUsage.present
  BY <1>1 DEF NoUsage, Usage, Messages
<1> QED
  BY <1>2 DEF Parked, Usage, Messages

LEMMA NewTyped == New \in Resource /\ NoPass \in Passes /\ NoProv \in Provs
                    /\ NoPass.pc = "idle" /\ ~NoProv.busy
<1>1. New \in Resource
  BY UsageTyped DEF New, Resource, Wants
<1> QED
  BY <1>1, UsageTyped DEF NoPass, NoProv, Passes, Provs

\* A measurement within the cap.
LEMMA StatsTyped == ASSUME TypeOK PROVE BucketStats \in Usage
<1> DEFINE capped == MaxObjects > 0 /\ size >= MaxObjects
           n == IF capped THEN MaxObjects ELSE size
           msg == CASE capped -> "capped"
                    [] ~capped /\ pass.obj.want = "fast" -> "clamped"
                    [] OTHER -> ""
<1>1. n \in Sizes
  BY UsageAssumption DEF TypeOK, Sizes
<1>2. msg \in Messages
  BY DEF Messages
<1>3. BucketStats = [present |-> TRUE, age |-> "fresh", size |-> n, message |-> msg]
  BY DEF BucketStats
<1> HIDE DEF n, msg
<1> QED
  BY <1>1, <1>2, <1>3 DEF Usage

\* A patch leaves a status the informer can carry.
LEMMA MergeTyped ==
  ASSUME NEW now \in Usage, NEW base \in Usage, NEW new \in Usage
  PROVE  Merge(now, base, new) \in Usage
<1> DEFINE n == IF new.size = base.size THEN now.size ELSE new.size
           a == IF new.age = base.age /\ new.age # "fresh" THEN now.age ELSE new.age
           msg == IF new.message = base.message THEN now.message ELSE new.message
           merged == [present |-> TRUE, size |-> n, age |-> a, message |-> msg]
<1>1. n \in Sizes /\ a \in {"never", "fresh", "old"} /\ msg \in Messages
  BY DEF Usage
<1>2. merged \in Usage
  <2> HIDE DEF n, a, msg
  <2> QED
    BY <1>1 DEF Usage
<1>3. base.present \in BOOLEAN
  BY DEF Usage
<1>4. Merge(now, base, new) = NoUsage \/ Merge(now, base, new) = now
        \/ Merge(now, base, new) = merged
  <2>1. CASE new = NoUsage
    BY <1>3, <2>1 DEF Merge
  <2>2. CASE new # NoUsage
    BY <2>2 DEF Merge
  <2> QED
    BY <2>1, <2>2
<1> HIDE DEF merged
<1> QED
  BY <1>2, <1>4, UsageTyped

\* The passing of time changes nothing that is shown.
LEMMA AgedShown ==
  ASSUME NEW o \in Resource
  PROVE  Aged(o) \in Resource /\ Shown(Aged(o)) = Shown(o) /\ Aged(o).ready = o.ready
<1>1. CASE o.usage.age = "fresh"
  <2> DEFINE u == [o.usage EXCEPT !.age = "old"]
  <2>1. Aged(o) = [o EXCEPT !.usage = u]
    BY <1>1 DEF Aged
  <2>2. u \in Usage /\ u.present = o.usage.present /\ u.size = o.usage.size
          /\ u.message = o.usage.message
    BY DEF Resource, Usage
  <2> HIDE DEF u
  <2> QED
    BY <2>1, <2>2 DEF Resource, Shown
<1>2. CASE o.usage.age # "fresh"
  BY <1>2 DEF Aged
<1> QED
  BY <1>1, <1>2

LEMMA EndTyped ==
  ASSUME TypeOK, NEW requeue, End(requeue)
  PROVE  pass' \in Passes /\ pass'.pc = "idle" /\ timer' \in {"none", "set", "ripe"}
BY NewTyped DEF End, TypeOK

\* Whoever writes the Bucket makes the provisioning pass under way conflict.
LEMMA ConflictsTyped ==
  ASSUME TypeOK, Conflicts PROVE prov' \in Provs /\ Tracked'
<1>1. prov \in Provs /\ prov.busy \in BOOLEAN
  BY DEF TypeOK, Provs
<1>2. prov' \in Provs /\ prov'.busy = prov.busy /\ prov'.stale = prov.busy
  BY <1>1 DEF Conflicts, Provs
<1> QED
  BY <1>2 DEF Tracked

\* A patch of the usage leaves the rest of the Bucket alone.
LEMMA PatchTyped ==
  ASSUME IInv, NEW new \in Usage, Patch(new)
  PROVE  cr' \in Resource /\ cr'.ready = cr.ready /\ prov' \in Provs /\ Tracked'
<1>1. prov' \in Provs /\ Tracked'
  BY ConflictsTyped DEF IInv, Patch
<1>2. cr \in Resource /\ cr.usage \in Usage /\ pass.obj.usage \in Usage
  BY DEF IInv, TypeOK, Resource
<1> DEFINE u == Merge(cr.usage, pass.obj.usage, new)
<1>3. u \in Usage
  BY <1>2, MergeTyped
<1>4. cr' = cr \/ cr' = [cr EXCEPT !.usage = u]
  BY DEF Patch
<1> HIDE DEF u
<1> QED
  BY <1>1, <1>2, <1>3, <1>4 DEF Resource

----------------------------------------------------------------------------

LEMMA InitHolds == Init => IInv
<1> SUFFICES ASSUME Init PROVE IInv
  OBVIOUS
<1>1. PICK want \in Wants : cr = [New EXCEPT !.want = want]
  BY DEF Init
<1>2. cr \in Resource
  BY <1>1, NewTyped DEF Resource
<1>3. TypeOK
  BY <1>2, NewTyped DEF Init, TypeOK, Passes, Provs
<1>4. Tracked
  BY NewTyped DEF Init, Tracked
<1> QED
  BY <1>3, <1>4 DEF IInv

LEMMA StartPassStep == ASSUME IInv, StartPass PROVE IInv'
<1> DEFINE next == IF cache.state = "live" THEN Precheck(cache) ELSE "stop"
<1>1. UNCHANGED <<cr, cache, size, gate, prov>> /\ wake' = FALSE
  BY DEF StartPass
<1>2. pass' \in Passes /\ timer' \in {"none", "set", "ripe"}
  <2>1. next \in {"stop", "later", "list", "park", "clear"}
    BY DEF Precheck
  <2>2. \/ \E requeue \in BOOLEAN : End(requeue)
        \/ /\ next \notin {"stop", "later"}
           /\ pass' = [NoPass EXCEPT !.pc = next, !.obj = cache]
           /\ UNCHANGED timer
    BY DEF StartPass
  <2> HIDE DEF next
  <2>3. CASE \E requeue \in BOOLEAN : End(requeue)
    BY <2>3, EndTyped DEF IInv
  <2>4. CASE /\ next \notin {"stop", "later"}
             /\ pass' = [NoPass EXCEPT !.pc = next, !.obj = cache]
             /\ UNCHANGED timer
    BY <2>1, <2>4, NewTyped DEF IInv, TypeOK, Passes
  <2> QED
    BY <2>2, <2>3, <2>4
<1>3. TypeOK'
  BY <1>1, <1>2 DEF IInv, TypeOK, Passes
<1>4. Tracked'
  BY <1>1 DEF IInv, Tracked
<1> QED
  BY <1>3, <1>4 DEF IInv

LEMMA MeasureStep == ASSUME IInv, Measure PROVE IInv'
<1> DEFINE old == [pass.obj.usage EXCEPT !.present = TRUE, !.message = "failed"]
<1>1. UNCHANGED <<cr, cache, size, gate, wake, prov>>
  BY DEF Measure
<1>2. old \in Usage
  BY DEF IInv, TypeOK, Resource, Usage, Messages
<1>3. BucketStats \in Usage
  BY StatsTyped DEF IInv
<1>4. pass' \in Passes /\ timer' \in {"none", "set", "ripe"}
  <2>0. pass \in Passes /\ timer \in {"none", "set", "ripe"}
    BY DEF IInv, TypeOK, Passes
  <2>1. \/ pass' = [pass EXCEPT !.pc = "write", !.usage = BucketStats] /\ UNCHANGED timer
        \/ End(TRUE)
        \/ pass' = [pass EXCEPT !.pc = "message", !.usage = old] /\ UNCHANGED timer
    BY DEF Measure
  <2> HIDE DEF old
  <2>2. CASE pass' = [pass EXCEPT !.pc = "write", !.usage = BucketStats] /\ UNCHANGED timer
    BY <1>3, <2>0, <2>2 DEF Passes
  <2>3. CASE End(TRUE)
    BY <2>3, EndTyped DEF IInv
  <2>4. CASE pass' = [pass EXCEPT !.pc = "message", !.usage = old] /\ UNCHANGED timer
    BY <1>2, <2>0, <2>4 DEF Passes
  <2> QED
    BY <2>1, <2>2, <2>3, <2>4
<1>5. TypeOK'
  BY <1>1, <1>4 DEF IInv, TypeOK, Passes
<1>6. Tracked'
  BY <1>1 DEF IInv, Tracked
<1> QED
  BY <1>5, <1>6 DEF IInv

\* The three writes of a measuring pass: it ends, and what it writes is the usage.
LEMMA WriteKept ==
  ASSUME IInv, WriteUsage \/ WriteMessage \/ WriteParked
  PROVE  /\ UNCHANGED <<cache, size, gate, wake>> /\ pass.pc # "idle"
         /\ pass' \in Passes /\ pass'.pc = "idle" /\ timer' \in {"none", "set", "ripe"}
         /\ cr' \in Resource /\ cr'.ready = cr.ready /\ prov' \in Provs /\ Tracked'
<1>1. UNCHANGED <<cache, size, gate, wake>> /\ pass.pc # "idle"
  BY DEF WriteUsage, WriteMessage, WriteParked, At
<1>2. \E requeue \in BOOLEAN : End(requeue)
  BY DEF WriteUsage, WriteMessage, WriteParked
<1>3. pass' \in Passes /\ pass'.pc = "idle" /\ timer' \in {"none", "set", "ripe"}
  BY <1>2, EndTyped DEF IInv
<1>4. (\E new \in Usage : Patch(new)) \/ UNCHANGED <<cr, prov>>
  <2>1. pass.usage \in Usage /\ (IF At("park") THEN Parked ELSE NoUsage) \in Usage
    BY UsageTyped DEF IInv, TypeOK
  <2> QED
    BY <2>1 DEF WriteUsage, WriteMessage, WriteParked
<1>5. CASE \E new \in Usage : Patch(new)
  BY <1>1, <1>3, <1>5, PatchTyped
<1>6. CASE UNCHANGED <<cr, prov>>
  BY <1>1, <1>3, <1>6 DEF IInv, TypeOK, Tracked, Provs
<1> QED
  BY <1>4, <1>5, <1>6

LEMMA WriteStep == ASSUME IInv, WriteUsage \/ WriteMessage \/ WriteParked PROVE IInv'
BY WriteKept DEF IInv, TypeOK, Passes, Provs

LEMMA ProvisionStartStep == ASSUME IInv, ProvisionStart PROVE IInv'
<1> DEFINE old == cache # cr
<1>1. UNCHANGED <<cr, cache, size, gate, wake, timer, pass>>
      /\ prov' = [busy |-> TRUE, stale |-> old, obj |-> cache]
  BY DEF ProvisionStart
<1>2. old \in BOOLEAN /\ (~old => cache = cr)
  OBVIOUS
<1> HIDE DEF old
<1>3. TypeOK'
  BY <1>1, <1>2 DEF IInv, TypeOK
<1>4. Tracked'
  BY <1>1, <1>2 DEF Tracked
<1> QED
  BY <1>3, <1>4 DEF IInv

\* An update that is accepted shows the measurement that was there.
LEMMA ProvisionWriteShown ==
  ASSUME IInv, ProvisionWrite PROVE cr' \in Resource /\ Shown(cr') = Shown(cr)
<1>1. cr \in Resource /\ prov.obj \in Resource /\ prov.obj.usage \in Usage
  BY DEF IInv, TypeOK, Resource
<1>2. CASE UNCHANGED cr
  BY <1>1, <1>2
<1>3. CASE ~prov.stale /\ cr' # cr
  <2>1. PICK ready \in BOOLEAN : cr' = [cr EXCEPT !.ready = ready, !.usage = prov.obj.usage]
    BY <1>3 DEF ProvisionWrite
  <2>2. Shown(prov.obj) = Shown(cr)
    BY <1>3 DEF ProvisionWrite, IInv, Tracked
  <2>3. cr' \in Resource /\ cr'.usage = prov.obj.usage
    BY <1>1, <2>1 DEF Resource
  <2> QED
    BY <2>2, <2>3 DEF Shown
<1> QED
  BY <1>2, <1>3 DEF ProvisionWrite

LEMMA ProvisionWriteStep == ASSUME IInv, ProvisionWrite PROVE IInv'
<1>1. UNCHANGED <<cache, size, gate, wake, timer, pass>> /\ prov' = NoProv
  BY DEF ProvisionWrite
<1>2. cr' \in Resource
  BY ProvisionWriteShown
<1>3. TypeOK'
  BY <1>1, <1>2, NewTyped DEF IInv, TypeOK, Provs
<1>4. Tracked'
  BY <1>1, NewTyped DEF Tracked
<1> QED
  BY <1>3, <1>4 DEF IInv

LEMMA CacheSyncStep == ASSUME IInv, CacheSync PROVE IInv'
<1>1. UNCHANGED <<cr, size, gate, timer, pass, prov>> /\ cache' = cr /\ wake' \in BOOLEAN
  BY DEF IInv, TypeOK, CacheSync
<1> QED
  BY <1>1 DEF IInv, TypeOK, Tracked

LEMMA TimerStep == ASSUME IInv, TimerRipens \/ TimerFires PROVE IInv'
<1>1. UNCHANGED <<cr, cache, size, gate, pass, prov>>
      /\ wake' \in BOOLEAN /\ timer' \in {"none", "set", "ripe"}
  BY DEF IInv, TypeOK, TimerRipens, TimerFires
<1> QED
  BY <1>1 DEF IInv, TypeOK, Tracked

LEMMA AgesStep ==
  ASSUME IInv, Ages PROVE IInv' /\ Shown(cr') = Shown(cr)
<1>1. UNCHANGED <<size, gate, wake, timer>> /\ cr' = Aged(cr) /\ cache' = Aged(cache)
      /\ pass' = [pass EXCEPT !.obj = Aged(pass.obj)]
      /\ prov' = [prov EXCEPT !.obj = Aged(prov.obj)]
  BY DEF Ages
<1>2. cr \in Resource /\ cache \in Resource /\ pass \in Passes /\ prov \in Provs
      /\ pass.obj \in Resource /\ prov.obj \in Resource
  BY DEF IInv, TypeOK, Passes, Provs
<1>3. cr' \in Resource /\ cache' \in Resource /\ Shown(cr') = Shown(cr)
  BY <1>1, <1>2, AgedShown
<1>4. Aged(pass.obj) \in Resource /\ Aged(prov.obj) \in Resource
      /\ Shown(Aged(prov.obj)) = Shown(prov.obj)
  BY <1>2, AgedShown
<1>5. pass' \in Passes
  BY <1>1, <1>2, <1>4 DEF Passes
<1>6. prov' \in Provs /\ prov'.busy = prov.busy /\ prov'.stale = prov.stale
      /\ prov'.obj = Aged(prov.obj)
  BY <1>1, <1>2, <1>4 DEF Provs
<1>7. TypeOK'
  BY <1>1, <1>3, <1>5, <1>6 DEF IInv, TypeOK, Passes, Provs
<1>8. Tracked'
  BY <1>3, <1>4, <1>6 DEF IInv, Tracked
<1> QED
  BY <1>3, <1>7, <1>8 DEF IInv

LEMMA RestartStep == ASSUME IInv, Restart PROVE IInv'
BY NewTyped DEF IInv, TypeOK, Tracked, Restart, Passes, Provs

\* Users and the end of a teardown leave the measurement alone.
LEMMA EditShown ==
  ASSUME IInv, UserEdits \/ Finalized
  PROVE  /\ cr' \in Resource /\ Shown(cr') = Shown(cr)
         /\ UNCHANGED <<cache, size, gate, wake, timer, pass>> /\ Conflicts
<1>1. UNCHANGED <<cache, size, gate, wake, timer, pass>> /\ Conflicts
  BY DEF UserEdits, Finalized
<1>2. cr \in Resource
  BY DEF IInv, TypeOK
<1>3. \/ \E want \in Wants : cr' = [cr EXCEPT !.want = want]
      \/ \E note \in BOOLEAN : cr' = [cr EXCEPT !.note = note]
      \/ \E state \in {"deleting", "gone"} : cr' = [cr EXCEPT !.state = state]
  BY <1>2 DEF UserEdits, Finalized, Resource
<1>4. cr' \in Resource /\ cr'.usage = cr.usage
  BY <1>2, <1>3 DEF Resource
<1> QED
  BY <1>1, <1>4 DEF Shown

LEMMA EditStep == ASSUME IInv, UserEdits \/ Finalized PROVE IInv'
<1>1. /\ cr' \in Resource /\ UNCHANGED <<cache, size, gate, wake, timer, pass>>
      /\ prov' \in Provs /\ Tracked'
  BY EditShown, ConflictsTyped DEF IInv
<1> QED
  BY <1>1 DEF IInv, TypeOK, Provs

LEMMA NextStep == IInv /\ [Next]_vars => IInv'
<1> SUFFICES ASSUME IInv, [Next]_vars PROVE IInv'
  OBVIOUS
<1>1. CASE Worker
  BY <1>1, StartPassStep, MeasureStep, WriteStep DEF Worker
<1>2. CASE ProvisionStart \/ ProvisionWrite
  BY <1>2, ProvisionStartStep, ProvisionWriteStep
<1>3. CASE CacheSync \/ TimerRipens \/ TimerFires
  BY <1>3, CacheSyncStep, TimerStep
<1>4. CASE Ages \/ Restart
  BY <1>4, AgesStep, RestartStep
<1>5. CASE UserEdits \/ Finalized
  BY <1>5, EditStep
<1>6. CASE WorkloadWrites
  BY <1>6 DEF WorkloadWrites, IInv, TypeOK, Tracked
<1>7. CASE UNCHANGED vars
  BY <1>7 DEF vars, IInv, TypeOK, Tracked
<1> QED
  BY <1>1, <1>2, <1>3, <1>4, <1>5, <1>6, <1>7 DEF Next

THEOREM UsageInvariance == Spec => []IInv
BY InitHolds, NextStep, PTL DEF Spec

\* The status keeps its type (TypeOK): no patch, merged from however old a copy,
\* shows a size beyond the cap of one measurement (BucketStats, patchUsage).
THEOREM UsageTypeCorrect == Spec => []TypeOK
<1>1. IInv => TypeOK
  BY DEF IInv
<1> QED
  BY <1>1, UsageInvariance, PTL

\* The two writers of the status do not undo each other (WritersApart): a status
\* update of the provisioning controller never moves a measurement, and a patch
\* of the usage never touches what the provisioning controller wrote.
THEOREM UsageWritersApart == Spec => WritersApart
<1> DEFINE Body ==
      LET shown(o) == <<o.usage.present, o.usage.size, o.usage.message>>
      IN  shown(cr') # shown(cr) => pass' # pass /\ cr'.ready = cr.ready
<1>1. IInv /\ [Next]_vars => [Body]_vars
  <2> SUFFICES ASSUME IInv, [Next]_vars, Shown(cr') # Shown(cr)
               PROVE  pass' # pass /\ cr'.ready = cr.ready
    BY DEF Shown
  <2>1. CASE WriteUsage \/ WriteMessage \/ WriteParked
    BY <2>1, WriteKept
  <2>2. CASE ProvisionWrite
    BY <2>2, ProvisionWriteShown
  <2>3. CASE Ages
    BY <2>3, AgesStep
  <2>4. CASE UserEdits \/ Finalized
    BY <2>4, EditShown
  <2>5. CASE UNCHANGED cr
    BY <2>5 DEF Shown
  <2>6. ASSUME StartPass \/ Measure \/ ProvisionStart \/ CacheSync PROVE UNCHANGED cr
    BY <2>6 DEF StartPass, Measure, ProvisionStart, CacheSync
  <2>7. ASSUME TimerRipens \/ TimerFires \/ Restart \/ WorkloadWrites PROVE UNCHANGED cr
    BY <2>7 DEF TimerRipens, TimerFires, Restart, WorkloadWrites
  <2> QED
    BY <2>1, <2>2, <2>3, <2>4, <2>5, <2>6, <2>7 DEF Next, Worker, vars
<1> QED
  BY <1>1, UsageInvariance, PTL DEF Spec, WritersApart
=============================================================================
