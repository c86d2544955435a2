----------------------------- MODULE BucketUsage -----------------------------
(***************************************************************************)
(* The measurement controller (internal/controller/                        *)
(* bucket_usage_controller.go, usage_config.go, BucketStats in             *)
(* stackit/s3.go) for one Bucket, beside the provisioning controller,      *)
(* which writes the same status. Measuring reads a Bucket from the         *)
(* informer, lists the bucket, and patches status.usage; only the fields   *)
(* that differ from the copy it read are in the patch, and it carries no   *)
(* version. The provisioning controller updates the whole status under the *)
(* version it read. Status writes wake nobody: the next pass comes from    *)
(* the delay the last one returned, or from a change of spec or            *)
(* annotations.                                                            *)
(*                                                                         *)
(* The size of a bucket is its number of listing entries; the cost that    *)
(* follows from it and the version counts are left out. Of time only       *)
(* matters whether a measurement is due again.                             *)
(***************************************************************************)
EXTENDS Naturals

CONSTANTS
  MaxSize,         \* bound: entries of the bucket
  MaxObjects,      \* the cap of one measurement; 0: none
  DefaultEnabled,  \* the answer for Buckets that say nothing
  Plans            \* the situations this instance goes through, by name

\* Bounds of a situation: edits by users, writes of the workload, failures of calls
\* and crashes, writes of the provisioning controller that change its status.
Plan == [edits : Nat, writes : Nat, failures : Nat, provisions : Nat]

ASSUME UsageAssumption ==
  /\ MaxSize \in Nat /\ MaxObjects \in Nat
  /\ DefaultEnabled \in BOOLEAN
  /\ \A name \in DOMAIN Plans : Plans[name] \in Plan

\* spec.usage: silent, on, off, on with an interval below the floor, malformed.
Wants == {"silent", "on", "off", "fast", "bad"}
Messages == {"", "capped", "clamped", "failed", "parked"}

\* A measurement shows no more than the cap.
Sizes == {n \in 0..MaxSize : MaxObjects = 0 \/ n <= MaxObjects}

\* status.usage; NoUsage where the pointer is nil.
Usage == [present : BOOLEAN, size : Sizes, age : {"never", "fresh", "old"}, message : Messages]
NoUsage == [present |-> FALSE, size |-> 0, age |-> "never", message |-> ""]
Parked == [NoUsage EXCEPT !.present = TRUE, !.message = "parked"]

Resource == [state : {"live", "deleting", "gone"}, want : Wants, note : BOOLEAN,
             ready : BOOLEAN, usage : Usage]

VARIABLES
  cr, cache,   \* the Bucket at the API server, and the informer's copy
  size,        \* the entries of the bucket
  gate,        \* the operator-wide switch; it changes with a new deployment
  wake, timer, \* a pass is queued; a delayed one is scheduled, or ripe
  pass,        \* the measuring pass under way, and the copy it works on
  prov,        \* the provisioning pass under way
  budget       \* the plan of this behaviour and what is left of its bounds

vars == <<cr, cache, size, gate, wake, timer, pass, prov, budget>>

New == [state |-> "live", want |-> "silent", note |-> FALSE, ready |-> FALSE, usage |-> NoUsage]
NoPass == [pc |-> "idle", obj |-> New, usage |-> NoUsage]
NoProv == [busy |-> FALSE, stale |-> FALSE, obj |-> New]

Init ==
  /\ \E want \in Wants : cr = [New EXCEPT !.want = want]
  /\ cache = cr
  /\ size \in 0..MaxSize
  /\ gate \in BOOLEAN
  /\ wake = TRUE /\ timer = "none"
  /\ pass = NoPass /\ prov = NoProv
  /\ \E plan \in DOMAIN Plans :
       budget = [edit |-> Plans[plan].edits, write |-> Plans[plan].writes,
                 fail |-> Plans[plan].failures, prov |-> Plans[plan].provisions]

----------------------------------------------------------------------------

Fault == budget.fail > 0 /\ budget' = [budget EXCEPT !.fail = @ - 1]
Edit == budget.edit > 0 /\ budget' = [budget EXCEPT !.edit = @ - 1]

\* effectiveFor
Enabled(b) == gate /\ (b.want \in {"on", "fast"} \/ (b.want = "silent" /\ DefaultEnabled))
Requested(b) == b.want \in {"on", "fast"}

At(step) == pass.pc = step

\* A delayed pass does not move one that is scheduled already.
End(requeue) ==
  /\ pass' = NoPass
  /\ timer' = IF requeue /\ timer = "none" THEN "set" ELSE timer

\* Where precheck sends a pass that does not measure: it records why, or removes
\* what an earlier measurement left, or has nothing to do.
Precheck(b) ==
  CASE b.want = "bad"                        -> IF b.usage = Parked THEN "stop" ELSE "park"
    [] b.want # "bad" /\ Enabled(b)          -> IF b.ready /\ b.usage.age # "fresh"
                                                  THEN "list" ELSE "later"
    [] ~gate /\ Requested(b)                 -> IF b.usage = Parked THEN "stop" ELSE "park"
    [] OTHER                                 -> IF b.usage.present THEN "clear" ELSE "stop"

\* Reconcile up to the decision. Admin credentials that cannot be read yet delay
\* the pass like a Bucket that is not provisioned.
StartPass ==
  /\ At("idle") /\ wake
  /\ wake' = FALSE
  /\ LET next == IF cache.state = "live" THEN Precheck(cache) ELSE "stop"
     IN  \/ /\ next \in {"stop", "later"}
            /\ End(next = "later")
            /\ UNCHANGED budget
         \/ next = "list" /\ Fault /\ End(TRUE)
         \/ /\ next \notin {"stop", "later"}
            /\ pass' = [NoPass EXCEPT !.pc = next, !.obj = cache]
            /\ UNCHANGED <<timer, budget>>
  /\ UNCHANGED <<cr, cache, size, gate, prov>>

\* Mutant of BucketStats: the cap is looked at before the entry is counted.
BucketStatsOneMore ==
  [present |-> TRUE, age |-> "fresh", message |-> "",
   size |-> IF size >= MaxObjects THEN MaxObjects + 1 ELSE size]

\* BucketStats stops at the cap, which makes the number a lower bound.
BucketStats ==
  LET capped == MaxObjects > 0 /\ size >= MaxObjects
  IN  [present |-> TRUE, age |-> "fresh",
       size |-> IF capped THEN MaxObjects ELSE size,
       message |-> CASE capped                    -> "capped"
                     [] ~capped /\ pass.obj.want = "fast" -> "clamped"
                     [] OTHER                     -> ""]

\* measure; a failure, or a pass that takes longer than the interval, leaves the
\* earlier values and records a message.
Measure ==
  /\ At("list")
  /\ \/ /\ pass' = [pass EXCEPT !.pc = "write", !.usage = BucketStats]
        /\ UNCHANGED <<timer, budget>>
     \/ /\ Fault
        /\ IF pass.obj.usage.message = "failed"
             THEN End(TRUE)
             ELSE /\ pass' = [pass EXCEPT !.pc = "message",
                        !.usage = [pass.obj.usage EXCEPT !.present = TRUE, !.message = "failed"]]
                  /\ UNCHANGED timer
  /\ UNCHANGED <<cr, cache, size, gate, wake, prov>>

\* A JSON merge patch: the fields in which new differs from base. A measurement
\* always has a time of its own.
Merge(now, base, new) ==
  CASE new = NoUsage /\ base.present  -> NoUsage
    [] new = NoUsage /\ ~base.present -> now
    [] OTHER -> [present |-> TRUE,
                 size    |-> IF new.size = base.size THEN now.size ELSE new.size,
                 age     |-> IF new.age = base.age /\ new.age # "fresh" THEN now.age ELSE new.age,
                 message |-> IF new.message = base.message THEN now.message ELSE new.message]

\* Somebody wrote the Bucket; an update under an earlier version is refused.
Conflicts == prov' = [prov EXCEPT !.stale = prov.busy]

\* The patch of status.usage; a Bucket that is gone is no error.
Patch(new) ==
  /\ cr' = IF cr.state = "gone" THEN cr
           ELSE [cr EXCEPT !.usage = Merge(@, pass.obj.usage, new)]
  /\ Conflicts

\* Mutant of WriteUsage: the delay until the next measurement is forgotten.
WriteUsageOnce ==
  /\ At("write")
  /\ \/ Patch(pass.usage) /\ End(FALSE) /\ UNCHANGED budget
     \/ Fault /\ End(TRUE) /\ UNCHANGED <<cr, prov>>
  /\ UNCHANGED <<cache, size, gate, wake>>

\* patchUsage; the pass comes back after an interval, or soon if the patch failed.
WriteUsage ==
  /\ At("write")
  /\ \/ Patch(pass.usage) /\ UNCHANGED budget
     \/ Fault /\ UNCHANGED <<cr, prov>>
  /\ End(TRUE)
  /\ UNCHANGED <<cache, size, gate, wake>>

\* recordFailure; the outcome of the patch is only logged.
WriteMessage ==
  /\ At("message")
  /\ \/ Patch(pass.usage) /\ UNCHANGED budget
     \/ Fault /\ UNCHANGED <<cr, prov>>
  /\ End(TRUE)
  /\ UNCHANGED <<cache, size, gate, wake>>

\* patchUsageParked and clearUsage; nothing brings the pass back.
WriteParked ==
  /\ pass.pc \in {"park", "clear"}
  /\ \/ Patch(IF At("park") THEN Parked ELSE NoUsage) /\ UNCHANGED budget
     \/ Fault /\ UNCHANGED <<cr, prov>>
  /\ End(FALSE)
  /\ UNCHANGED <<cache, size, gate, wake>>

----------------------------------------------------------------------------

\* A provisioning pass reads the Bucket, and updates its status later.
ProvisionStart ==
  /\ budget.prov > 0
  /\ ~prov.busy
  /\ cache.state = "live"
  /\ prov' = [busy |-> TRUE, stale |-> cache # cr, obj |-> cache]
  /\ budget' = [budget EXCEPT !.prov = @ - 1]
  /\ UNCHANGED <<cr, cache, size, gate, wake, timer, pass>>

\* Mutant of ProvisionWrite: the status is written without the version.
ProvisionWriteUnversioned ==
  /\ prov.busy
  /\ \E ready \in BOOLEAN :
       cr' = IF cr.state = "gone" THEN cr ELSE [cr EXCEPT !.ready = ready, !.usage = prov.obj.usage]
  /\ prov' = NoProv
  /\ UNCHANGED <<cache, size, gate, wake, timer, pass, budget>>

ProvisionWrite ==
  /\ prov.busy
  /\ \/ /\ ~prov.stale /\ cr.state # "gone"
        /\ \E ready \in BOOLEAN : cr' = [cr EXCEPT !.ready = ready, !.usage = prov.obj.usage]
     \/ (prov.stale \/ cr.state = "gone") /\ UNCHANGED cr
  /\ prov' = NoProv
  /\ UNCHANGED <<cache, size, gate, wake, timer, pass, budget>>

\* The informer delivers; a change of generation or annotations queues a pass.
CacheSync ==
  /\ cache # cr
  /\ cache' = cr
  /\ LET watched(o) == <<o.state, o.want, o.note>>
     IN  wake' = (wake \/ watched(cache) # watched(cr))
  /\ UNCHANGED <<cr, size, gate, timer, pass, prov, budget>>

\* A delay, a minute at least, outlasts the lag of the informer.
TimerRipens ==
  /\ timer = "set" /\ cache = cr
  /\ timer' = "ripe"
  /\ UNCHANGED <<cr, cache, size, gate, wake, pass, prov, budget>>

TimerFires ==
  /\ timer = "ripe"
  /\ timer' = "none" /\ wake' = TRUE
  /\ UNCHANGED <<cr, cache, size, gate, pass, prov, budget>>

Aged(o) == IF o.usage.age = "fresh" THEN [o EXCEPT !.usage.age = "old"] ELSE o

\* The interval passes: every measurement so far is due again.
Ages ==
  /\ cr.usage.age = "fresh"
  /\ cr' = Aged(cr) /\ cache' = Aged(cache)
  /\ pass' = [pass EXCEPT !.obj = Aged(@)]
  /\ prov' = [prov EXCEPT !.obj = Aged(@)]
  /\ UNCHANGED <<size, gate, wake, timer, budget>>

\* A new process reconciles every Bucket; a new deployment may move the gate.
Restart ==
  /\ Fault
  /\ gate' \in BOOLEAN
  /\ cache' = cr
  /\ wake' = TRUE /\ timer' = "none"
  /\ pass' = NoPass /\ prov' = NoProv
  /\ UNCHANGED <<cr, size>>

UserEdits ==
  /\ Edit
  /\ cr.state = "live"
  /\ \/ \E want \in Wants \ {cr.want} : cr' = [cr EXCEPT !.want = want]
     \/ cr' = [cr EXCEPT !.note = ~@]
     \/ cr' = [cr EXCEPT !.state = "deleting"]
  /\ Conflicts
  /\ UNCHANGED <<cache, size, gate, wake, timer, pass>>

Finalized ==
  /\ cr.state = "deleting"
  /\ cr' = [cr EXCEPT !.state = "gone"]
  /\ Conflicts
  /\ UNCHANGED <<cache, size, gate, wake, timer, pass, budget>>

WorkloadWrites ==
  /\ budget.write > 0
  /\ size' \in (0..MaxSize) \ {size}
  /\ budget' = [budget EXCEPT !.write = @ - 1]
  /\ UNCHANGED <<cr, cache, gate, wake, timer, pass, prov>>

----------------------------------------------------------------------------

Worker == StartPass \/ Measure \/ WriteUsage \/ WriteMessage \/ WriteParked

Next ==
  \/ Worker \/ ProvisionStart \/ ProvisionWrite
  \/ CacheSync \/ TimerRipens \/ TimerFires \/ Ages \/ Restart
  \/ UserEdits \/ Finalized \/ WorkloadWrites

Spec == Init /\ [][Next]_vars

\* The worker runs and ends its passes, delays end, intervals pass, the informer
\* catches up, and a provisioning pass writes.
FairSpec ==
  /\ Spec
  /\ WF_vars(Worker) /\ WF_vars(ProvisionWrite)
  /\ WF_vars(CacheSync) /\ SF_vars(TimerRipens) /\ WF_vars(TimerFires) /\ WF_vars(Ages)

----------------------------------------------------------------------------
(* Properties. *)

TypeOK ==
  /\ cr \in Resource /\ cache \in Resource
  /\ size \in 0..MaxSize
  /\ gate \in BOOLEAN /\ wake \in BOOLEAN
  /\ timer \in {"none", "set", "ripe"}
  /\ pass \in [pc : {"idle", "list", "write", "message", "park", "clear"},
               obj : Resource, usage : Usage]
  /\ prov \in [busy : BOOLEAN, stale : BOOLEAN, obj : Resource]

\* The two writers of one status do not undo each other: the provisioning
\* controller never drops or brings back a measurement, because a patch in
\* between makes its update conflict, and a patch of the usage never touches what
\* the provisioning controller wrote, however old the copy it was made from is
\* (the contract at the head of BucketUsageReconciler).
WritersApart ==
  [][ LET shown(o) == <<o.usage.present, o.usage.size, o.usage.message>>
      IN  shown(cr') # shown(cr) => pass' # pass /\ cr'.ready = cr.ready ]_vars

\* A Bucket that is measured ends up showing the size its bucket has, or the cap
\* as a lower bound, and no failure: whatever failed, conflicted or was patched
\* from an old copy, some later pass is scheduled and repairs it (Reconcile).
UsageConverges ==
  <>[]((cr.state = "live" /\ cr.want # "bad" /\ Enabled(cr) /\ cr.ready) =>
         /\ cr.usage.present
         /\ cr.usage.size = size \/ (MaxObjects > 0 /\ cr.usage.size = MaxObjects /\ size > MaxObjects)
         /\ cr.usage.message \notin {"failed", "parked"})
=============================================================================
