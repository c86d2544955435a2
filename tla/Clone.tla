------------------------------- MODULE Clone -------------------------------
(***************************************************************************)
(* The one-shot clone of a Bucket that declares spec.cloneFrom             *)
(* (internal/controller/clone.go and its place in the pass,                *)
(* internal/controller/bucket_controller.go).                              *)
(*                                                                         *)
(* The copy is a Kubernetes Job that outlives the pass and the operator:   *)
(* a pass creates it, later ones observe it through an informer, record    *)
(* its success in the status, remove it and its staging Secret, and only   *)
(* then admit the granted readers and, unless the spec publishes it at     *)
(* once, the workload's Secret. Deleting the Bucket stops the copy first.  *)
(*                                                                         *)
(* The provisioning before the clone, the issue of the credential and the  *)
(* teardown after it are one step each here: module BucketReconciler takes *)
(* them apart. spec.cloneFrom is valid, present from the start and not     *)
(* edited; sizes and transfer statistics are left out, and so is the time  *)
(* the pod of a deleted running Job takes to stop.                         *)
(***************************************************************************)
EXTENDS Integers

CONSTANTS
  MaxFailures,      \* bound: crashes of the operator and failing calls
  MaxJobFailures,   \* bound: Jobs that exhaust their backoffLimit
  MaxExpiries,      \* bound: finished Jobs removed by their TTL
  MaxPatches,       \* bound: patches of the Bucket by others during a pass
  Holds,            \* the values of spec.cloneFrom.holdSecretUntilCloned
  MaxLags           \* bound: passes that read the Bucket from an informer behind it

ASSUME CloneAssumption ==
  /\ MaxFailures \in Nat /\ MaxJobFailures \in Nat
  /\ MaxExpiries \in Nat /\ MaxPatches \in Nat
  /\ MaxLags \in Nat /\ Holds \subseteq BOOLEAN

VARIABLES
  (* The Kubernetes API server and the provider. *)
  cr,         \* the Bucket: status.clone.phase, the Ready condition, deletion
  job,        \* the clone Job in the operator namespace
  staging,    \* the staging Secret with the source credentials exists
  published,  \* the workload Secret carries a credential
  granted,    \* the bucket policy admits the granted readers
  (* The operator. *)
  cache,      \* the informer's copy of the Bucket
  jobSeen,    \* the informer's copy of the Job
  wake,       \* a pass is due: an event or a requeue
  pc,         \* the call the pass makes next
  b,          \* the pass's copy of the Bucket
  stale,      \* the Bucket has moved since b was read: writes of b conflict
  (* History. *)
  copied,     \* some Job has copied the source to the end
  budget      \* what is left of the bounds

api == <<cr, job, staging, published, granted>>
vars == <<cr, job, staging, published, granted, cache, jobSeen, wake, pc, b, stale,
          copied, budget>>

JobStates == {"none", "running", "succeeded", "failed"}

Resource == [exists : BOOLEAN, deleting : BOOLEAN, hold : BOOLEAN, ready : BOOLEAN,
             phase : {"none", "Running", "Failed", "Completed"}]

NoResource ==
  [exists |-> FALSE, deleting |-> FALSE, hold |-> FALSE, ready |-> FALSE, phase |-> "none"]

Steps == {"idle", "policy", "early", "source", "staging", "job", "progress", "dropFailed",
          "persist", "dropJob", "dropStaging", "regrant", "publish", "ready", "fail",
          "markDeleting", "stopJob", "stopStaging", "finalise"}

\* A new Bucket with its finalizer; nothing of the clone exists yet.
Init ==
  /\ \E hold \in Holds : cr = [NoResource EXCEPT !.exists = TRUE, !.hold = hold]
  /\ cache = cr
  /\ job = "none" /\ jobSeen = "none"
  /\ staging = FALSE /\ published = FALSE /\ granted = FALSE /\ copied = FALSE
  /\ wake = TRUE /\ pc = "idle" /\ b = NoResource /\ stale = FALSE
  /\ budget = [fail |-> MaxFailures, job |-> MaxJobFailures,
               expire |-> MaxExpiries, patch |-> MaxPatches, lag |-> MaxLags]

----------------------------------------------------------------------------
(* Calls. *)

ClonePending(r) == r.phase # "Completed"

Spend(kind) == budget[kind] > 0 /\ budget' = [budget EXCEPT ![kind] = @ - 1]

\* A call that took effect: its answer arrives, or it is lost.
Answered(p, q) == \/ pc' = p /\ UNCHANGED budget
                  \/ pc' = q /\ Spend("fail")

\* A call that did not take effect.
NotApplied(q) == pc' = q /\ Spend("fail")

\* A write of the pass's copy of a Bucket that has moved.
Conflict(q) == stale /\ pc' = q /\ UNCHANGED budget

EndPass(requeue) ==
  pc' = "idle" /\ wake' = (wake \/ requeue) /\ b' = NoResource /\ stale' = FALSE

----------------------------------------------------------------------------
(* A pass. *)

\* Reconcile reads the Bucket from the informer's cache, which may be behind the
\* Bucket: the events of the Job that wake a pass come through another informer.
StartPass ==
  /\ pc = "idle" /\ wake /\ cache.exists
  /\ \/ cache = cr /\ UNCHANGED budget
     \/ cache # cr /\ Spend("lag")
  /\ b' = cache /\ stale' = (cache # cr) /\ wake' = FALSE
  /\ pc' = IF cache.deleting THEN "markDeleting" ELSE "policy"
  /\ UNCHANGED <<api, cache, jobSeen, copied>>

\* Mutant of ApplyPolicy: the readers are admitted at once.
ApplyPolicyOpen ==
  /\ pc = "policy"
  /\ LET next == IF ~ClonePending(b) THEN "publish" ELSE IF b.hold THEN "source" ELSE "early"
     IN  \/ granted' = TRUE /\ Answered(next, "fail")
         \/ UNCHANGED granted /\ NotApplied("fail")
  /\ UNCHANGED <<cr, job, staging, published, cache, jobSeen, wake, b, stale, copied>>

\* The bucket is provisioned and its isolation policy written; while the clone
\* is pending, without the readers.
ApplyPolicy ==
  /\ pc = "policy"
  /\ LET next == IF ~ClonePending(b) THEN "publish" ELSE IF b.hold THEN "source" ELSE "early"
     IN  \/ granted' = ~ClonePending(b) /\ Answered(next, "fail")
         \/ UNCHANGED granted /\ NotApplied("fail")
  /\ UNCHANGED <<cr, job, staging, published, cache, jobSeen, wake, b, stale, copied>>

\* ensureAccessKeyAndSecret: before the clone when the spec does not hold the
\* Secret back, after it otherwise.
PublishSecret ==
  /\ pc \in {"early", "publish"}
  /\ LET next == IF pc = "early" THEN "source" ELSE "ready"
     IN  \/ published' = TRUE /\ Answered(next, "fail")
         \/ UNCHANGED published /\ NotApplied("fail")
  /\ UNCHANGED <<cr, job, staging, granted, cache, jobSeen, wake, b, stale, copied>>

\* cloneSourceCreds and the measurement of the source: reads that may fail.
ReadSource ==
  /\ pc = "source"
  /\ Answered("staging", "fail")
  /\ UNCHANGED <<api, cache, jobSeen, wake, b, stale, copied>>

\* ensureCloneStagingSecret
EnsureStaging ==
  /\ pc = "staging"
  /\ \/ staging' = TRUE /\ Answered("job", "fail")
     \/ UNCHANGED staging /\ NotApplied("fail")
  /\ UNCHANGED <<cr, job, published, granted, cache, jobSeen, wake, b, stale, copied>>

\* The informer knows no Job: create it. AlreadyExists is a failure like any other.
CreateJob ==
  /\ pc = "job" /\ jobSeen = "none"
  /\ \/ job = "none" /\ job' = "running" /\ Answered("progress", "fail")
     \/ job # "none" /\ pc' = "fail" /\ UNCHANGED <<job, budget>>
     \/ UNCHANGED job /\ NotApplied("fail")
  /\ UNCHANGED <<cr, staging, published, granted, cache, jobSeen, wake, b, stale, copied>>

\* Mutant of ObserveJob: completion is not persisted before the cleanup.
ObserveJobCleansFirst ==
  /\ pc = "job" /\ jobSeen # "none"
  /\ CASE jobSeen = "succeeded" -> pc' = "dropJob" /\ b' = [b EXCEPT !.phase = "Completed"]
       [] jobSeen = "failed"    -> pc' = "dropFailed" /\ b' = [b EXCEPT !.phase = "Failed"]
       [] jobSeen = "running"   -> pc' = "progress" /\ UNCHANGED b
  /\ UNCHANGED <<api, cache, jobSeen, wake, stale, copied, budget>>

\* cloneJobFinished on the Job the informer shows.
ObserveJob ==
  /\ pc = "job" /\ jobSeen # "none"
  /\ CASE jobSeen = "succeeded" -> pc' = "persist" /\ b' = [b EXCEPT !.phase = "Completed"]
       [] jobSeen = "failed"    -> pc' = "dropFailed" /\ b' = [b EXCEPT !.phase = "Failed"]
       [] jobSeen = "running"   -> pc' = "progress" /\ UNCHANGED b
  /\ UNCHANGED <<api, cache, jobSeen, wake, stale, copied, budget>>

\* updateCloneProgress, best effort; the pass ends with a poll scheduled.
UpdateProgress ==
  /\ pc = "progress"
  /\ \/ cr' = (IF stale THEN cr ELSE [cr EXCEPT !.phase = "Running"]) /\ UNCHANGED budget
     \/ UNCHANGED cr /\ Spend("fail")
  /\ EndPass(TRUE)
  /\ UNCHANGED <<job, staging, published, granted, cache, jobSeen, copied>>

\* Mutant of DropFailedJob: the failed Job stays.
DropFailedJobKeeps ==
  /\ pc = "dropFailed"
  /\ UNCHANGED job /\ Answered("fail", "fail")
  /\ UNCHANGED <<cr, staging, published, granted, cache, jobSeen, wake, b, stale, copied>>

\* A failed Job is deleted, so that a later pass creates a fresh one; the staging
\* Secret stays. An error of the deletion is only logged.
DropFailedJob ==
  /\ pc = "dropFailed"
  /\ \/ job' = "none" /\ Answered("fail", "fail")
     \/ UNCHANGED job /\ NotApplied("fail")
  /\ UNCHANGED <<cr, staging, published, granted, cache, jobSeen, wake, b, stale, copied>>

\* Mutant of PersistCompletion: the condition's reason is written as the phase.
PersistCompletionAsReason ==
  /\ pc = "persist"
  /\ \/ ~stale /\ cr' = [cr EXCEPT !.phase = "Cloned"] /\ pc' = "dropJob" /\ UNCHANGED <<stale, budget>>
     \/ UNCHANGED <<cr, stale>> /\ (Conflict("fail") \/ NotApplied("fail"))
  /\ UNCHANGED <<job, staging, published, granted, cache, jobSeen, wake, b, copied>>

\* completeClone: Completed is durable before anything is removed. A conflict, a
\* failed write and a lost answer (the Bucket has moved then) end the pass.
PersistCompletion ==
  /\ pc = "persist"
  /\ \/ ~stale /\ cr' = [cr EXCEPT !.phase = "Completed"]
        /\ \/ pc' = "dropJob" /\ UNCHANGED <<stale, budget>>
           \/ NotApplied("fail") /\ stale' = TRUE
     \/ UNCHANGED <<cr, stale>> /\ (Conflict("fail") \/ NotApplied("fail"))
  /\ UNCHANGED <<job, staging, published, granted, cache, jobSeen, wake, b, copied>>

\* deleteCloneArtifacts after completion: the Job, then the staging Secret; an
\* error of the first leaves the second, and neither stops the pass.
DropJob ==
  /\ pc = "dropJob"
  /\ \/ job' = "none" /\ Answered("dropStaging", "regrant")
     \/ UNCHANGED job /\ NotApplied("regrant")
  /\ UNCHANGED <<cr, staging, published, granted, cache, jobSeen, wake, b, stale, copied>>

DropStaging ==
  /\ pc = "dropStaging"
  /\ \/ staging' = FALSE /\ Answered("regrant", "regrant")
     \/ UNCHANGED staging /\ NotApplied("regrant")
  /\ UNCHANGED <<cr, job, published, granted, cache, jobSeen, wake, b, stale, copied>>

\* The copy finished in this pass: the policy again, now with the readers. A
\* Secret published early is not issued again.
Regrant ==
  /\ pc = "regrant"
  /\ \/ granted' = TRUE /\ Answered(IF b.hold THEN "publish" ELSE "ready", "fail")
     \/ UNCHANGED granted /\ NotApplied("fail")
  /\ UNCHANGED <<cr, job, staging, published, cache, jobSeen, wake, b, stale, copied>>

\* The terminal write of the pass; a conflict or a failed write is retried.
MarkReady ==
  /\ pc = "ready"
  /\ \/ ~stale /\ cr' = [cr EXCEPT !.ready = TRUE, !.phase = b.phase]
        /\ \/ EndPass(FALSE) /\ UNCHANGED budget
           \/ EndPass(TRUE) /\ Spend("fail")
     \/ UNCHANGED cr /\ EndPass(TRUE)
        /\ \/ stale /\ UNCHANGED budget
           \/ Spend("fail")
  /\ UNCHANGED <<job, staging, published, granted, cache, jobSeen, copied>>

\* fail: the pass's copy of the status is written with the failure, the phase of
\* the clone included; Ready is dropped, or held through an outage unless the
\* Bucket is being deleted. Best effort, and retried.
FailPass ==
  /\ pc = "fail"
  /\ \/ \E held \in IF b.ready /\ ~b.deleting THEN BOOLEAN ELSE {FALSE} :
          /\ cr' = (IF stale THEN cr ELSE [cr EXCEPT !.phase = b.phase, !.ready = held])
          /\ UNCHANGED budget
     \/ UNCHANGED cr /\ Spend("fail")
  /\ EndPass(TRUE)
  /\ UNCHANGED <<job, staging, published, granted, cache, jobSeen, copied>>

----------------------------------------------------------------------------
(* A pass over a Bucket under deletion. *)

\* reconcileDelete records that it is under way, unless it did so before; a
\* conflict there ends the pass.
MarkDeleting ==
  /\ pc = "markDeleting"
  /\ \/ pc' = "stopJob" /\ UNCHANGED <<wake, b, stale, budget>>
     \/ EndPass(TRUE) /\ stale /\ UNCHANGED budget
     \/ EndPass(TRUE) /\ Spend("fail")
  /\ UNCHANGED <<api, cache, jobSeen, copied>>

\* Mutant of StopJob: only the Job is removed.
StopJobOnly ==
  /\ pc = "stopJob"
  /\ \/ job' = "none" /\ Answered("finalise", "fail")
     \/ UNCHANGED job /\ NotApplied("fail")
  /\ UNCHANGED <<cr, staging, published, granted, cache, jobSeen, wake, b, stale, copied>>

\* teardown begins with the Job and the staging Secret; here an error ends the
\* pass, and the deletion is retried.
StopJob ==
  /\ pc = "stopJob"
  /\ \/ job' = "none" /\ Answered("stopStaging", "fail")
     \/ UNCHANGED job /\ NotApplied("fail")
  /\ UNCHANGED <<cr, staging, published, granted, cache, jobSeen, wake, b, stale, copied>>

StopStaging ==
  /\ pc = "stopStaging"
  /\ \/ staging' = FALSE /\ Answered("finalise", "fail")
     \/ UNCHANGED staging /\ NotApplied("fail")
  /\ UNCHANGED <<cr, job, published, granted, cache, jobSeen, wake, b, stale, copied>>

\* The rest of the teardown, then the removal of the finalizer, which conflicts
\* when the Bucket has moved.
Finalise ==
  /\ pc = "finalise"
  /\ \/ /\ published' = FALSE /\ granted' = FALSE
        /\ cr' = (IF stale THEN cr ELSE [cr EXCEPT !.exists = FALSE, !.ready = FALSE])
        /\ EndPass(stale) /\ UNCHANGED budget
     \/ /\ NotApplied("fail")
        /\ UNCHANGED <<cr, published, granted, wake, b, stale>>
  /\ UNCHANGED <<job, staging, cache, jobSeen, copied>>

----------------------------------------------------------------------------
(* The Job, the informers, users and crashes. *)

operatorVars == <<cache, jobSeen, wake, pc, b, stale>>

\* rclone in the Job's pod, and the Job's controller.
JobEnds ==
  /\ job = "running"
  /\ \/ job' = "succeeded" /\ copied' = TRUE /\ UNCHANGED budget
     \/ job' = "failed" /\ Spend("job") /\ UNCHANGED copied
  /\ UNCHANGED <<cr, staging, published, granted, operatorVars>>

\* ttlSecondsAfterFinished
JobExpires ==
  /\ job \in {"succeeded", "failed"} /\ job' = "none" /\ Spend("expire")
  /\ UNCHANGED <<cr, staging, published, granted, operatorVars, copied>>

\* bucketsForCloneJob: every event of the Job wakes a pass.
JobSync ==
  /\ jobSeen # job /\ jobSeen' = job /\ wake' = TRUE
  /\ UNCHANGED <<api, cache, pc, b, stale, copied, budget>>

\* Events of the Bucket are filtered: its status wakes no pass, its deletion does.
CacheSync ==
  /\ cache # cr /\ cache' = cr
  /\ wake' = (wake \/ cr.deleting # cache.deleting)
  /\ UNCHANGED <<api, jobSeen, pc, b, stale, copied, budget>>

UserDeletes ==
  /\ cr.exists /\ ~cr.deleting
  /\ cr' = [cr EXCEPT !.deleting = TRUE] /\ stale' = (pc # "idle")
  /\ UNCHANGED <<job, staging, published, granted, cache, jobSeen, wake, pc, b, copied, budget>>

\* Another writer, such as the usage controller, moves the Bucket during a pass.
Patch ==
  /\ pc # "idle" /\ ~stale /\ stale' = TRUE /\ Spend("patch")
  /\ UNCHANGED <<api, cache, jobSeen, wake, pc, b, copied>>

\* The operator is killed; the next process lists everything afresh.
Crash ==
  /\ Spend("fail")
  /\ cache' = cr /\ jobSeen' = job /\ wake' = TRUE
  /\ pc' = "idle" /\ b' = NoResource /\ stale' = FALSE
  /\ UNCHANGED <<api, copied>>

Operator ==
  \/ StartPass \/ ApplyPolicy \/ PublishSecret \/ ReadSource \/ EnsureStaging
  \/ CreateJob \/ ObserveJob \/ UpdateProgress \/ DropFailedJob
  \/ PersistCompletion \/ DropJob \/ DropStaging \/ Regrant \/ MarkReady \/ FailPass
  \/ MarkDeleting \/ StopJob \/ StopStaging \/ Finalise

Environment ==
  JobEnds \/ JobExpires \/ JobSync \/ CacheSync \/ UserDeletes \/ Patch \/ Crash

Next == Operator \/ Environment

Spec == Init /\ [][Next]_vars

\* The worker runs the pass that is due and finishes the one it runs, the
\* informers catch up, and a copy ends one way or the other.
FairSpec ==
  Spec /\ WF_vars(Operator) /\ WF_vars(JobSync) /\ WF_vars(CacheSync) /\ WF_vars(JobEnds)

----------------------------------------------------------------------------
(* Properties. *)

TypeOK ==
  /\ cr \in Resource /\ cache \in Resource /\ b \in Resource
  /\ job \in JobStates /\ jobSeen \in JobStates
  /\ staging \in BOOLEAN /\ published \in BOOLEAN /\ granted \in BOOLEAN
  /\ wake \in BOOLEAN /\ stale \in BOOLEAN /\ copied \in BOOLEAN
  /\ pc \in Steps
  /\ budget \in [fail : 0..MaxFailures, job : 0..MaxJobFailures,
                 expire : 0..MaxExpiries, patch : 0..MaxPatches, lag : 0..MaxLags]

\* No pass so far has worked from a Bucket that the informer showed too old.
Prompt == budget.lag = MaxLags

\* Nobody is let into a bucket before it is filled: readers in the policy, Ready,
\* and a Secret that the spec holds back, all mean that the source was copied to
\* the end; and that no copy runs, as long as no pass has worked from an outdated
\* Bucket (ensureClone, and the holds around it).
HeldUntilCloned ==
  (granted \/ cr.ready \/ (published /\ cr.hold)) =>
    copied /\ (Prompt => job # "running")

CopyStarts == job # "running" /\ job' = "running"

OneCopy ==
  /\ CopyStarts /\ copied /\ Prompt => cr.phase # "Completed" /\ budget.expire < MaxExpiries
  /\ cr.phase = "Completed" => cr'.phase = "Completed"

\* Once a copy has succeeded, another one starts only if its Job expired before
\* the success was recorded, or after a pass has worked from an outdated Bucket:
\* no crash, conflict or failed call during completion and cleanup causes a second
\* copy by itself (completeClone persists before it removes). Completed is never
\* taken back, whatever a pass has read.
CloneOnce ==
  [][OneCopy]_vars

\* What ADR 0011 D5 says: once status.clone.phase is Completed, the clone never runs
\* again for that Bucket. ensureClone reads the phase from the informer's copy
\* (clone.go:207).
CompletedTerminal ==
  [][cr.phase = "Completed" => ~CopyStarts]_vars

\* A Bucket that is gone leaves neither the Job nor the copy of the source's
\* credentials behind, whatever failed on the way and wherever in the clone the
\* deletion arrived (teardown, deleteCloneArtifacts).
NoLeftovers ==
  ~cr.exists => job = "none" /\ ~staging

\* Once users, crashes and failures have come to rest, the clone comes to its end:
\* the Bucket is Ready, published and readable, or it is gone.
CloneSettles ==
  <>[](~cr.exists \/ (cr.ready /\ published /\ granted /\ job # "running"))
=============================================================================
