---------------------------- MODULE CloneProofs ----------------------------
(***************************************************************************)
(* The clone of a Bucket, for every bound and both values of               *)
(* holdSecretUntilCloned: what it leaves behind, that it lets nobody in    *)
(* before the source is copied, and when a second copy can start. Passes   *)
(* may work from an outdated Bucket; the parts that then fail are stated   *)
(* for as long as none has (Prompt).                                       *)
(***************************************************************************)
EXTENDS Clone, TLAPS

----------------------------------------------------------------------------
(* Types, as far as the arguments need them. *)

Copies ==
  /\ cr \in Resource /\ cache \in Resource /\ b \in Resource
  /\ job \in JobStates /\ jobSeen \in JobStates

\* Every value a status write, a deletion or the end of a pass stores is a Bucket.
LEMMA ResourceWrites ==
  ASSUME NEW r \in Resource, NEW q \in Resource, NEW held \in BOOLEAN,
         NEW p \in {"none", "Running", "Failed", "Completed"}
  PROVE  /\ NoResource \in Resource
         /\ [r EXCEPT !.phase = p] \in Resource
         /\ [r EXCEPT !.deleting = TRUE] \in Resource
         /\ [r EXCEPT !.exists = FALSE, !.ready = FALSE] \in Resource
         /\ [r EXCEPT !.ready = TRUE, !.phase = q.phase] \in Resource
         /\ [r EXCEPT !.phase = q.phase, !.ready = held] \in Resource
BY DEF Resource, NoResource

\* The Bucket and its copies, the Job and its copy keep their types.
LEMMA CopiesPreserved ==
  Copies /\ [Next]_vars => Copies'
<1> SUFFICES ASSUME Copies, [Next]_vars PROVE Copies'
  OBVIOUS
<1> USE DEF Copies, JobStates
<1>1. CASE StartPass
  BY <1>1, ResourceWrites DEF StartPass, api
<1>2. CASE ApplyPolicy
  BY <1>2, ResourceWrites DEF ApplyPolicy, Answered, NotApplied, ClonePending
<1>3. CASE PublishSecret
  BY <1>3, ResourceWrites DEF PublishSecret, Answered, NotApplied
<1>4. CASE ReadSource
  BY <1>4, ResourceWrites DEF ReadSource, Answered, api
<1>5. CASE EnsureStaging
  BY <1>5, ResourceWrites DEF EnsureStaging, Answered, NotApplied
<1>6. CASE CreateJob
  BY <1>6, ResourceWrites DEF CreateJob, Answered, NotApplied
<1>7. CASE ObserveJob
  <2>1. UNCHANGED <<cr, cache, job, jobSeen>>
    BY <1>7 DEF ObserveJob, api, Copies, JobStates
  <2>2. b' = b \/ b' = [b EXCEPT !.phase = "Completed"] \/ b' = [b EXCEPT !.phase = "Failed"]
    BY <1>7 DEF ObserveJob
  <2> QED
    BY <2>1, <2>2, ResourceWrites
<1>8. CASE UpdateProgress
  BY <1>8, ResourceWrites DEF UpdateProgress, EndPass
<1>9. CASE DropFailedJob
  BY <1>9, ResourceWrites DEF DropFailedJob, Answered, NotApplied
<1>10. CASE PersistCompletion
  BY <1>10, ResourceWrites DEF PersistCompletion, NotApplied, Conflict
<1>11. CASE DropJob
  BY <1>11, ResourceWrites DEF DropJob, Answered, NotApplied
<1>12. CASE DropStaging
  BY <1>12, ResourceWrites DEF DropStaging, Answered, NotApplied
<1>13. CASE Regrant
  BY <1>13, ResourceWrites DEF Regrant, Answered, NotApplied
<1>14. CASE MarkReady
  <2>1. UNCHANGED <<cache, job, jobSeen>> /\ b' = NoResource
    BY <1>14 DEF MarkReady, EndPass
  <2>2. cr' = cr \/ cr' = [cr EXCEPT !.ready = TRUE, !.phase = b.phase]
    BY <1>14 DEF MarkReady
  <2>3. [cr EXCEPT !.ready = TRUE, !.phase = b.phase] \in Resource
    BY DEF Resource
  <2>4. cr' \in Resource
    BY <2>2, <2>3
  <2> QED
    BY <2>1, <2>2, <2>3, <2>4, ResourceWrites
<1>15. CASE FailPass
  <2>1. UNCHANGED <<cache, job, jobSeen>> /\ b' = NoResource
    BY <1>15 DEF FailPass, EndPass
  <2>2. cr' = cr \/ \E held \in BOOLEAN : cr' = [cr EXCEPT !.phase = b.phase, !.ready = held]
    BY <1>15 DEF FailPass
  <2>3. \A held \in BOOLEAN : [cr EXCEPT !.phase = b.phase, !.ready = held] \in Resource
    BY DEF Resource
  <2>4. cr' \in Resource
    BY <2>2, <2>3
  <2> QED
    BY <2>1, <2>2, <2>3, <2>4, ResourceWrites
<1>16. CASE MarkDeleting
  <2>1. UNCHANGED <<cr, cache, job, jobSeen>>
    BY <1>16 DEF MarkDeleting, api
  <2>2. b' = b \/ b' = NoResource
    BY <1>16 DEF MarkDeleting, EndPass
  <2> QED
    BY <2>1, <2>2, ResourceWrites
<1>17. CASE StopJob
  BY <1>17, ResourceWrites DEF StopJob, Answered, NotApplied
<1>18. CASE StopStaging
  BY <1>18, ResourceWrites DEF StopStaging, Answered, NotApplied
<1>19. CASE Finalise
  <2>1. UNCHANGED <<cache, job, jobSeen>> /\ (b' = b \/ b' = NoResource)
    BY <1>19 DEF Finalise, EndPass
  <2>2. cr' = cr \/ cr' = [cr EXCEPT !.exists = FALSE, !.ready = FALSE]
    BY <1>19 DEF Finalise
  <2> QED
    BY <2>1, <2>2, ResourceWrites
<1>20. CASE JobEnds
  BY <1>20, ResourceWrites DEF JobEnds, operatorVars
<1>21. CASE JobExpires
  BY <1>21, ResourceWrites DEF JobExpires, operatorVars
<1>22. CASE JobSync
  BY <1>22, ResourceWrites DEF JobSync, api
<1>23. CASE CacheSync
  BY <1>23, ResourceWrites DEF CacheSync, api
<1>24. CASE UserDeletes
  <2>1. UNCHANGED <<cache, job, jobSeen, b>> /\ cr' = [cr EXCEPT !.deleting = TRUE]
    BY <1>24 DEF UserDeletes
  <2> QED
    BY <2>1, ResourceWrites
<1>25. CASE Patch
  BY <1>25, ResourceWrites DEF Patch, api
<1>26. CASE Crash
  BY <1>26, ResourceWrites DEF Crash, api
<1>27. CASE UNCHANGED vars
  BY <1>27 DEF vars
<1> QED
  BY <1>1, <1>2, <1>3, <1>4, <1>5, <1>6, <1>7, <1>8, <1>9, <1>10, <1>11, <1>12, <1>13,
     <1>14, <1>15, <1>16, <1>17, <1>18, <1>19, <1>20, <1>21, <1>22, <1>23, <1>24, <1>25,
     <1>26, <1>27 DEF Next, Operator, Environment

----------------------------------------------------------------------------
(* Nothing is left behind. *)

Gone == {"idle", "markDeleting", "stopJob", "stopStaging", "finalise", "fail"}

\* Copies of the Bucket that show its deletion are never ahead of it, a teardown
\* runs on such a copy, and what it has removed stays removed: the informer never
\* goes back to a Bucket that was not yet being deleted.
LeftInv ==
  /\ cache.deleting => cr.deleting
  /\ b.deleting => cache.deleting
  /\ pc \in {"markDeleting", "stopJob", "stopStaging", "finalise"} => b.deleting
  /\ pc \in {"stopStaging", "finalise"} => job = "none"
  /\ pc = "finalise" => ~staging
  /\ ~cr.exists => job = "none" /\ ~staging /\ cache.deleting /\ pc \in Gone

\* Every step of a pass, of the Job and of the informers preserves LeftInv.
LEMMA LeftPreserved ==
  Copies /\ LeftInv /\ [Next]_vars => LeftInv'
<1> SUFFICES ASSUME Copies /\ LeftInv, [Next]_vars PROVE LeftInv'
  OBVIOUS
<1> USE DEF Copies, Resource, JobStates, LeftInv, Gone
<1>1. CASE StartPass
  BY <1>1 DEF StartPass, api
<1>2. CASE ApplyPolicy
  BY <1>2 DEF ApplyPolicy, Answered, NotApplied, ClonePending
<1>3. CASE PublishSecret
  BY <1>3 DEF PublishSecret, Answered, NotApplied
<1>4. CASE ReadSource
  BY <1>4 DEF ReadSource, Answered, api
<1>5. CASE EnsureStaging
  BY <1>5 DEF EnsureStaging, Answered, NotApplied
<1>6. CASE CreateJob
  BY <1>6 DEF CreateJob, Answered, NotApplied
<1>7. CASE ObserveJob
  <2>1. UNCHANGED <<cr, cache, job, staging>>
    BY <1>7 DEF ObserveJob, api, Copies, JobStates
  <2>2. b' = b \/ b' = [b EXCEPT !.phase = "Completed"] \/ b' = [b EXCEPT !.phase = "Failed"]
    BY <1>7 DEF ObserveJob
  <2>3. b'.deleting = b.deleting
    BY <2>2 DEF Resource
  <2>4. pc = "job" /\ pc' \in {"persist", "dropFailed", "progress"}
    BY <1>7 DEF ObserveJob
  <2> QED
    BY <2>1, <2>2, <2>3, <2>4
<1>8. CASE UpdateProgress
  BY <1>8 DEF UpdateProgress, EndPass, NoResource
<1>9. CASE DropFailedJob
  BY <1>9 DEF DropFailedJob, Answered, NotApplied
<1>10. CASE PersistCompletion
  BY <1>10 DEF PersistCompletion, NotApplied, Conflict
<1>11. CASE DropJob
  BY <1>11 DEF DropJob, Answered, NotApplied
<1>12. CASE DropStaging
  BY <1>12 DEF DropStaging, Answered, NotApplied
<1>13. CASE Regrant
  BY <1>13 DEF Regrant, Answered, NotApplied
<1>14. CASE MarkReady
  <2>1. UNCHANGED <<cache, job, staging>> /\ b' = NoResource /\ pc' = "idle"
    BY <1>14 DEF MarkReady, EndPass
  <2>2. cr' = cr \/ cr' = [cr EXCEPT !.ready = TRUE, !.phase = b.phase]
    BY <1>14 DEF MarkReady
  <2>3. cr'.exists = cr.exists /\ cr'.deleting = cr.deleting
    BY <2>2 DEF Resource
  <2>4. ~b'.deleting
    BY <2>1 DEF NoResource
  <2> QED
    BY <2>1, <2>2, <2>3, <2>4
<1>15. CASE FailPass
  BY <1>15 DEF FailPass, EndPass, NoResource
<1>16. CASE MarkDeleting
  BY <1>16 DEF MarkDeleting, EndPass, api, NoResource
<1>17. CASE StopJob
  BY <1>17 DEF StopJob, Answered, NotApplied
<1>18. CASE StopStaging
  BY <1>18 DEF StopStaging, Answered, NotApplied
<1>19. CASE Finalise
  BY <1>19 DEF Finalise, NotApplied, EndPass, NoResource
<1>20. CASE JobEnds
  BY <1>20 DEF JobEnds, operatorVars
<1>21. CASE JobExpires
  BY <1>21 DEF JobExpires, operatorVars
<1>22. CASE JobSync
  BY <1>22 DEF JobSync, api
<1>23. CASE CacheSync
  BY <1>23 DEF CacheSync, api
<1>24. CASE UserDeletes
  BY <1>24 DEF UserDeletes
<1>25. CASE Patch
  BY <1>25 DEF Patch, api
<1>26. CASE Crash
  BY <1>26 DEF Crash, NoResource, api
<1>27. CASE UNCHANGED vars
  BY <1>27 DEF vars
<1> QED
  BY <1>1, <1>2, <1>3, <1>4, <1>5, <1>6, <1>7, <1>8, <1>9, <1>10, <1>11, <1>12, <1>13,
     <1>14, <1>15, <1>16, <1>17, <1>18, <1>19, <1>20, <1>21, <1>22, <1>23, <1>24, <1>25,
     <1>26, <1>27 DEF Next, Operator, Environment

\* The initial states have the types and satisfy LeftInv.
LEMMA LeftInitially ==
  Init => Copies /\ LeftInv
<1> SUFFICES ASSUME Init PROVE Copies /\ LeftInv
  OBVIOUS
<1>1. PICK hold \in BOOLEAN : cr = [NoResource EXCEPT !.exists = TRUE, !.hold = hold]
  BY CloneAssumption DEF Init
<1>2. cr \in Resource /\ cr.exists /\ ~cr.deleting
  BY <1>1 DEF Resource, NoResource
<1>3. NoResource \in Resource /\ ~NoResource.deleting
  BY DEF Resource, NoResource
<1>4. cache = cr /\ b = NoResource /\ pc = "idle" /\ job = "none" /\ jobSeen = "none"
  BY DEF Init
<1> QED
  BY <1>2, <1>3, <1>4 DEF Copies, LeftInv, JobStates, Gone

\* A Bucket that is gone has left neither the clone Job nor the staging Secret
\* behind, for every bound and with lagging informers (teardown,
\* deleteCloneArtifacts).
THEOREM NothingLeft ==
  Spec => []NoLeftovers
<1>1. Init => Copies /\ LeftInv
  BY LeftInitially
<1>2. Copies /\ LeftInv /\ [Next]_vars => (Copies /\ LeftInv)'
  BY CopiesPreserved, LeftPreserved
<1>3. LeftInv => NoLeftovers
  BY DEF LeftInv, NoLeftovers
<1> QED
  BY <1>1, <1>2, <1>3, PTL DEF Spec

----------------------------------------------------------------------------
(* The bounds. *)

BudgetOK ==
  budget \in [fail : 0..MaxFailures, job : 0..MaxJobFailures,
             expire : 0..MaxExpiries, patch : 0..MaxPatches, lag : 0..MaxLags]

Shrinks == budget'.expire <= budget.expire /\ budget'.lag <= budget.lag

\* The bounds are only used up: an expiry, or a pass that worked from an outdated
\* Bucket, is never taken back.
LEMMA BudgetShrinks ==
  BudgetOK /\ [Next]_vars => BudgetOK' /\ Shrinks
<1> SUFFICES ASSUME BudgetOK, [Next]_vars PROVE BudgetOK' /\ Shrinks
  OBVIOUS
<1> USE DEF Shrinks
<1>a. UNCHANGED budget => BudgetOK' /\ Shrinks
  BY CloneAssumption DEF BudgetOK
<1>b. ASSUME \E kind \in {"fail", "job", "expire", "patch", "lag"} : Spend(kind)
      PROVE  BudgetOK' /\ Shrinks
  BY <1>b, CloneAssumption DEF BudgetOK, Spend
<1>1. CASE StartPass
  BY <1>1, <1>a, <1>b DEF StartPass
<1>2. CASE ApplyPolicy
  BY <1>2, <1>a, <1>b DEF ApplyPolicy, Answered, NotApplied
<1>3. CASE PublishSecret
  BY <1>3, <1>a, <1>b DEF PublishSecret, Answered, NotApplied
<1>4. CASE ReadSource
  BY <1>4, <1>a, <1>b DEF ReadSource, Answered
<1>5. CASE EnsureStaging
  BY <1>5, <1>a, <1>b DEF EnsureStaging, Answered, NotApplied
<1>6. CASE CreateJob
  BY <1>6, <1>a, <1>b DEF CreateJob, Answered, NotApplied
<1>7. CASE ObserveJob
  BY <1>7, <1>a, <1>b DEF ObserveJob
<1>8. CASE UpdateProgress
  BY <1>8, <1>a, <1>b DEF UpdateProgress
<1>9. CASE DropFailedJob
  BY <1>9, <1>a, <1>b DEF DropFailedJob, Answered, NotApplied
<1>10. CASE PersistCompletion
  BY <1>10, <1>a, <1>b DEF PersistCompletion, NotApplied, Conflict
<1>11. CASE DropJob
  BY <1>11, <1>a, <1>b DEF DropJob, Answered, NotApplied
<1>12. CASE DropStaging
  BY <1>12, <1>a, <1>b DEF DropStaging, Answered, NotApplied
<1>13. CASE Regrant
  BY <1>13, <1>a, <1>b DEF Regrant, Answered, NotApplied
<1>14. CASE MarkReady
  BY <1>14, <1>a, <1>b DEF MarkReady
<1>15. CASE FailPass
  BY <1>15, <1>a, <1>b DEF FailPass
<1>16. CASE MarkDeleting
  BY <1>16, <1>a, <1>b DEF MarkDeleting
<1>17. CASE StopJob
  BY <1>17, <1>a, <1>b DEF StopJob, Answered, NotApplied
<1>18. CASE StopStaging
  BY <1>18, <1>a, <1>b DEF StopStaging, Answered, NotApplied
<1>19. CASE Finalise
  BY <1>19, <1>a, <1>b DEF Finalise, NotApplied
<1>20. CASE JobEnds
  BY <1>20, <1>a, <1>b DEF JobEnds
<1>21. CASE JobExpires
  BY <1>21, <1>a, <1>b DEF JobExpires
<1>22. CASE JobSync
  BY <1>22, <1>a, <1>b DEF JobSync
<1>23. CASE CacheSync
  BY <1>23, <1>a, <1>b DEF CacheSync
<1>24. CASE UserDeletes
  BY <1>24, <1>a, <1>b DEF UserDeletes
<1>25. CASE Patch
  BY <1>25, <1>a, <1>b DEF Patch
<1>26. CASE Crash
  BY <1>26, <1>a, <1>b DEF Crash
<1>27. CASE UNCHANGED vars
  BY <1>27, <1>a DEF vars
<1> QED
  BY <1>1, <1>2, <1>3, <1>4, <1>5, <1>6, <1>7, <1>8, <1>9, <1>10, <1>11, <1>12, <1>13,
     <1>14, <1>15, <1>16, <1>17, <1>18, <1>19, <1>20, <1>21, <1>22, <1>23, <1>24, <1>25,
     <1>26, <1>27 DEF Next, Operator, Environment

\* The bounds are intact initially.
LEMMA BudgetInitially ==
  Init => BudgetOK
BY CloneAssumption DEF Init, BudgetOK

\* If no pass has worked from an outdated Bucket after a step, none had before, and
\* a pass that the step starts reads the Bucket as it is.
LEMMA PromptBefore ==
  ASSUME BudgetOK, [Next]_vars, Prompt'
  PROVE  Prompt /\ (StartPass => cache = cr)
<1>1. Prompt
  BY BudgetShrinks, CloneAssumption DEF BudgetOK, Prompt, Shrinks
<1>2. ASSUME StartPass, cache # cr PROVE FALSE
  BY <1>1, <1>2, CloneAssumption DEF StartPass, Spend, BudgetOK, Prompt
<1> QED
  BY <1>1, <1>2

----------------------------------------------------------------------------
(* Nobody is let in before the source is copied. *)

\* The steps between a pending clone and its completion, and those after it.
Cloning == {"early", "source", "staging", "job", "progress", "dropFailed"}
Completing == {"dropJob", "dropStaging", "regrant", "publish", "ready"}

\* What lets somebody in goes back to a copy that succeeded, whichever Bucket the
\* pass has read: Completed in the status or in a copy of it, a Job that succeeded
\* or is seen so, and Ready, all mean that the source was copied. A pass whose copy
\* of the Bucket is still current knows of Completed; one that clones does not.
EarlyInv ==
  /\ cr.phase = "Completed" \/ cache.phase = "Completed" \/ b.phase = "Completed" => copied
  /\ job = "succeeded" \/ jobSeen = "succeeded" => copied
  /\ cr.ready \/ cache.ready \/ b.ready => copied
  /\ pc \in Completing \cup {"persist"} => b.phase = "Completed"
  /\ pc \in Cloning => b.phase # "Completed"
  /\ pc # "idle" /\ ~stale /\ cr.phase = "Completed" => b.phase = "Completed"
  /\ cache.hold = cr.hold
  /\ pc # "idle" => b.hold = cr.hold
  /\ pc = "early" => ~b.hold
  /\ granted \/ (published /\ cr.hold) => copied

\* Every step preserves EarlyInv.
LEMMA EarlyPreserved ==
  Copies /\ EarlyInv /\ [Next]_vars => EarlyInv'
<1> SUFFICES ASSUME Copies /\ EarlyInv, [Next]_vars PROVE EarlyInv'
  OBVIOUS
<1> USE DEF Copies, Resource, JobStates, EarlyInv, Cloning, Completing
<1>1. CASE StartPass
  BY <1>1 DEF StartPass, api
<1>2. CASE ApplyPolicy
  BY <1>2 DEF ApplyPolicy, Answered, NotApplied, ClonePending
<1>3. CASE PublishSecret
  BY <1>3 DEF PublishSecret, Answered, NotApplied
<1>4. CASE ReadSource
  BY <1>4 DEF ReadSource, Answered, api
<1>5. CASE EnsureStaging
  BY <1>5 DEF EnsureStaging, Answered, NotApplied
<1>6. CASE CreateJob
  BY <1>6 DEF CreateJob, Answered, NotApplied
<1>7. CASE ObserveJob
  BY <1>7 DEF ObserveJob, api, Copies, JobStates
<1>8. CASE UpdateProgress
  BY <1>8 DEF UpdateProgress, EndPass, NoResource
<1>9. CASE DropFailedJob
  BY <1>9 DEF DropFailedJob, Answered, NotApplied
<1>10. CASE PersistCompletion
  BY <1>10 DEF PersistCompletion, NotApplied, Conflict
<1>11. CASE DropJob
  BY <1>11 DEF DropJob, Answered, NotApplied
<1>12. CASE DropStaging
  BY <1>12 DEF DropStaging, Answered, NotApplied
<1>13. CASE Regrant
  BY <1>13 DEF Regrant, Answered, NotApplied
<1>14. CASE MarkReady
  <2>1. UNCHANGED <<cache, job, jobSeen, published, granted, copied>> /\ b' = NoResource /\ pc' = "idle"
    BY <1>14 DEF MarkReady, EndPass
  <2>2. cr' = cr \/ cr' = [cr EXCEPT !.ready = TRUE, !.phase = b.phase]
    BY <1>14 DEF MarkReady
  <2>3. pc = "ready"
    BY <1>14 DEF MarkReady
  <2>4. cr'.phase \in {cr.phase, b.phase} /\ cr'.hold = cr.hold
    BY <2>2, <2>3 DEF Resource
  <2>5. b'.phase = "none" /\ ~b'.ready
    BY <2>1 DEF NoResource
  <2>6. copied
    BY <2>3
  <2> QED
    BY <2>1, <2>2, <2>3, <2>4, <2>5, <2>6
<1>15. CASE FailPass
  BY <1>15 DEF FailPass, EndPass, NoResource
<1>16. CASE MarkDeleting
  BY <1>16 DEF MarkDeleting, EndPass, api, NoResource
<1>17. CASE StopJob
  BY <1>17 DEF StopJob, Answered, NotApplied
<1>18. CASE StopStaging
  BY <1>18 DEF StopStaging, Answered, NotApplied
<1>19. CASE Finalise
  <2>1. UNCHANGED <<cache, job, jobSeen, copied>> /\ pc = "finalise"
    BY <1>19 DEF Finalise
  <2>2. (pc' = "idle" /\ b' = NoResource) \/ (pc' = "fail" /\ UNCHANGED <<b, cr, stale>>)
    BY <1>19 DEF Finalise, EndPass, NotApplied
  <2>3. cr' = cr \/ cr' = [cr EXCEPT !.exists = FALSE, !.ready = FALSE]
    BY <1>19 DEF Finalise
  <2>4. cr'.phase = cr.phase /\ cr'.hold = cr.hold /\ (cr'.ready => cr.ready)
    BY <2>3 DEF Resource
  <2>5. b' = NoResource => b'.phase = "none" /\ ~b'.ready
    BY DEF NoResource
  <2>6. (published' = FALSE /\ granted' = FALSE) \/ UNCHANGED <<published, granted>>
    BY <1>19 DEF Finalise
  <2> QED
    BY <2>1, <2>2, <2>3, <2>4, <2>5, <2>6
<1>20. CASE JobEnds
  BY <1>20 DEF JobEnds, operatorVars
<1>21. CASE JobExpires
  BY <1>21 DEF JobExpires, operatorVars
<1>22. CASE JobSync
  BY <1>22 DEF JobSync, api
<1>23. CASE CacheSync
  BY <1>23 DEF CacheSync, api
<1>24. CASE UserDeletes
  BY <1>24 DEF UserDeletes
<1>25. CASE Patch
  BY <1>25 DEF Patch, api
<1>26. CASE Crash
  BY <1>26 DEF Crash, NoResource, api
<1>27. CASE UNCHANGED vars
  BY <1>27 DEF vars
<1> QED
  BY <1>1, <1>2, <1>3, <1>4, <1>5, <1>6, <1>7, <1>8, <1>9, <1>10, <1>11, <1>12, <1>13,
     <1>14, <1>15, <1>16, <1>17, <1>18, <1>19, <1>20, <1>21, <1>22, <1>23, <1>24, <1>25,
     <1>26, <1>27 DEF Next, Operator, Environment

\* A new Bucket satisfies EarlyInv.
LEMMA EarlyInitially ==
  Init => EarlyInv
BY CloneAssumption DEF Init, EarlyInv, NoResource, Cloning, Completing

----------------------------------------------------------------------------
(* As long as no pass has worked from an outdated Bucket. *)

\* What the pass, the Job and the status know of a completed copy: Completed, in
\* the status or in the pass's copy, means that the source was copied and no copy
\* runs; a pass that clones runs on a Bucket that is not Completed; whatever lets
\* somebody in comes after Completed is in the status.
HeldInv ==
  /\ cr.phase = "Completed" \/ b.phase = "Completed" => copied /\ job # "running"
  /\ job = "succeeded" \/ jobSeen = "succeeded" => copied
  /\ jobSeen \in {"succeeded", "failed"} => job \in {jobSeen, "none"}
  /\ pc = "dropFailed" => job \in {"failed", "none"}
  /\ pc = "policy" => b.phase = cr.phase
  /\ pc \in Cloning => b.phase # "Completed"
  /\ pc \in Completing => cr.phase = "Completed"
  /\ pc = "persist" => b.phase = "Completed"
  /\ pc # "idle" /\ cr.phase = "Completed" => b.phase = "Completed"
  /\ b.ready => b.phase = "Completed"
  /\ pc # "idle" => b.hold = cr.hold
  /\ pc = "early" => ~cr.hold
  /\ granted \/ cr.ready \/ (published /\ cr.hold) => cr.phase = "Completed"

\* Every step after which still no pass has worked from an outdated Bucket
\* preserves HeldInv.
LEMMA HeldPreserved ==
  Copies /\ BudgetOK /\ (Prompt => HeldInv) /\ [Next]_vars => (Prompt => HeldInv)'
<1> SUFFICES ASSUME Copies, BudgetOK, Prompt => HeldInv, [Next]_vars, Prompt' PROVE HeldInv'
  OBVIOUS
<1>p. HeldInv /\ (StartPass => cache = cr)
  BY PromptBefore
<1> USE DEF Copies, Resource, JobStates, HeldInv, Cloning, Completing
<1>1. CASE StartPass
  BY <1>p, <1>1 DEF StartPass, api
<1>2. CASE ApplyPolicy
  BY <1>p, <1>2 DEF ApplyPolicy, Answered, NotApplied, ClonePending
<1>3. CASE PublishSecret
  BY <1>p, <1>3 DEF PublishSecret, Answered, NotApplied
<1>4. CASE ReadSource
  BY <1>p, <1>4 DEF ReadSource, Answered, api
<1>5. CASE EnsureStaging
  BY <1>p, <1>5 DEF EnsureStaging, Answered, NotApplied
<1>6. CASE CreateJob
  BY <1>p, <1>6 DEF CreateJob, Answered, NotApplied
<1>7. CASE ObserveJob
  BY <1>p, <1>7 DEF ObserveJob, api, Copies, JobStates
<1>8. CASE UpdateProgress
  BY <1>p, <1>8 DEF UpdateProgress, EndPass, NoResource
<1>9. CASE DropFailedJob
  BY <1>p, <1>9 DEF DropFailedJob, Answered, NotApplied
<1>10. CASE PersistCompletion
  BY <1>p, <1>10 DEF PersistCompletion, NotApplied, Conflict
<1>11. CASE DropJob
  BY <1>p, <1>11 DEF DropJob, Answered, NotApplied
<1>12. CASE DropStaging
  BY <1>p, <1>12 DEF DropStaging, Answered, NotApplied
<1>13. CASE Regrant
  BY <1>p, <1>13 DEF Regrant, Answered, NotApplied
<1>14. CASE MarkReady
  <2>1. UNCHANGED <<job, jobSeen, published, granted, copied>> /\ b' = NoResource /\ pc' = "idle"
    BY <1>p, <1>14 DEF MarkReady, EndPass
  <2>2. cr' = cr \/ cr' = [cr EXCEPT !.ready = TRUE, !.phase = b.phase]
    BY <1>p, <1>14 DEF MarkReady
  <2>3. pc = "ready"
    BY <1>p, <1>14 DEF MarkReady
  <2>4. cr'.phase = cr.phase /\ cr'.hold = cr.hold
    BY <1>p, <2>2, <2>3 DEF Resource
  <2>5. b'.phase = "none" /\ ~b'.ready
    BY <1>p, <2>1 DEF NoResource
  <2>6. cr.phase = "Completed"
    BY <1>p, <2>3
  <2> QED
    BY <1>p, <2>1, <2>2, <2>3, <2>4, <2>5, <2>6
<1>15. CASE FailPass
  BY <1>p, <1>15 DEF FailPass, EndPass, NoResource
<1>16. CASE MarkDeleting
  BY <1>p, <1>16 DEF MarkDeleting, EndPass, api, NoResource
<1>17. CASE StopJob
  BY <1>p, <1>17 DEF StopJob, Answered, NotApplied
<1>18. CASE StopStaging
  BY <1>p, <1>18 DEF StopStaging, Answered, NotApplied
<1>19. CASE Finalise
  <2>1. UNCHANGED <<job, jobSeen, copied>> /\ pc = "finalise"
    BY <1>p, <1>19 DEF Finalise
  <2>2. (pc' = "idle" /\ b' = NoResource) \/ (pc' = "fail" /\ b' = b)
    BY <1>p, <1>19 DEF Finalise, EndPass, NotApplied
  <2>3. cr' = cr \/ cr' = [cr EXCEPT !.exists = FALSE, !.ready = FALSE]
    BY <1>p, <1>19 DEF Finalise
  <2>4. cr'.phase = cr.phase /\ cr'.hold = cr.hold /\ (cr'.ready => cr.ready)
    BY <1>p, <2>3 DEF Resource
  <2>5. b' = NoResource => b'.phase = "none" /\ ~b'.ready
    BY DEF NoResource
  <2>6. (published' = FALSE /\ granted' = FALSE) \/ UNCHANGED <<published, granted>>
    BY <1>p, <1>19 DEF Finalise
  <2> QED
    BY <1>p, <2>1, <2>2, <2>3, <2>4, <2>5, <2>6
<1>20. CASE JobEnds
  BY <1>p, <1>20 DEF JobEnds, operatorVars
<1>21. CASE JobExpires
  BY <1>p, <1>21 DEF JobExpires, operatorVars
<1>22. CASE JobSync
  BY <1>p, <1>22 DEF JobSync, api
<1>23. CASE CacheSync
  BY <1>p, <1>23 DEF CacheSync, api
<1>24. CASE UserDeletes
  BY <1>p, <1>24 DEF UserDeletes
<1>25. CASE Patch
  BY <1>p, <1>25 DEF Patch, api
<1>26. CASE Crash
  BY <1>p, <1>26 DEF Crash, NoResource, api
<1>27. CASE UNCHANGED vars
  BY <1>p, <1>27 DEF vars
<1> QED
  BY <1>1, <1>2, <1>3, <1>4, <1>5, <1>6, <1>7, <1>8, <1>9, <1>10, <1>11, <1>12, <1>13,
     <1>14, <1>15, <1>16, <1>17, <1>18, <1>19, <1>20, <1>21, <1>22, <1>23, <1>24, <1>25,
     <1>26, <1>27 DEF Next, Operator, Environment

\* A new Bucket satisfies HeldInv.
LEMMA HeldInitially ==
  Init => HeldInv
BY DEF Init, HeldInv, NoResource, Cloning, Completing

\* Readers, Ready and a Secret that is held back wait for a copy of the source that
\* succeeded, whatever the passes read; and as long as no pass has worked from an
\* outdated Bucket, no copy runs beside them (ensureClone and the holds in
\* provisionCredentialsAndClone).
THEOREM NobodyEarly ==
  Spec => []HeldUntilCloned
<1> DEFINE I == Copies /\ BudgetOK /\ EarlyInv /\ (Prompt => HeldInv)
<1>1. Init => I
  BY LeftInitially, BudgetInitially, EarlyInitially, HeldInitially
<1>2. I /\ [Next]_vars => I'
  BY CopiesPreserved, BudgetShrinks, EarlyPreserved, HeldPreserved
<1>3. I => HeldUntilCloned
  BY DEF EarlyInv, HeldInv, HeldUntilCloned
<1> QED
  BY <1>1, <1>2, <1>3, PTL DEF Spec

----------------------------------------------------------------------------
(* The clone runs once. *)

\* Unless a finished Job expired, a copy that succeeded is still visible as a Job
\* or recorded, or the Bucket is being torn down.
OnceInv ==
  (copied /\ budget.expire = MaxExpiries) =>
    job = "succeeded" \/ cr.phase = "Completed" \/ (cr.deleting /\ pc \in Gone)

\* Every step of prompt passes preserves OnceInv: the operator removes a Job that succeeded only
\* after its success is recorded, or in a teardown.
LEMMA OncePreserved ==
  /\ Copies /\ BudgetOK /\ LeftInv /\ (Prompt => HeldInv) /\ (Prompt => OnceInv)
  /\ [Next]_vars
  => (Prompt => OnceInv)'
<1> SUFFICES ASSUME Copies, BudgetOK, LeftInv, Prompt => HeldInv, Prompt => OnceInv,
                    [Next]_vars, Prompt', copied', budget'.expire = MaxExpiries
             PROVE  job' = "succeeded" \/ cr'.phase = "Completed" \/ (cr'.deleting /\ pc' \in Gone)
  BY DEF OnceInv
<1>p. HeldInv /\ OnceInv /\ (StartPass => cache = cr)
  BY PromptBefore
<1>a. budget.expire = MaxExpiries
  BY BudgetShrinks, CloneAssumption DEF BudgetOK, Shrinks
<1>b. copied => job = "succeeded" \/ cr.phase = "Completed" \/ (cr.deleting /\ pc \in Gone)
  BY <1>p, <1>a DEF OnceInv
<1> USE DEF Copies, Resource, JobStates, LeftInv, HeldInv, Cloning, Completing, Gone
<1>1. CASE StartPass
  BY <1>p, <1>1, <1>b DEF StartPass, api
<1>2. CASE ApplyPolicy
  BY <1>p, <1>2, <1>b DEF ApplyPolicy, Answered, NotApplied, ClonePending
<1>3. CASE PublishSecret
  BY <1>p, <1>3, <1>b DEF PublishSecret, Answered, NotApplied
<1>4. CASE ReadSource
  BY <1>p, <1>4, <1>b DEF ReadSource, Answered, api
<1>5. CASE EnsureStaging
  BY <1>p, <1>5, <1>b DEF EnsureStaging, Answered, NotApplied
<1>6. CASE CreateJob
  BY <1>p, <1>6, <1>b DEF CreateJob, Answered, NotApplied
<1>7. CASE ObserveJob
  BY <1>p, <1>7, <1>b DEF ObserveJob, api
<1>8. CASE UpdateProgress
  BY <1>p, <1>8, <1>b DEF UpdateProgress, EndPass, NoResource
<1>9. CASE DropFailedJob
  BY <1>p, <1>9, <1>b DEF DropFailedJob, Answered, NotApplied
<1>10. CASE PersistCompletion
  BY <1>p, <1>10, <1>b DEF PersistCompletion, NotApplied, Conflict
<1>11. CASE DropJob
  BY <1>p, <1>11, <1>b DEF DropJob, Answered, NotApplied
<1>12. CASE DropStaging
  BY <1>p, <1>12, <1>b DEF DropStaging, Answered, NotApplied
<1>13. CASE Regrant
  BY <1>p, <1>13, <1>b DEF Regrant, Answered, NotApplied
<1>14. CASE MarkReady
  BY <1>p, <1>14, <1>b DEF MarkReady, EndPass, NoResource
<1>15. CASE FailPass
  BY <1>p, <1>15, <1>b DEF FailPass, EndPass, NoResource
<1>16. CASE MarkDeleting
  BY <1>p, <1>16, <1>b DEF MarkDeleting, EndPass, api, NoResource
<1>17. CASE StopJob
  BY <1>p, <1>17, <1>b DEF StopJob, Answered, NotApplied
<1>18. CASE StopStaging
  BY <1>p, <1>18, <1>b DEF StopStaging, Answered, NotApplied
<1>19. CASE Finalise
  BY <1>p, <1>19, <1>b DEF Finalise, NotApplied, EndPass, NoResource
<1>20. CASE JobEnds
  BY <1>p, <1>20, <1>b DEF JobEnds, operatorVars
<1>21. CASE JobExpires
  BY <1>p, <1>21, <1>a, CloneAssumption DEF JobExpires, BudgetOK, Spend
<1>22. CASE JobSync
  BY <1>p, <1>22, <1>b DEF JobSync, api
<1>23. CASE CacheSync
  BY <1>p, <1>23, <1>b DEF CacheSync, api
<1>24. CASE UserDeletes
  BY <1>p, <1>24, <1>b DEF UserDeletes
<1>25. CASE Patch
  BY <1>p, <1>25, <1>b DEF Patch, api
<1>26. CASE Crash
  BY <1>p, <1>26, <1>b DEF Crash, NoResource, api
<1>27. CASE UNCHANGED vars
  BY <1>p, <1>27, <1>b DEF vars
<1> QED
  BY <1>1, <1>2, <1>3, <1>4, <1>5, <1>6, <1>7, <1>8, <1>9, <1>10, <1>11, <1>12, <1>13,
     <1>14, <1>15, <1>16, <1>17, <1>18, <1>19, <1>20, <1>21, <1>22, <1>23, <1>24, <1>25,
     <1>26, <1>27 DEF Next, Operator, Environment

\* A step that starts a copy again finds the first one expired and unrecorded, or
\* comes after a pass that worked from an outdated Bucket; no step takes Completed
\* back.
LEMMA OneCopyStep ==
  /\ Copies /\ BudgetOK /\ EarlyInv /\ (Prompt => HeldInv) /\ (Prompt => OnceInv)
  /\ [Next]_vars
  => [OneCopy]_vars
<1> SUFFICES ASSUME Copies, BudgetOK, EarlyInv, Prompt => HeldInv, Prompt => OnceInv, Next
             PROVE  OneCopy
  OBVIOUS
<1> USE DEF Copies, Resource, JobStates, EarlyInv, Cloning, Completing, OneCopy, CopyStarts
<1>1. CASE StartPass
  BY <1>1 DEF StartPass, api
<1>2. CASE ApplyPolicy
  BY <1>2 DEF ApplyPolicy, Answered, NotApplied, ClonePending
<1>3. CASE PublishSecret
  BY <1>3 DEF PublishSecret, Answered, NotApplied
<1>4. CASE ReadSource
  BY <1>4 DEF ReadSource, Answered, api
<1>5. CASE EnsureStaging
  BY <1>5 DEF EnsureStaging, Answered, NotApplied
<1>6. CASE CreateJob
  BY <1>6, CloneAssumption DEF CreateJob, BudgetOK, HeldInv, OnceInv, Gone
<1>7. CASE ObserveJob
  BY <1>7 DEF ObserveJob, api, Copies, JobStates
<1>8. CASE UpdateProgress
  BY <1>8 DEF UpdateProgress, EndPass, NoResource
<1>9. CASE DropFailedJob
  BY <1>9 DEF DropFailedJob, Answered, NotApplied
<1>10. CASE PersistCompletion
  BY <1>10 DEF PersistCompletion, NotApplied, Conflict
<1>11. CASE DropJob
  BY <1>11 DEF DropJob, Answered, NotApplied
<1>12. CASE DropStaging
  BY <1>12 DEF DropStaging, Answered, NotApplied
<1>13. CASE Regrant
  BY <1>13 DEF Regrant, Answered, NotApplied
<1>14. CASE MarkReady
  BY <1>14 DEF MarkReady, EndPass, NoResource
<1>15. CASE FailPass
  BY <1>15 DEF FailPass, EndPass, NoResource
<1>16. CASE MarkDeleting
  BY <1>16 DEF MarkDeleting, EndPass, api, NoResource
<1>17. CASE StopJob
  BY <1>17 DEF StopJob, Answered, NotApplied
<1>18. CASE StopStaging
  BY <1>18 DEF StopStaging, Answered, NotApplied
<1>19. CASE Finalise
  BY <1>19 DEF Finalise, NotApplied, EndPass, NoResource
<1>20. CASE JobEnds
  BY <1>20 DEF JobEnds, operatorVars
<1>21. CASE JobExpires
  BY <1>21 DEF JobExpires, operatorVars
<1>22. CASE JobSync
  BY <1>22 DEF JobSync, api
<1>23. CASE CacheSync
  BY <1>23 DEF CacheSync, api
<1>24. CASE UserDeletes
  BY <1>24 DEF UserDeletes
<1>25. CASE Patch
  BY <1>25 DEF Patch, api
<1>26. CASE Crash
  BY <1>26 DEF Crash, NoResource, api
<1> QED
  BY <1>1, <1>2, <1>3, <1>4, <1>5, <1>6, <1>7, <1>8, <1>9, <1>10, <1>11, <1>12, <1>13,
     <1>14, <1>15, <1>16, <1>17, <1>18, <1>19, <1>20, <1>21, <1>22, <1>23, <1>24, <1>25,
     <1>26 DEF Next, Operator, Environment

\* As long as no pass has worked from an outdated Bucket, a second copy starts only
\* after the first one's Job expired unrecorded: no crash, conflict or failed call
\* causes it. Completed stays in the status whatever the passes read (completeClone
\* persists before it removes).
THEOREM RunsOnce ==
  Spec => CloneOnce
<1> DEFINE I == /\ Copies /\ BudgetOK /\ LeftInv /\ EarlyInv
                /\ (Prompt => HeldInv) /\ (Prompt => OnceInv)
<1>1. Init => I
  <2>1. Init => OnceInv
    BY DEF Init, OnceInv
  <2> QED
    BY <2>1, BudgetInitially, LeftInitially, EarlyInitially, HeldInitially
<1>2. I /\ [Next]_vars => I'
  BY CopiesPreserved, BudgetShrinks, LeftPreserved, EarlyPreserved, HeldPreserved, OncePreserved
<1>3. I /\ [Next]_vars => [OneCopy]_vars
  BY OneCopyStep
<1> QED
  BY <1>1, <1>2, <1>3, PTL DEF Spec, CloneOnce

----------------------------------------------------------------------------
(* The types of the whole state. *)

Flags ==
  /\ staging \in BOOLEAN /\ published \in BOOLEAN /\ granted \in BOOLEAN
  /\ wake \in BOOLEAN /\ stale \in BOOLEAN /\ copied \in BOOLEAN
  /\ pc \in Steps

\* The flags stay Booleans, and every outcome of a call leads to a step of a pass.
LEMMA FlagsPreserved ==
  Copies /\ Flags /\ [Next]_vars => Flags'
<1> SUFFICES ASSUME Copies, Flags, [Next]_vars PROVE Flags'
  OBVIOUS
<1> USE DEF Flags, Steps
<1>1. CASE StartPass
  BY <1>1 DEF StartPass, api
<1>2. CASE ApplyPolicy
  BY <1>2 DEF ApplyPolicy, Answered, NotApplied, ClonePending
<1>3. CASE PublishSecret
  BY <1>3 DEF PublishSecret, Answered, NotApplied
<1>4. CASE ReadSource
  BY <1>4 DEF ReadSource, Answered, api
<1>5. CASE EnsureStaging
  BY <1>5 DEF EnsureStaging, Answered, NotApplied
<1>6. CASE CreateJob
  BY <1>6 DEF CreateJob, Answered, NotApplied
<1>7. CASE ObserveJob
  BY <1>7 DEF ObserveJob, api, Copies, JobStates
<1>8. CASE UpdateProgress
  BY <1>8 DEF UpdateProgress, EndPass
<1>9. CASE DropFailedJob
  BY <1>9 DEF DropFailedJob, Answered, NotApplied
<1>10. CASE PersistCompletion
  BY <1>10 DEF PersistCompletion, NotApplied, Conflict
<1>11. CASE DropJob
  BY <1>11 DEF DropJob, Answered, NotApplied
<1>12. CASE DropStaging
  BY <1>12 DEF DropStaging, Answered, NotApplied
<1>13. CASE Regrant
  BY <1>13 DEF Regrant, Answered, NotApplied
<1>14. CASE MarkReady
  BY <1>14 DEF MarkReady, EndPass
<1>15. CASE FailPass
  BY <1>15 DEF FailPass, EndPass
<1>16. CASE MarkDeleting
  BY <1>16 DEF MarkDeleting, EndPass, api
<1>17. CASE StopJob
  BY <1>17 DEF StopJob, Answered, NotApplied
<1>18. CASE StopStaging
  BY <1>18 DEF StopStaging, Answered, NotApplied
<1>19. CASE Finalise
  BY <1>19 DEF Finalise, EndPass, NotApplied
<1>20. CASE JobEnds
  BY <1>20 DEF JobEnds, operatorVars
<1>21. CASE JobExpires
  BY <1>21 DEF JobExpires, operatorVars
<1>22. CASE JobSync
  BY <1>22 DEF JobSync, api
<1>23. CASE CacheSync
  BY <1>23 DEF CacheSync, api
<1>24. CASE UserDeletes
  BY <1>24 DEF UserDeletes
<1>25. CASE Patch
  BY <1>25 DEF Patch, api
<1>26. CASE Crash
  BY <1>26 DEF Crash, api
<1>27. CASE UNCHANGED vars
  BY <1>27 DEF vars
<1> QED
  BY <1>1, <1>2, <1>3, <1>4, <1>5, <1>6, <1>7, <1>8, <1>9, <1>10, <1>11, <1>12, <1>13,
     <1>14, <1>15, <1>16, <1>17, <1>18, <1>19, <1>20, <1>21, <1>22, <1>23, <1>24, <1>25,
     <1>26, <1>27 DEF Next, Operator, Environment

\* The state of the clone keeps its types: a pass is always at one of its calls,
\* and the phase in the status is one the CRD knows (ensureClone, completeClone).
THEOREM CloneTyped == Spec => []TypeOK
<1>1. Init => Copies /\ Flags /\ BudgetOK
  <2> SUFFICES ASSUME Init PROVE Copies /\ Flags /\ BudgetOK
    OBVIOUS
  <2>1. PICK hold \in Holds : cr = [NoResource EXCEPT !.exists = TRUE, !.hold = hold]
    BY DEF Init
  <2>2. hold \in BOOLEAN
    BY CloneAssumption
  <2>3. Copies
    BY <2>1, <2>2 DEF Init, Copies, Resource, NoResource, JobStates
  <2>4. Flags
    BY DEF Init, Flags, Steps
  <2>5. BudgetOK
    BY BudgetInitially
  <2> QED
    BY <2>3, <2>4, <2>5
<1>2. Copies /\ Flags /\ BudgetOK => TypeOK
  BY DEF Copies, Flags, BudgetOK, TypeOK
<1> QED
  BY <1>1, <1>2, CopiesPreserved, FlagsPreserved, BudgetShrinks, PTL DEF Spec

=============================================================================
