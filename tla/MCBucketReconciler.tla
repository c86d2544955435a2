----------------------- MODULE MCBucketReconciler -----------------------
(* The situations the runs take the reconciler through. *)
EXTENDS BucketReconciler

NoPlan ==
  [starts |-> {"new"}, failures |-> {}, maxFailures |-> 0, edits |-> {}, maxEdits |-> 0,
   disturbances |-> {}, maxDisturbances |-> 0, resync |-> FALSE, lags |-> {}]

\* Provisioning: one crash or failing call anywhere, with an informer that is up to
\* date when a pass starts; lagging informers; lagging reads of the provider.
\* Deletion: while the workload writes; of a bucket that is lost out of band; of
\* one whose name somebody else holds, takes or claims, while a pass runs too.
ReconcilerPlans ==
  [crashes |->
     [NoPlan EXCEPT !.starts = {"new", "legacy", "recreatable"},
                    !.failures = {"crash", "call"}, !.maxFailures = 1,
                    !.edits = {"rotate", "usage", "secret"}, !.maxEdits = 2],
   informers |->
     [NoPlan EXCEPT !.edits = {"rotate", "secret"}, !.maxEdits = 2,
                    !.lags = {"buckets", "secrets"}],
   retraction |->
     [NoPlan EXCEPT !.edits = {"rotate", "usage", "secret"}, !.maxEdits = 2,
                    !.disturbances = {"retract"}, !.maxDisturbances = 1,
                    !.lags = {"buckets"}],
   lag |->
     [NoPlan EXCEPT !.starts = {"new", "legacy", "recreatable"},
                    !.edits = {"secret"}, !.maxEdits = 1,
                    !.disturbances = {"group"}, !.maxDisturbances = 1,
                    !.resync = TRUE, !.lags = {"provider"}],
   teardown |->
     [NoPlan EXCEPT !.starts = {"new", "legacy"},
                    !.failures = {"crash", "call"}, !.maxFailures = 1,
                    !.edits = {"delete", "wipe", "data"}, !.maxEdits = 2,
                    !.lags = {"buckets"}],
   vanish |->
     [NoPlan EXCEPT !.starts = {"recreatable"},
                    !.failures = {"crash", "call"}, !.maxFailures = 1,
                    !.edits = {"spec"}, !.maxEdits = 2,
                    !.disturbances = {"bucket"}, !.maxDisturbances = 1,
                    !.resync = TRUE, !.lags = {"buckets"}],
   foreign |->
     [NoPlan EXCEPT !.starts = {"foreign", "recreatable"},
                    !.edits = {"delete", "wipe"}, !.maxEdits = 2,
                    !.disturbances = {"bucket", "bucket mid-pass", "foreign"},
                    !.maxDisturbances = 2, !.resync = TRUE],
   race |->
     [NoPlan EXCEPT !.starts = {"new"},
                    !.failures = {"call"}, !.maxFailures = 1,
                    !.edits = {"delete"}, !.maxEdits = 1,
                    !.disturbances = {"foreign", "key"}, !.maxDisturbances = 2]]

\* A rotation and a crash, with a pass that reads a stale Bucket.
DeadCredentialPlans ==
  [rotation |->
     [NoPlan EXCEPT !.starts = {"recreatable"}, !.failures = {"crash"}, !.maxFailures = 1,
                    !.edits = {"rotate"}, !.maxEdits = 1,
                    !.resync = TRUE, !.lags = {"buckets"}]]

\* The first Ready write conflicts with an edit and the next reads lag.
SecondGroupPlans ==
  [conflict |->
     [NoPlan EXCEPT !.edits = {"rotate"}, !.maxEdits = 1,
                    !.resync = TRUE, !.lags = {"provider"}]]
=========================================================================
