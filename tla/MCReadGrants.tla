----------------------------- MODULE MCReadGrants -----------------------------
(* The first two Buckets grant to each other; the third aims at the bucket     *)
(* name of the second.                                                         *)
EXTENDS ReadGrants

TwoNames == <<1, 2, 2>>
MutualGrants == <<{2}, {1}, {}>>

\* Users edit; calls fail while they do; somebody interferes; reads lag.
GrantPlans ==
  [edits    |-> [created |-> {1, 2}, edits |-> 2, failures |-> 0, disturbances |-> 0,
                 lag |-> FALSE],
   failures |-> [created |-> {1, 2}, edits |-> 1, failures |-> 1, disturbances |-> 0,
                 lag |-> FALSE],
   others   |-> [created |-> {1, 2, 3}, edits |-> 0, failures |-> 0, disturbances |-> 1,
                 lag |-> FALSE],
   lag      |-> [created |-> {1}, edits |-> 1, failures |-> 0, disturbances |-> 0,
                 lag |-> TRUE]]
===============================================================================
