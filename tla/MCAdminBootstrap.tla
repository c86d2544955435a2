---------------------------- MODULE MCAdminBootstrap ----------------------------
EXTENDS AdminBootstrap

\* Calls fail and the process dies; the key is replaced by hand; listings lag.
AdminPlans ==
  [failures |-> [failures |-> 3, rotations |-> 1, lag |-> FALSE, lostWrites |-> FALSE],
   lag      |-> [failures |-> 2, rotations |-> 1, lag |-> TRUE, lostWrites |-> FALSE]]

\* The answer of one Secret write is lost.
LostWritePlans ==
  [lost |-> [failures |-> 1, rotations |-> 0, lag |-> FALSE, lostWrites |-> TRUE]]
==================================================================================
