----------------------------- MODULE MCBucketUsage -----------------------------
EXTENDS BucketUsage

\* Users edit while passes run; calls fail and the operator is redeployed.
UsagePlans ==
  [edits    |-> [edits |-> 2, writes |-> 0, failures |-> 0, provisions |-> 2],
   failures |-> [edits |-> 0, writes |-> 1, failures |-> 2, provisions |-> 2]]
================================================================================
