--------------------------- MODULE IsolationPolicy ---------------------------
(***************************************************************************)
(* The isolation policy of a bucket (stackit/s3.go): the document the      *)
(* operator writes, what it recovers from one, and what it lets a          *)
(* principal do.                                                           *)
(*                                                                         *)
(* Principals are the URNs of credentials groups. A list of principals is  *)
(* a set: sanitizeReaderURNs collapses duplicates and sorts, so the        *)
(* document is determined by the set. Actions fall into three classes:     *)
(* reads (readerAllowedActions), the object writes and multipart           *)
(* management of the workload (the rest of workloadAllowedActions), and    *)
(* everything that manages the bucket.                                     *)
(***************************************************************************)

CONSTANTS Admin, NoGroup   \* the operator's own group; the empty URN

Actions == {"read", "write", "manage"}
WorkloadAllowedActions == {"read", "write"}
ReaderAllowedActions == {"read"}

\* Every statement denies: the principals listed, or with "except" all others,
\* lose every action that is not spared (NotAction; none is with Action "*").
Statement(sid, except, principals, spared) ==
  [sid |-> sid, except |-> except, principals |-> principals, spared |-> spared]

Sids == {"DenyAllExceptAdminAndWorkload", "WorkloadObjectsOnly", "GrantedReadersReadOnly"}
Statements(ps) ==
  [sid : Sids, except : BOOLEAN, principals : SUBSET ps, spared : SUBSET Actions]

\* The admin's and the bucket's own group never become readers: a Deny on them
\* would lock the operator out, or take the workload's writes away.
SanitizeReaderURNs(readers, workload) == readers \ {NoGroup, Admin, workload}

\* Mutant of BuildIsolationPolicy: the readers' own statement is left out.
BuildWithoutReaderLimits(workload, readers) ==
  {Statement("DenyAllExceptAdminAndWorkload", TRUE,
             {Admin, workload} \cup SanitizeReaderURNs(readers, workload), {}),
   Statement("WorkloadObjectsOnly", FALSE, {workload}, WorkloadAllowedActions)}

BuildIsolationPolicy(workload, readers) ==
  LET granted == SanitizeReaderURNs(readers, workload)
  IN  {Statement("DenyAllExceptAdminAndWorkload", TRUE, {Admin, workload} \cup granted, {}),
       Statement("WorkloadObjectsOnly", FALSE, {workload}, WorkloadAllowedActions)}
      \cup (IF granted = {} THEN {}
            ELSE {Statement("GrantedReadersReadOnly", FALSE, granted, ReaderAllowedActions)})

\* The single principal of the workload's statement, if the document has one. The
\* code takes the first statement of that Sid; a document of the operator has one.
WorkloadPrincipalFromPolicy(doc) ==
  LET named == UNION {st.principals : st \in {s \in doc : s.sid = "WorkloadObjectsOnly"}}
  IN  IF \E p \in named : named = {p} /\ p # NoGroup
        THEN CHOOSE p \in named : TRUE
        ELSE NoGroup

\* What the provider makes of a document: a group of the project may do what no
\* statement denies it, and everything where there is no document ({}).
Denies(st, p, action) ==
  /\ IF st.except THEN p \notin st.principals ELSE p \in st.principals
  /\ action \notin st.spared
Allows(doc, p, action) == \A st \in doc : ~Denies(st, p, action)
=============================================================================
