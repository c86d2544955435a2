-------------------------- MODULE ReadGrantsProofs --------------------------
(***************************************************************************)
(* What an isolation policy lets a principal do, and that the passes of    *)
(* the controller keep the promise of ReadAccess, for any number of        *)
(* Buckets, names and groups, any edits and failures, and lagging reads.   *)
(*                                                                         *)
(* The refinement needs to know whose group ends up in a policy. Belonging *)
(* says that whatever a bucket attributes - by tags or by policy, now or   *)
(* in a lagging read - belongs to the Bucket that owns it; Named, that no  *)
(* copy of a Bucket holds a grant it was not given; Working, what a pass   *)
(* under way can rely on. That no reader is shut out in between needs the  *)
(* life cycle of a Bucket as well (Alive, Settled).                        *)
(***************************************************************************)
EXTENDS ReadGrants, TLAPS

----------------------------------------------------------------------------
(* The policy document. *)

\* The statements of the document, whether or not there are readers.
LEMMA PolicyStatements ==
  ASSUME NEW workload, NEW readers
  PROVE  LET granted == SanitizeReaderURNs(readers, workload)
             doc == BuildIsolationPolicy(workload, readers)
         IN  /\ Statement("DenyAllExceptAdminAndWorkload", TRUE,
                          {Admin, workload} \cup granted, {}) \in doc
             /\ Statement("WorkloadObjectsOnly", FALSE, {workload}, WorkloadAllowedActions) \in doc
             /\ granted # {} =>
                  Statement("GrantedReadersReadOnly", FALSE, granted, ReaderAllowedActions) \in doc
             /\ \A st \in doc :
                  \/ st = Statement("DenyAllExceptAdminAndWorkload", TRUE,
                                    {Admin, workload} \cup granted, {})
                  \/ st = Statement("WorkloadObjectsOnly", FALSE, {workload},
                                    WorkloadAllowedActions)
                  \/ granted # {} /\ st = Statement("GrantedReadersReadOnly", FALSE, granted,
                                                    ReaderAllowedActions)
BY DEF BuildIsolationPolicy

\* The operator is denied nothing, whoever is named as a reader: no list of
\* readers, also one that names the admin group, locks it out (the exclusion in
\* sanitizeReaderURNs).
THEOREM AdminNeverDenied ==
  ASSUME NEW workload, NEW readers, NEW action, workload # Admin
  PROVE  Allows(BuildIsolationPolicy(workload, readers), Admin, action)
<1> DEFINE granted == SanitizeReaderURNs(readers, workload)
<1> SUFFICES ASSUME NEW st \in BuildIsolationPolicy(workload, readers)
             PROVE  ~Denies(st, Admin, action)
  BY DEF Allows
<1>1. Admin \notin granted
  BY DEF SanitizeReaderURNs
<1>2. CASE st = Statement("DenyAllExceptAdminAndWorkload", TRUE, {Admin, workload} \cup granted, {})
  BY <1>2 DEF Statement, Denies
<1>3. CASE st = Statement("WorkloadObjectsOnly", FALSE, {workload}, WorkloadAllowedActions)
  BY <1>3 DEF Statement, Denies
<1>4. CASE st = Statement("GrantedReadersReadOnly", FALSE, granted, ReaderAllowedActions)
  BY <1>1, <1>4 DEF Statement, Denies
<1> QED
  BY <1>2, <1>3, <1>4, PolicyStatements

\* The workload keeps exactly its object operations, also when it is named as a
\* reader of its own bucket, which would take its writes away.
THEOREM WorkloadObjectsOnly ==
  ASSUME NEW workload, NEW readers, NEW action \in Actions
  PROVE  Allows(BuildIsolationPolicy(workload, readers), workload, action)
           <=> action \in WorkloadAllowedActions
<1> DEFINE granted == SanitizeReaderURNs(readers, workload)
           self    == Statement("WorkloadObjectsOnly", FALSE, {workload}, WorkloadAllowedActions)
<1>1. workload \notin granted
  BY DEF SanitizeReaderURNs
<1>2. Denies(self, workload, action) <=> action \notin WorkloadAllowedActions
  BY DEF Statement, Denies
<1>3. ~Denies(Statement("DenyAllExceptAdminAndWorkload", TRUE, {Admin, workload} \cup granted, {}),
              workload, action)
  BY DEF Statement, Denies
<1>4. ~Denies(Statement("GrantedReadersReadOnly", FALSE, granted, ReaderAllowedActions),
              workload, action)
  BY <1>1 DEF Statement, Denies
<1> QED
  BY <1>2, <1>3, <1>4, PolicyStatements DEF Allows

\* A granted reader reads and does nothing else, and every other group of the
\* project is shut out although the provider's default is open.
THEOREM OthersReadIfGranted ==
  ASSUME NEW workload, NEW readers, NEW p, NEW action \in Actions,
         p \notin {Admin, NoGroup, workload}
  PROVE  Allows(BuildIsolationPolicy(workload, readers), p, action)
           <=> p \in readers /\ action \in ReaderAllowedActions
<1> DEFINE granted == SanitizeReaderURNs(readers, workload)
           all     == Statement("DenyAllExceptAdminAndWorkload", TRUE,
                                {Admin, workload} \cup granted, {})
           limit   == Statement("GrantedReadersReadOnly", FALSE, granted, ReaderAllowedActions)
<1>1. p \in granted <=> p \in readers
  BY DEF SanitizeReaderURNs
<1>2. Denies(all, p, action) <=> p \notin granted
  BY DEF Statement, Denies
<1>3. Denies(limit, p, action) <=> p \in granted /\ action \notin ReaderAllowedActions
  BY DEF Statement, Denies
<1>4. ~Denies(Statement("WorkloadObjectsOnly", FALSE, {workload}, WorkloadAllowedActions), p, action)
  BY DEF Statement, Denies
<1> QED
  BY <1>1, <1>2, <1>3, <1>4, PolicyStatements DEF Allows

\* Attribution by policy is sound: the document names its own workload group to a
\* pass that reads it back, whoever its readers are (WorkloadPrincipalFromPolicy).
THEOREM PrincipalRecovered ==
  ASSUME NEW workload, NEW readers, workload # NoGroup
  PROVE  WorkloadPrincipalFromPolicy(BuildIsolationPolicy(workload, readers)) = workload
<1> DEFINE doc   == BuildIsolationPolicy(workload, readers)
           found == UNION {st.principals : st \in {s \in doc : s.sid = "WorkloadObjectsOnly"}}
           self  == Statement("WorkloadObjectsOnly", FALSE, {workload}, WorkloadAllowedActions)
<1>1. self \in doc /\ self.sid = "WorkloadObjectsOnly" /\ self.principals = {workload}
  BY PolicyStatements DEF Statement
<1>2. ASSUME NEW st \in doc, st.sid = "WorkloadObjectsOnly" PROVE st = self
  <2> DEFINE granted == SanitizeReaderURNs(readers, workload)
             all     == Statement("DenyAllExceptAdminAndWorkload", TRUE,
                                  {Admin, workload} \cup granted, {})
             limit   == Statement("GrantedReadersReadOnly", FALSE, granted, ReaderAllowedActions)
  <2>1. st = all \/ st = self \/ st = limit
    BY PolicyStatements
  <2>2. all.sid = "DenyAllExceptAdminAndWorkload" /\ limit.sid = "GrantedReadersReadOnly"
    BY DEF Statement
  <2> HIDE DEF all, limit, self
  <2> QED
    BY <1>2, <2>1, <2>2
<1>3. found = {workload}
  BY <1>1, <1>2
<1> QED
  BY <1>3 DEF WorkloadPrincipalFromPolicy

----------------------------------------------------------------------------
(* The inductive invariant. *)

\* g is a group of the Bucket n, or none.
Belongs(g, n) == g = NoGroup \/ (g \in GroupIds /\ OwnerOf(g) = n)

\* What a bucket attributes belongs to its owner, in a lagging read too.
Belonging ==
  \A m \in Names :
    /\ Belongs(group[m], own[m])
    /\ Belongs(seen[m].group, own[m])
    /\ Belongs(WorkloadPrincipalFromPolicy(policy[m]), own[m])
    /\ Belongs(WorkloadPrincipalFromPolicy(seen[m].policy), own[m])

\* Every copy of a Bucket holds grants its user has made.
Named ==
  \A n \in Crs :
    /\ InitialGrants[n] \subseteq named[n]
    /\ cr[n].grants \subseteq named[n]
    /\ cache[n].grants \subseteq named[n]

\* A pass works on a Bucket; between Provision and the policy it owns its bucket,
\* knows a group of its own, and has collected groups of its grantees.
Working ==
  /\ pass.pc # "idle" => pass.of \in Crs /\ pass.obj.grants \subseteq named[pass.of]
  /\ pass.pc = "provision" => pass.readers = {}
  /\ pass.pc \in {"resolve", "policy"} =>
       /\ own[NameOf[pass.of]] = pass.of
       /\ pass.obj.urn \in GroupIds /\ OwnerOf(pass.obj.urn) = pass.of
       /\ pass.todo \subseteq pass.obj.grants \ {pass.of}
       /\ \A g \in pass.readers : OwnerOf(g) \in pass.obj.grants \ {pass.of}
  /\ pass.pc = "policy" => pass.todo = {}

\* A bucket outlives neither its Bucket nor the informer's knowledge of it: the
\* finalizer goes last, and a Bucket is provisioned from the informer's copy.
Alive ==
  /\ \A n \in Crs :
       /\ own[NameOf[n]] = n => cr[n].exists /\ cache[n].exists
       /\ cr[n].exists /\ cache[n].exists /\ cache[n].deleting => cr[n].deleting
       /\ ~cr[n].exists /\ cache[n].exists => cache[n].deleting
  /\ pass.pc = "provision" => cr[pass.of].exists /\ cache[pass.of].exists
  /\ pass.pc = "finalize" => own[NameOf[pass.of]] # pass.of
  /\ (pass.pc \in {"release", "remove", "finalize"} /\ ~pass.stale) =>
       cr[pass.of].exists /\ cr[pass.of].deleting /\ cache[pass.of].deleting

\* A grantee whose group can be found.
Standing(r) ==
  /\ cr[r].exists /\ ~cr[r].deleting
  /\ own[NameOf[r]] = r /\ group[NameOf[r]] \in live

\* With reads that do not lag, the grants a pass is done with are among its readers.
Settled ==
  (~Lag /\ pass.pc \in {"resolve", "policy"}) =>
    \A r \in pass.obj.grants \ (pass.todo \cup {pass.of}) :
      Standing(r) => group[NameOf[r]] \in pass.readers

IInv == TypeOK /\ Belonging /\ Named /\ Working /\ Alive /\ Settled

\* A document that was never written names nobody.
LEMMA EmptyPolicy == WorkloadPrincipalFromPolicy({}) = NoGroup
BY DEF WorkloadPrincipalFromPolicy

LEMMA PolicyTyped ==
  ASSUME NEW w \in GroupIds, NEW rs \in SUBSET GroupIds
  PROVE  BuildIsolationPolicy(w, rs) \in SUBSET Statements(GroupIds \cup {Admin})
<1> DEFINE granted == SanitizeReaderURNs(rs, w)
<1>1. granted \in SUBSET GroupIds
  BY DEF SanitizeReaderURNs
<1>2. Statement("DenyAllExceptAdminAndWorkload", TRUE, {Admin, w} \cup granted, {})
        \in Statements(GroupIds \cup {Admin})
  BY <1>1 DEF Statement, Statements, Sids
<1>3. Statement("WorkloadObjectsOnly", FALSE, {w}, WorkloadAllowedActions)
        \in Statements(GroupIds \cup {Admin})
  BY DEF Statement, Statements, Sids, WorkloadAllowedActions, Actions
<1>4. Statement("GrantedReadersReadOnly", FALSE, granted, ReaderAllowedActions)
        \in Statements(GroupIds \cup {Admin})
  BY <1>1 DEF Statement, Statements, Sids, ReaderAllowedActions, Actions
<1> QED
  BY <1>2, <1>3, <1>4, PolicyStatements

LEMMA Constants ==
  /\ NoOwner \notin Crs
  /\ \A n \in Crs : NameOf[n] \in Names
  /\ \A g \in GroupIds : OwnerOf(g) \in Crs /\ g # NoGroup /\ g # Admin
  /\ \A n \in Crs, i \in 1..MaxGroups : <<n, i>> \in GroupIds /\ OwnerOf(<<n, i>>) = n
BY GrantsAssumption DEF NoOwner, Crs, Names, GroupIds, OwnerOf

\* What a pass is, and the Buckets it reads and leaves behind.
Passes == [of : Crs \cup {NoOwner}, pc : Steps, obj : Object, stale : BOOLEAN,
           todo : SUBSET Crs, readers : SUBSET GroupIds, granted : SUBSET Crs]
Budgets == [plan : DOMAIN Plans, edit : Nat, fail : Nat, disturb : Nat]

LEMMA ObjectsTyped ==
  /\ NoObject \in Object /\ ~NoObject.exists /\ ~NoObject.deleting /\ NoObject.grants = {}
  /\ \A n \in Crs : /\ NewObject(n) \in Object /\ NewObject(n).exists
                      /\ ~NewObject(n).deleting /\ NewObject(n).grants = InitialGrants[n]
BY GrantsAssumption DEF NoObject, NewObject, Object

LEMMA IdleTyped == Idle \in Passes /\ Idle.pc = "idle" /\ Idle.readers = {}
BY ObjectsTyped DEF Idle, Passes, Steps

LEMMA FaultTyped ==
  ASSUME budget \in Budgets, Fault PROVE budget' \in Budgets /\ budget'.plan = budget.plan
BY DEF Budgets, Fault

LEMMA InitHolds == Init => IInv
<1> SUFFICES ASSUME Init PROVE IInv
  OBVIOUS
<1> USE DEF Init
<1>1. PICK plan \in DOMAIN Plans :
        /\ cr = [n \in Crs |-> IF n \in Plans[plan].created THEN NewObject(n) ELSE NoObject]
        /\ budget = [plan |-> plan, edit |-> Plans[plan].edits, fail |-> Plans[plan].failures,
                     disturb |-> Plans[plan].disturbances]
  OBVIOUS
<1>2. cr \in [Crs -> Object] /\ \A n \in Crs : /\ cr[n].grants \subseteq InitialGrants[n]
                                              /\ ~cr[n].deleting
  BY <1>1, ObjectsTyped
<1>3. budget \in Budgets
  BY <1>1, GrantsAssumption DEF Plan, Budgets
<1>4. TypeOK
  <2>1. wake \in [Crs -> BOOLEAN]
    BY <1>2 DEF Object
  <2>2. made \in [Crs -> 0..MaxGroups]
    BY GrantsAssumption
  <2> QED
    BY <1>2, <1>3, <2>1, <2>2, IdleTyped, GrantsAssumption DEF TypeOK, Budgets, Passes
<1>5. Belonging
  BY EmptyPolicy DEF Belonging, Belongs
<1>6. Named /\ Working
  BY <1>2, IdleTyped DEF Named, Working
<1>7. Alive
  BY <1>2, IdleTyped, Constants DEF Alive
<1>8. Settled
  BY IdleTyped DEF Settled
<1> QED
  BY <1>4, <1>5, <1>6, <1>7, <1>8 DEF IInv

LEMMA StartPassStep == ASSUME IInv, NEW n \in Crs, StartPass(n) PROVE IInv'
<1>1. /\ UNCHANGED <<cr, cache, own, group, policy, seen, live, made, named, budget>>
      /\ wake' \in [Crs -> BOOLEAN] /\ pass.pc = "idle"
  BY DEF IInv, TypeOK, StartPass, At, apiVars, provVars
<1>2. cache[n] \in Object
  BY DEF IInv, TypeOK
<1>3. CASE ~cache[n].exists
  <2>1. pass' = pass
    BY <1>3 DEF StartPass
  <2>2. TypeOK'
    BY <1>1, <2>1 DEF IInv, TypeOK
  <2>3. Belonging' /\ Named' /\ Working'
    BY <1>1, <2>1 DEF IInv, Belonging, Named, Working
  <2>4. Alive' /\ Settled'
    BY <1>1, <2>1 DEF IInv, Alive, Settled
  <2> QED
    BY <2>2, <2>3, <2>4 DEF IInv
<1>4. CASE cache[n].exists
  <2>1. /\ pass' \in Passes /\ pass'.of = n /\ pass'.obj = cache[n] /\ pass'.readers = {}
        /\ \/ pass'.pc = "provision" /\ ~cache[n].deleting
           \/ pass'.pc = "release" /\ cache[n].deleting
        /\ ~pass'.stale => cache[n] = cr[n]
    <3> DEFINE step == IF cache[n].deleting THEN "release" ELSE "provision"
               old  == cache[n] # cr[n]
    <3>1. pass' = [Idle EXCEPT !.of = n, !.pc = step, !.obj = cache[n], !.stale = old]
      BY <1>4 DEF StartPass
    <3>2. step \in Steps /\ old \in BOOLEAN
      BY DEF Steps
    <3>3. \/ step = "provision" /\ ~cache[n].deleting
          \/ step = "release" /\ cache[n].deleting
      BY <1>2 DEF Object
    <3>4. ~old => cache[n] = cr[n]
      OBVIOUS
    <3> HIDE DEF step, old
    <3>5. /\ pass' \in Passes /\ pass'.of = n /\ pass'.obj = cache[n] /\ pass'.readers = {}
          /\ pass'.pc = step /\ pass'.stale = old
      BY <1>2, <3>1, <3>2, IdleTyped DEF Passes
    <3> QED
      BY <3>3, <3>4, <3>5
  <2>2. TypeOK'
    BY <1>1, <2>1 DEF IInv, TypeOK, Passes
  <2>3. Belonging' /\ Named'
    BY <1>1 DEF IInv, Belonging, Named
  <2>4. Working'
    BY <1>1, <2>1 DEF IInv, Named, Working
  <2>5. Alive'
    BY <1>1, <1>4, <2>1 DEF IInv, Alive
  <2>6. Settled'
    BY <2>1 DEF Settled
  <2> QED
    BY <2>2, <2>3, <2>4, <2>5, <2>6 DEF IInv
<1> QED
  BY <1>3, <1>4

\* A pass that goes on keeps what it has; one that ends leaves nothing to say.
LEMMA GotoTyped ==
  ASSUME pass \in Passes, NEW step \in Steps, Goto(step)
  PROVE  /\ pass' \in Passes /\ pass'.pc = step /\ pass'.of = pass.of /\ pass'.obj = pass.obj
         /\ pass'.stale = pass.stale /\ pass'.todo = pass.todo /\ pass'.readers = pass.readers
BY DEF Passes, Goto

LEMMA EndTyped ==
  ASSUME TypeOK, NEW requeue \in BOOLEAN, EndPass(requeue), pass.of \in Crs
  PROVE  /\ wake' \in [Crs -> BOOLEAN] /\ pass' \in Passes
         /\ pass'.pc = "idle" /\ Working' /\ Settled'
<1>1. pass' \in Passes /\ pass'.pc = "idle"
  BY IdleTyped DEF EndPass
<1>2. wake' \in [Crs -> BOOLEAN]
  BY DEF EndPass, TypeOK
<1> QED
  BY <1>1, <1>2 DEF Working, Settled

\* A bucket without an owner attributes nothing.
LEMMA BelongsNobody == ASSUME NEW g, Belongs(g, NoOwner) PROVE g = NoGroup
BY Constants DEF Belongs

LEMMA ResolvingTyped ==
  ASSUME pass \in Passes, NEW step \in Steps, NEW g \in GroupIds, NEW rs \in SUBSET Crs,
         pass' = [pass EXCEPT !.pc = step, !.obj.urn = g, !.todo = rs]
  PROVE  /\ pass' \in Passes /\ pass'.pc = step /\ pass'.of = pass.of
         /\ pass'.obj.urn = g /\ pass'.obj.grants = pass.obj.grants
         /\ pass'.stale = pass.stale /\ pass'.todo = rs /\ pass'.readers = pass.readers
<1>1. pass.obj \in Object /\ pass'.obj = [pass.obj EXCEPT !.urn = g]
  BY DEF Passes
<1>2. pass'.obj \in Object /\ pass'.obj.urn = g /\ pass'.obj.grants = pass.obj.grants
  BY <1>1 DEF Object
<1> QED
  BY <1>2 DEF Passes

LEMMA ProvisionStep == ASSUME IInv, Provision PROVE IInv'
<1> DEFINE n    == pass.of
           m    == NameOf[n]
           kept == own[m] = n /\ group[m] \in live
           todo == pass.obj.grants \ {n}
<1>1. /\ UNCHANGED <<cr, cache, policy, seen, wake, named, budget>> /\ pass.pc = "provision"
      /\ pass \in Passes /\ n \in Crs /\ m \in Names /\ pass.readers = {}
  BY Constants DEF IInv, TypeOK, Working, Provision, At, apiVars, provVars, Goto, Passes
<1>2. CASE own[m] \notin {NoOwner, n} /\ Goto("fault") /\ UNCHANGED provVars
  <2>1. /\ pass' \in Passes /\ pass'.pc = "fault" /\ pass'.of = n
        /\ pass'.obj = pass.obj /\ pass'.stale = pass.stale
    BY <1>1, <1>2, GotoTyped DEF Steps
  <2>2. UNCHANGED <<own, group, live, made>>
    BY <1>2 DEF provVars
  <2>3. TypeOK' /\ Belonging' /\ Named'
    BY <1>1, <2>1, <2>2 DEF IInv, TypeOK, Passes, Belonging, Named
  <2>4. Working' /\ Alive' /\ Settled'
    BY <1>1, <2>1, <2>2 DEF IInv, Working, Alive, Settled
  <2> QED
    BY <2>3, <2>4 DEF IInv
<1>3. CASE /\ own[m] \in {NoOwner, n}
           /\ kept \/ made[n] < MaxGroups
           /\ own' = [own EXCEPT ![m] = n]
           /\ group' = IF kept THEN group ELSE [group EXCEPT ![m] = <<n, made[n] + 1>>]
           /\ live' = live \cup {group'[m]}
           /\ made' = IF kept THEN made ELSE [made EXCEPT ![n] = @ + 1]
           /\ pass' = [pass EXCEPT !.pc = Resolving(todo), !.obj.urn = group'[m], !.todo = todo]
  <2>1. group'[m] \in GroupIds /\ OwnerOf(group'[m]) = n
    <3>1. CASE kept
      BY <1>1, <1>3, <3>1, Constants DEF IInv, TypeOK, Belonging, Belongs
    <3>2. CASE ~kept
      <4>1. made[n] + 1 \in 1..MaxGroups
        BY <1>1, <1>3, <3>2, GrantsAssumption DEF IInv, TypeOK
      <4>2. group'[m] = <<n, made[n] + 1>>
        BY <1>1, <1>3, <3>2 DEF IInv, TypeOK
      <4> QED
        BY <1>1, <4>1, <4>2, Constants
    <3> QED
      BY <3>1, <3>2
  <2>2. \A k \in Names \ {m} : group'[k] = group[k] /\ own'[k] = own[k]
    BY <1>1, <1>3 DEF IInv, TypeOK
  <2>3. own'[m] = n
    BY <1>1, <1>3 DEF IInv, TypeOK
  <2>4. /\ pass' \in Passes /\ pass'.pc \in {"resolve", "policy"} /\ pass'.of = n
        /\ pass'.obj.urn = group'[m] /\ pass'.obj.grants = pass.obj.grants
        /\ pass'.stale = pass.stale /\ pass'.todo = todo /\ pass'.readers = {}
        /\ pass'.pc = "policy" => pass'.todo = {}
    <3>1. Resolving(todo) \in {"resolve", "policy"} /\ (Resolving(todo) = "policy" => todo = {})
      BY DEF Resolving
    <3>2. todo \in SUBSET Crs
      BY <1>1 DEF Passes, Object
    <3> HIDE DEF todo, m, n
    <3>3. Resolving(todo) \in Steps
      BY <3>1 DEF Steps
    <3> QED
      BY <1>1, <1>3, <2>1, <3>1, <3>2, <3>3, ResolvingTyped DEF n
  <2>5. TypeOK'
    <3>1. made' \in [Crs -> 0..MaxGroups]
      BY <1>1, <1>3, GrantsAssumption DEF IInv, TypeOK
    <3>2. own' \in [Names -> Crs \cup {NoOwner}] /\ live' \subseteq GroupIds
      BY <1>1, <1>3, <2>1 DEF IInv, TypeOK
    <3>3. group' \in [Names -> GroupIds \cup {NoGroup}]
      BY <1>1, <1>3, <2>1 DEF IInv, TypeOK
    <3> QED
      BY <1>1, <2>4, <3>1, <3>2, <3>3 DEF IInv, TypeOK, Passes
  <2>6. Belonging'
    <3>1. ASSUME NEW g, Belongs(g, own[m]) PROVE Belongs(g, n)
      BY <1>3, <3>1, BelongsNobody DEF Belongs
    <3>2. Belongs(group'[m], n)
      BY <2>1 DEF Belongs
    <3>3. ASSUME NEW k \in Names
          PROVE  /\ Belongs(group'[k], own'[k]) /\ Belongs(seen[k].group, own'[k])
                 /\ Belongs(WorkloadPrincipalFromPolicy(policy[k]), own'[k])
                 /\ Belongs(WorkloadPrincipalFromPolicy(seen[k].policy), own'[k])
      BY <1>1, <2>2, <2>3, <3>1, <3>2 DEF IInv, Belonging
    <3> QED
      BY <1>1, <3>3 DEF Belonging
  <2>7. Named'
    BY <1>1 DEF IInv, Named
  <2>8. Working'
    BY <1>1, <2>1, <2>3, <2>4 DEF IInv, Working
  <2>9. Alive'
    BY <1>1, <2>2, <2>3, <2>4, Constants DEF IInv, Alive
  <2>10. Settled'
    BY <1>1, <2>4 DEF Settled
  <2> QED
    BY <2>5, <2>6, <2>7, <2>8, <2>9, <2>10 DEF IInv
<1> QED
  BY <1>1, <1>2, <1>3 DEF Provision

\* Whichever state a read shows, it attributes groups of the owner only.
LEMMA ReadsBelong ==
  ASSUME IInv, NEW m \in Names
  PROVE  /\ \A tag \in TagReads(m) : Belongs(tag, own[m])
         /\ \A doc \in PolicyReads(m) : Belongs(WorkloadPrincipalFromPolicy(doc), own[m])
BY DEF IInv, Belonging, TagReads, PolicyReads

\* resolveWorkloadGroup finds a live group of that very Bucket or none, and the one
\* the tags name if it is alive.
LEMMA GroupFound ==
  ASSUME IInv, NEW r \in Crs, NEW tag \in TagReads(NameOf[r]), NEW doc \in PolicyReads(NameOf[r])
  PROVE  LET g == GroupFromBucket(r, tag, doc)
         IN  /\ g # NoGroup => g \in live /\ OwnerOf(g) = r /\ own[NameOf[r]] = r
             /\ own[NameOf[r]] = r /\ tag \in live => g = tag
<1> DEFINE w == WorkloadPrincipalFromPolicy(doc)
           g == GroupFromBucket(r, tag, doc)
<1>1. Belongs(tag, own[NameOf[r]]) /\ Belongs(w, own[NameOf[r]])
  BY ReadsBelong, Constants
<1>2. live \subseteq GroupIds /\ NoGroup \notin live
  BY Constants DEF IInv, TypeOK
<1>3. g = IF own[NameOf[r]] # r \/ {tag, w} \cap live = {} THEN NoGroup
          ELSE IF tag \in live THEN tag ELSE w
  BY DEF GroupFromBucket
<1> HIDE DEF w, g
<1>4. g # NoGroup => g \in live /\ own[NameOf[r]] = r /\ (g = tag \/ g = w)
  BY <1>3
<1>5. own[NameOf[r]] = r /\ tag \in live => g = tag
  BY <1>3
<1> QED
  BY <1>1, <1>2, <1>4, <1>5 DEF Belongs, g

LEMMA CollectedTyped ==
  ASSUME pass \in Passes, NEW step \in Steps, NEW todo \in SUBSET Crs,
         NEW rs \in SUBSET GroupIds, NEW gs \in SUBSET Crs,
         pass' = [pass EXCEPT !.pc = step, !.todo = todo, !.readers = @ \cup rs,
                              !.granted = @ \cup gs]
  PROVE  /\ pass' \in Passes /\ pass'.pc = step /\ pass'.of = pass.of /\ pass'.obj = pass.obj
         /\ pass'.stale = pass.stale /\ pass'.todo = todo
         /\ pass'.readers = pass.readers \cup rs
BY DEF Passes

LEMMA ResolveStep == ASSUME IInv, ResolveGrant PROVE IInv'
<1> DEFINE g(r, tag, doc) == GroupFromBucket(r, tag, doc)
           found(r, tag, doc, owned) ==
             cache[r].exists /\ ~cache[r].deleting /\ owned /\ g(r, tag, doc) # NoGroup
<1>0. PICK r \in pass.todo :
        \E tag \in TagReads(NameOf[r]), doc \in PolicyReads(NameOf[r]), owned \in BOOLEAN :
          /\ owned \/ tag = NoGroup
          /\ group' = IF found(r, tag, doc, owned) /\ g(r, tag, doc) # tag
                        THEN [group EXCEPT ![NameOf[r]] = g(r, tag, doc)] ELSE group
          /\ pass' = [pass EXCEPT
               !.pc = Resolving(pass.todo \ {r}),
               !.todo = @ \ {r},
               !.readers = @ \cup (IF found(r, tag, doc, owned) THEN {g(r, tag, doc)} ELSE {}),
               !.granted = @ \cup (IF found(r, tag, doc, owned) THEN {r} ELSE {})]
  BY DEF ResolveGrant
<1>1. PICK tag \in TagReads(NameOf[r]), doc \in PolicyReads(NameOf[r]), owned \in BOOLEAN :
        /\ owned \/ tag = NoGroup
        /\ group' = IF found(r, tag, doc, owned) /\ g(r, tag, doc) # tag
                      THEN [group EXCEPT ![NameOf[r]] = g(r, tag, doc)] ELSE group
        /\ pass' = [pass EXCEPT
             !.pc = Resolving(pass.todo \ {r}),
             !.todo = @ \ {r},
             !.readers = @ \cup (IF found(r, tag, doc, owned) THEN {g(r, tag, doc)} ELSE {}),
             !.granted = @ \cup (IF found(r, tag, doc, owned) THEN {r} ELSE {})]
  BY <1>0
<1> DEFINE f == found(r, tag, doc, owned)
           h == g(r, tag, doc)
           m == NameOf[r]
<1>2. /\ UNCHANGED <<cr, cache, own, policy, seen, live, made, wake, named, budget>>
      /\ pass.pc = "resolve" /\ pass \in Passes
      /\ pass.of \in Crs /\ pass.todo \in SUBSET Crs /\ r \in Crs /\ m \in Names
      /\ r \in pass.obj.grants \ {pass.of}
  <2>1. pass.pc = "resolve" /\ pass \in Passes
    BY DEF ResolveGrant, At, IInv, TypeOK, Passes
  <2>2. pass.todo \subseteq pass.obj.grants \ {pass.of} /\ pass.of \in Crs
    BY <2>1 DEF IInv, Working
  <2>3. pass.todo \in SUBSET Crs
    BY <2>1 DEF Passes
  <2>4. UNCHANGED <<cr, cache, own, policy, seen, live, made, wake, named, budget>>
    BY DEF ResolveGrant, apiVars
  <2> QED
    BY <1>1, <2>1, <2>2, <2>3, <2>4, Constants
<1>3. /\ h # NoGroup => h \in live /\ OwnerOf(h) = r /\ own[m] = r
      /\ own[m] = r /\ tag \in live => h = tag
  BY <1>1, <1>2, GroupFound
<1>4. f \in BOOLEAN /\ (f <=> cache[r].exists /\ ~cache[r].deleting /\ owned /\ h # NoGroup)
  OBVIOUS
<1>5. live \subseteq GroupIds /\ NoGroup \notin live
  BY Constants DEF IInv, TypeOK
<1> HIDE DEF f, h, m, g, found
<1>6. /\ pass' \in Passes /\ pass'.pc \in {"resolve", "policy"} /\ pass'.of = pass.of
      /\ pass'.obj = pass.obj /\ pass'.stale = pass.stale /\ pass'.todo = pass.todo \ {r}
      /\ pass'.readers = pass.readers \cup (IF f THEN {h} ELSE {})
      /\ pass'.pc = "policy" => pass'.todo = {}
  <2> DEFINE step == Resolving(pass.todo \ {r})
             rs == IF f THEN {h} ELSE {}
             gs == IF f THEN {r} ELSE {}
  <2>1. /\ step \in {"resolve", "policy"} /\ step \in Steps
        /\ step = "policy" => pass.todo \ {r} = {}
    BY DEF Resolving, Steps
  <2>2. rs \in SUBSET GroupIds /\ gs \in SUBSET Crs /\ pass.todo \ {r} \in SUBSET Crs
    BY <1>2, <1>3, <1>4, <1>5
  <2>3. pass' = [pass EXCEPT !.pc = step, !.todo = pass.todo \ {r}, !.readers = @ \cup rs,
                             !.granted = @ \cup gs]
    BY <1>1, <1>2 DEF f, h
  <2> HIDE DEF step, rs, gs
  <2>4. /\ pass' \in Passes /\ pass'.pc = step /\ pass'.of = pass.of /\ pass'.obj = pass.obj
        /\ pass'.stale = pass.stale /\ pass'.todo = pass.todo \ {r}
        /\ pass'.readers = pass.readers \cup rs
    BY <1>2, <2>1, <2>2, <2>3, CollectedTyped
  <2> QED
    BY <2>1, <2>4 DEF rs
<1>7. /\ group' \in [Names -> GroupIds \cup {NoGroup}]
      /\ \A k \in Names \ {m} : group'[k] = group[k]
      /\ group'[m] = IF f /\ h # tag THEN h ELSE group[m]
  <2>1. group' = IF f /\ h # tag THEN [group EXCEPT ![m] = h] ELSE group
    BY <1>1 DEF f, h, m
  <2> QED
    BY <1>2, <1>3, <1>4, <1>5, <2>1 DEF IInv, TypeOK
<1>8. TypeOK'
  BY <1>2, <1>6, <1>7 DEF IInv, TypeOK, Passes
<1>9. Belonging'
  <2>1. Belongs(group'[m], own[m])
    BY <1>2, <1>3, <1>4, <1>5, <1>7 DEF IInv, Belonging, Belongs
  <2> QED
    BY <1>2, <1>7, <2>1 DEF IInv, Belonging
<1>10. Named'
  BY <1>2 DEF IInv, Named
<1>11. Working'
  BY <1>2, <1>3, <1>4, <1>6 DEF IInv, Working
<1>12. Alive'
  BY <1>2, <1>6 DEF IInv, Alive
<1>13. Settled'
  <2> SUFFICES ASSUME ~Lag, NEW q \in pass.obj.grants \ ((pass.todo \ {r}) \cup {pass.of}),
                      Standing(q)'
               PROVE  group'[NameOf[q]] \in pass'.readers
    BY <1>2, <1>6 DEF Settled, Lag
  <2>1. q \in Crs /\ NameOf[q] \in Names
    BY <1>2, Constants DEF Passes, Object
  <2>2. /\ cr[q].exists /\ ~cr[q].deleting /\ own[NameOf[q]] = q
        /\ group'[NameOf[q]] \in live
    BY <1>2 DEF Standing
  <2>3. tag = group[m]
    BY <1>1, <1>2 DEF TagReads, m
  <2>4. CASE q = r
    <3>1. cache[r].exists /\ ~cache[r].deleting
      BY <2>1, <2>2, <2>4 DEF IInv, Alive
    <3>2. CASE f /\ h # tag
      BY <1>6, <1>7, <2>4, <3>2 DEF m
    <3>3. CASE ~(f /\ h # tag)
      <4>1. tag \in live /\ own[m] = r /\ group'[m] = tag
        BY <1>7, <2>2, <2>3, <2>4, <3>3 DEF m
      <4>2. h = tag /\ h # NoGroup /\ owned
        BY <1>1, <1>3, <1>5, <4>1
      <4>3. f
        BY <1>4, <3>1, <4>2
      <4> QED
        BY <1>6, <2>4, <4>1, <4>2, <4>3 DEF m
    <3> QED
      BY <3>2, <3>3
  <2>5. CASE q # r
    <3>1. group'[NameOf[q]] = group[NameOf[q]]
      BY <1>3, <1>4, <1>7, <2>1, <2>2, <2>5
    <3>2. Standing(q)
      BY <2>2, <3>1 DEF Standing
    <3>3. group[NameOf[q]] \in pass.readers
      BY <1>2, <2>5, <3>2 DEF IInv, Settled
    <3> QED
      BY <1>6, <3>1, <3>3
  <2> QED
    BY <2>4, <2>5
<1> QED
  BY <1>8, <1>9, <1>10, <1>11, <1>12, <1>13 DEF IInv

LEMMA PolicyStepTyped ==
  ASSUME pass \in Passes, NEW step \in Steps, PolicyStep(step)
  PROVE  /\ pass' \in Passes /\ pass'.pc = step /\ pass'.of = pass.of
         /\ pass'.obj.grants = pass.obj.grants /\ pass'.stale = pass.stale
<1>1. pass.obj \in Object /\ pass.granted \in SUBSET Crs
      /\ pass'.obj = [pass.obj EXCEPT !.granted = pass.granted]
  BY DEF Passes, PolicyStep
<1>2. pass'.obj \in Object /\ pass'.obj.grants = pass.obj.grants
  BY <1>1 DEF Object
<1> QED
  BY <1>2 DEF Passes, PolicyStep

\* The policy a pass writes names a group of the owner.
LEMMA ApplyPolicyStep == ASSUME IInv, ApplyPolicy PROVE IInv'
<1> DEFINE m       == NameOf[pass.of]
           desired == BuildIsolationPolicy(pass.obj.urn, pass.readers)
<1>1. /\ UNCHANGED <<cr, cache, own, group, seen, live, made, wake, named>>
      /\ pass.pc = "policy" /\ pass \in Passes /\ pass.of \in Crs /\ m \in Names
      /\ own[m] = pass.of /\ pass.obj.urn \in GroupIds /\ OwnerOf(pass.obj.urn) = pass.of
      /\ pass.readers \in SUBSET GroupIds
  BY Constants DEF IInv, TypeOK, Working, ApplyPolicy, At, apiVars, Passes
<1>2. /\ desired \in SUBSET Statements(GroupIds \cup {Admin})
      /\ WorkloadPrincipalFromPolicy(desired) = pass.obj.urn
  BY <1>1, PolicyTyped, PrincipalRecovered, Constants
<1>3. policy' = policy \/ policy' = [policy EXCEPT ![m] = desired]
  BY DEF ApplyPolicy
<1>4. \E step \in {"ready", "fail"} : PolicyStep(step)
  BY DEF ApplyPolicy
<1>5. budget' \in Budgets /\ budget'.plan = budget.plan
  BY FaultTyped DEF ApplyPolicy, IInv, TypeOK, Budgets
<1> HIDE DEF desired
<1>6. /\ pass' \in Passes /\ pass'.pc \in {"ready", "fail"} /\ pass'.of = pass.of
      /\ pass'.obj.grants = pass.obj.grants /\ pass'.stale = pass.stale
  BY <1>1, <1>4, PolicyStepTyped DEF Steps
<1>7. /\ policy' \in [Names -> SUBSET Statements(GroupIds \cup {Admin})]
      /\ \A k \in Names : policy'[k] = policy[k] \/ (k = m /\ policy'[k] = desired)
  BY <1>1, <1>2, <1>3 DEF IInv, TypeOK
<1>8. TypeOK'
  BY <1>1, <1>5, <1>6, <1>7 DEF IInv, TypeOK, Passes, Budgets
<1>9. Belonging'
  BY <1>1, <1>2, <1>7 DEF IInv, Belonging, Belongs
<1>10. Named' /\ Working' /\ Alive' /\ Settled'
  BY <1>1, <1>6 DEF IInv, Named, Working, Alive, Settled
<1> QED
  BY <1>8, <1>9, <1>10 DEF IInv

\* The writes of a status leave what the invariant is about alone.
LEMMA StatusWritten ==
  ASSUME TypeOK, pass.of \in Crs, WriteStatus
  PROVE  /\ cr' \in [Crs -> Object]
         /\ \A n \in Crs : /\ cr'[n].exists = cr[n].exists /\ cr'[n].deleting = cr[n].deleting
                            /\ cr'[n].grants = cr[n].grants
<1> DEFINE n   == pass.of
           new == [[cr[n] EXCEPT !.urn = pass.obj.urn] EXCEPT !.granted = pass.obj.granted]
<1>1. cr[n] \in Object /\ pass.obj \in Object
  BY DEF TypeOK
<1>2. new \in Object /\ new.exists = cr[n].exists /\ new.deleting = cr[n].deleting
      /\ new.grants = cr[n].grants
  BY <1>1 DEF Object
<1>3. cr' = [cr EXCEPT ![n] = new]
  BY DEF WriteStatus, TypeOK
<1> HIDE DEF new
<1> QED
  BY <1>2, <1>3 DEF TypeOK

\* A pass that ends, having written its status at most.
LEMMA EndOfPass ==
  ASSUME IInv, pass.of \in Crs, NEW requeue \in BOOLEAN, EndPass(requeue),
         WriteStatus \/ UNCHANGED cr,
         budget' \in Budgets,
         UNCHANGED <<cache, own, group, policy, seen, live, made, named>>
  PROVE  IInv'
<1>1. /\ wake' \in [Crs -> BOOLEAN] /\ pass' \in Passes /\ pass'.pc = "idle"
      /\ Working' /\ Settled'
  BY EndTyped DEF IInv
<1>2. /\ cr' \in [Crs -> Object]
      /\ \A n \in Crs : /\ cr'[n].exists = cr[n].exists /\ cr'[n].deleting = cr[n].deleting
                         /\ cr'[n].grants = cr[n].grants
  BY StatusWritten DEF IInv, TypeOK
<1>3. TypeOK' /\ Belonging' /\ Named'
  BY <1>1, <1>2 DEF IInv, TypeOK, Passes, Budgets, Belonging, Named
<1>4. Alive'
  BY <1>1, <1>2 DEF IInv, Alive
<1> QED
  BY <1>1, <1>3, <1>4 DEF IInv

LEMMA MarkReadyStep == ASSUME IInv, MarkReady PROVE IInv'
<1>1. /\ pass.of \in Crs /\ budget' \in Budgets
      /\ UNCHANGED <<cache, own, group, policy, seen, live, made, named>>
  BY FaultTyped DEF IInv, TypeOK, Working, MarkReady, At, provVars, Budgets
<1>2. \E requeue \in BOOLEAN : EndPass(requeue)
  BY GrantsAssumption DEF MarkReady, Resync, Lag, IInv, TypeOK, Plan
<1>3. WriteStatus \/ UNCHANGED cr
  BY DEF MarkReady
<1> QED
  BY <1>1, <1>2, <1>3, EndOfPass

LEMMA FailPassStep == ASSUME IInv, FailPass PROVE IInv'
<1>1. /\ pass.of \in Crs /\ budget' \in Budgets
      /\ UNCHANGED <<cache, own, group, policy, seen, live, made, named>>
  BY DEF IInv, TypeOK, Working, FailPass, provVars, Budgets
<1>2. \E requeue \in BOOLEAN : EndPass(requeue)
  BY DEF FailPass, At
<1>3. WriteStatus \/ UNCHANGED cr
  BY DEF FailPass
<1> QED
  BY <1>1, <1>2, <1>3, EndOfPass

LEMMA ReleaseStep == ASSUME IInv, Release PROVE IInv'
<1>1. /\ UNCHANGED <<cr, cache, own, group, policy, seen, made, wake, named, budget>>
      /\ live' \subseteq live /\ pass.pc = "release" /\ pass \in Passes
  BY DEF IInv, TypeOK, Release, At, apiVars, Passes
<1>2. /\ pass' \in Passes /\ pass'.pc \in {"remove", "finalize"} /\ pass'.of = pass.of
      /\ pass'.obj = pass.obj /\ pass'.stale = pass.stale
      /\ pass'.pc = "finalize" => own[NameOf[pass.of]] # pass.of
  BY <1>1, GotoTyped DEF Release, Steps
<1>3. TypeOK' /\ Belonging' /\ Named'
  BY <1>1, <1>2 DEF IInv, TypeOK, Passes, Belonging, Named
<1>4. Working' /\ Alive' /\ Settled'
  BY <1>1, <1>2 DEF IInv, Working, Alive, Settled
<1> QED
  BY <1>3, <1>4 DEF IInv

LEMMA RemoveBucketStep == ASSUME IInv, RemoveBucket PROVE IInv'
<1> DEFINE m == NameOf[pass.of]
           none == [group |-> NoGroup, policy |-> {}]
<1>1. /\ UNCHANGED <<cr, cache, live, made, wake, named, budget>>
      /\ pass.pc = "remove" /\ pass \in Passes /\ pass.of \in Crs /\ m \in Names
  BY Constants DEF IInv, TypeOK, Working, RemoveBucket, At, apiVars, Passes
<1>2. /\ own' = [own EXCEPT ![m] = NoOwner] /\ group' = [group EXCEPT ![m] = NoGroup]
      /\ policy' = [policy EXCEPT ![m] = {}] /\ seen' = [seen EXCEPT ![m] = none]
  BY DEF RemoveBucket
<1>3. none \in [group : GroupIds \cup {NoGroup},
                 policy : SUBSET Statements(GroupIds \cup {Admin})]
  OBVIOUS
<1>4. /\ pass' \in Passes /\ pass'.pc = "finalize" /\ pass'.of = pass.of
      /\ pass'.obj = pass.obj /\ pass'.stale = pass.stale
  BY <1>1, GotoTyped DEF RemoveBucket, Steps
<1>5. TypeOK'
  BY <1>1, <1>2, <1>3, <1>4 DEF IInv, TypeOK, Passes
<1>6. Belonging'
  <2>1. \A k \in Names \ {m} : /\ own'[k] = own[k] /\ group'[k] = group[k]
                                /\ policy'[k] = policy[k] /\ seen'[k] = seen[k]
    BY <1>2 DEF IInv, TypeOK
  <2>2. group'[m] = NoGroup /\ policy'[m] = {} /\ seen'[m].group = NoGroup /\ seen'[m].policy = {}
    BY <1>1, <1>2 DEF IInv, TypeOK
  <2> QED
    BY <2>1, <2>2, EmptyPolicy DEF IInv, Belonging, Belongs
<1>7. Named' /\ Working' /\ Settled'
  BY <1>1, <1>4 DEF IInv, Named, Working, Settled
<1>8. Alive'
  <2>1. \A n \in Crs : own'[NameOf[n]] = n => own[NameOf[n]] = n /\ n # pass.of
    BY <1>1, <1>2, Constants DEF IInv, TypeOK
  <2>2. own'[NameOf[pass.of]] # pass.of
    BY <1>1, <2>1
  <2> QED
    BY <1>1, <1>4, <2>1, <2>2 DEF IInv, Alive
<1> QED
  BY <1>5, <1>6, <1>7, <1>8 DEF IInv

\* The Bucket goes only after its bucket, and when the informer knows of the
\* deletion.
LEMMA DropFinalizerStep == ASSUME IInv, DropFinalizer PROVE IInv'
<1>1. /\ UNCHANGED <<cache, own, group, policy, seen, live, made, named, budget>>
      /\ pass.pc = "finalize" /\ pass.of \in Crs
  BY DEF IInv, TypeOK, Working, DropFinalizer, At, provVars
<1>2. CASE ~pass.stale /\ cr' = [cr EXCEPT ![pass.of] = NoObject] /\ EndPass(FALSE)
  <2>1. /\ wake' \in [Crs -> BOOLEAN] /\ pass' \in Passes /\ pass'.pc = "idle"
        /\ Working' /\ Settled'
    BY <1>1, <1>2, EndTyped DEF IInv
  <2>2. /\ cr' \in [Crs -> Object] /\ cr'[pass.of] = NoObject
        /\ \A n \in Crs \ {pass.of} : cr'[n] = cr[n]
    BY <1>1, <1>2, ObjectsTyped DEF IInv, TypeOK
  <2>3. TypeOK' /\ Belonging' /\ Named'
    BY <1>1, <2>1, <2>2, ObjectsTyped DEF IInv, TypeOK, Passes, Belonging, Named
  <2>4. Alive'
    BY <1>1, <1>2, <2>1, <2>2, ObjectsTyped DEF IInv, Alive
  <2> QED
    BY <2>1, <2>3, <2>4 DEF IInv
<1>3. CASE pass.stale /\ UNCHANGED cr /\ EndPass(TRUE)
  BY <1>1, <1>3, EndOfPass DEF IInv, TypeOK, Budgets
<1> QED
  BY <1>2, <1>3 DEF DropFinalizer

LEMMA CallFailsStep == ASSUME IInv, CallFails PROVE IInv'
<1>1. /\ UNCHANGED <<cr, cache, own, group, policy, seen, live, made, wake, named>>
      /\ pass.pc # "idle" /\ pass \in Passes /\ budget' \in Budgets
  BY FaultTyped DEF IInv, TypeOK, CallFails, apiVars, provVars, Passes, Budgets
<1>2. /\ pass' \in Passes /\ pass'.pc = "fail" /\ pass'.of = pass.of
      /\ pass'.obj.grants = pass.obj.grants /\ pass'.stale = pass.stale
  BY <1>1, GotoTyped, PolicyStepTyped DEF CallFails, Steps
<1>3. TypeOK' /\ Belonging' /\ Named'
  BY <1>1, <1>2 DEF IInv, TypeOK, Passes, Budgets, Belonging, Named
<1>4. Working' /\ Alive' /\ Settled'
  BY <1>1, <1>2 DEF IInv, Working, Alive, Settled
<1> QED
  BY <1>3, <1>4 DEF IInv

\* The informer catches up with one Bucket.
LEMMA CacheSyncStep == ASSUME IInv, NEW n \in Crs, CacheSync(n) PROVE IInv'
<1>1. UNCHANGED <<cr, own, group, policy, seen, live, made, pass, named, budget>>
  BY DEF CacheSync, provVars
<1>2. /\ cache' \in [Crs -> Object] /\ cache'[n] = cr[n]
      /\ \A k \in Crs \ {n} : cache'[k] = cache[k]
  BY DEF IInv, TypeOK, CacheSync
<1>3. wake' \in [Crs -> BOOLEAN]
  BY DEF IInv, TypeOK, CacheSync
<1>4. TypeOK' /\ Belonging' /\ Named'
  BY <1>1, <1>2, <1>3 DEF IInv, TypeOK, Belonging, Named
<1>5. Working' /\ Settled'
  BY <1>1 DEF IInv, Working, Settled, Standing, Lag
<1>6. Alive'
  BY <1>1, <1>2 DEF IInv, Alive, Working
<1> QED
  BY <1>4, <1>5, <1>6 DEF IInv

LEMMA CrashStep == ASSUME IInv, Crash PROVE IInv'
<1>1. /\ UNCHANGED <<cr, own, group, policy, seen, live, made, named>>
      /\ cache' = cr /\ pass' = Idle /\ budget' \in Budgets
  BY FaultTyped DEF IInv, TypeOK, Crash, provVars, Budgets
<1>2. wake' \in [Crs -> BOOLEAN]
  BY DEF IInv, TypeOK, Crash, Object
<1>3. pass' \in Passes /\ pass'.pc = "idle"
  BY <1>1, IdleTyped
<1>4. TypeOK' /\ Belonging' /\ Named'
  BY <1>1, <1>2, <1>3 DEF IInv, TypeOK, Passes, Budgets, Belonging, Named
<1>5. Working' /\ Alive' /\ Settled'
  BY <1>1, <1>3 DEF IInv, Working, Alive, Settled
<1> QED
  BY <1>4, <1>5 DEF IInv

\* Anybody's write of a Bucket: a deletion is not taken back, and a Bucket comes
\* into being only after the informer has seen the earlier one go.
LEMMA WriteStep ==
  ASSUME IInv, NEW n \in Crs, NEW new \in Object, Write(n, new),
         new.exists,
         cr[n].exists /\ cr[n].deleting => new.deleting,
         cr[n].exists \/ ~cache[n].exists,
         named' \in [Crs -> SUBSET Crs], \A k \in Crs : named[k] \subseteq named'[k],
         new.grants \subseteq named'[n],
         budget' \in Budgets, budget'.plan = budget.plan
  PROVE  IInv'
<1>1. UNCHANGED <<cache, own, group, policy, seen, live, made, wake>>
  BY DEF Write, provVars
<1>2. /\ cr' \in [Crs -> Object] /\ cr'[n] = new
      /\ \A k \in Crs \ {n} : cr'[k] = cr[k]
  BY DEF IInv, TypeOK, Write
<1>3. /\ pass' \in Passes /\ pass'.pc = pass.pc /\ pass'.of = pass.of /\ pass'.obj = pass.obj
      /\ pass'.todo = pass.todo /\ pass'.readers = pass.readers
      /\ ~pass'.stale => ~pass.stale /\ pass.of # n
  <2> DEFINE st == pass.stale \/ pass.of = n
  <2>1. pass \in Passes /\ pass' = [pass EXCEPT !.stale = st]
    BY DEF IInv, TypeOK, Passes, Write
  <2>2. st \in BOOLEAN /\ (~st => ~pass.stale /\ pass.of # n)
    OBVIOUS
  <2> HIDE DEF st
  <2> QED
    BY <2>1, <2>2 DEF Passes
<1>4. TypeOK' /\ Belonging'
  BY <1>1, <1>2, <1>3 DEF IInv, TypeOK, Passes, Budgets, Belonging
<1>5. Named'
  BY <1>1, <1>2 DEF IInv, Named
<1>6. Working'
  BY <1>1, <1>3 DEF IInv, Working
<1>7. Alive'
  BY <1>1, <1>2, <1>3 DEF IInv, Alive, Working
<1>8. Settled'
  <2>1. \A r \in Crs : Standing(r)' => Standing(r) /\ group'[NameOf[r]] = group[NameOf[r]]
    BY <1>1, <1>2 DEF IInv, Alive, Standing
  <2>2. Lag' = Lag
    BY DEF Lag
  <2>3. pass.obj.grants \subseteq Crs
    BY DEF IInv, TypeOK, Object
  <2> QED
    BY <1>3, <2>1, <2>2, <2>3 DEF IInv, Settled
<1> QED
  BY <1>4, <1>5, <1>6, <1>7, <1>8 DEF IInv

LEMMA EditTyped ==
  ASSUME budget \in Budgets, Edit \/ Disturb PROVE budget' \in Budgets /\ budget'.plan = budget.plan
BY DEF Budgets, Edit, Disturb

LEMMA UserCreatesStep == ASSUME IInv, NEW n \in Crs, UserCreates(n) PROVE IInv'
<1>1. budget' \in Budgets /\ budget'.plan = budget.plan
  BY EditTyped DEF IInv, TypeOK, Budgets, UserCreates
<1>2. Write(n, NewObject(n)) /\ UNCHANGED named /\ ~cr[n].exists /\ ~cache[n].exists
  BY DEF UserCreates
<1>3. NewObject(n).grants \subseteq named'[n] /\ named' \in [Crs -> SUBSET Crs]
  BY <1>2, ObjectsTyped DEF IInv, Named, TypeOK
<1> QED
  BY <1>1, <1>2, <1>3, ObjectsTyped, WriteStep

LEMMA UserDeletesStep == ASSUME IInv, NEW n \in Crs, UserDeletes(n) PROVE IInv'
<1> DEFINE new == [cr[n] EXCEPT !.deleting = TRUE]
<1>1. budget' \in Budgets /\ budget'.plan = budget.plan
  BY EditTyped DEF IInv, TypeOK, Budgets, UserDeletes
<1>2. Write(n, new) /\ UNCHANGED named /\ cr[n].exists /\ cr[n] \in Object
  BY DEF IInv, TypeOK, UserDeletes
<1>3. new \in Object /\ new.exists /\ new.deleting /\ new.grants = cr[n].grants
  BY <1>2 DEF Object
<1>4. new.grants \subseteq named'[n] /\ named' \in [Crs -> SUBSET Crs]
  BY <1>2, <1>3 DEF IInv, Named, TypeOK
<1> HIDE DEF new
<1> QED
  BY <1>1, <1>2, <1>3, <1>4, WriteStep

\* A user adds or removes one grantee; the history takes note of a new one.
LEMMA GrantEdited ==
  ASSUME IInv, NEW n \in Crs, UserGrants(n)
  PROVE  \E r \in Crs, grants \in SUBSET Crs :
           /\ Write(n, [cr[n] EXCEPT !.grants = grants])
           /\ grants \subseteq named'[n]
           /\ named' = named \/ named' = [named EXCEPT ![n] = @ \cup {r}]
<1>1. PICK r \in Crs :
        LET grants == IF r \in cr[n].grants THEN cr[n].grants \ {r} ELSE cr[n].grants \cup {r}
        IN  /\ Write(n, [cr[n] EXCEPT !.grants = grants])
            /\ named' = [named EXCEPT ![n] = @ \cup grants]
  BY DEF UserGrants
<1> DEFINE grants == IF r \in cr[n].grants THEN cr[n].grants \ {r} ELSE cr[n].grants \cup {r}
<1>2. cr[n].grants \in SUBSET Crs /\ cr[n].grants \subseteq named[n]
  BY DEF IInv, TypeOK, Named, Object
<1>3. grants \in SUBSET Crs
  BY <1>2
<1>4. named[n] \cup grants = named[n] \/ named[n] \cup grants = named[n] \cup {r}
  BY <1>2
<1>5. named' = [named EXCEPT ![n] = named[n] \cup grants] /\ grants \subseteq named'[n]
  BY <1>1 DEF IInv, TypeOK
<1>6. named' = named \/ named' = [named EXCEPT ![n] = @ \cup {r}]
  BY <1>4, <1>5 DEF IInv, TypeOK
<1> HIDE DEF grants
<1>7. Write(n, [cr[n] EXCEPT !.grants = grants])
  BY <1>1 DEF grants
<1> QED
  BY <1>3, <1>5, <1>6, <1>7

LEMMA UserGrantsStep == ASSUME IInv, NEW n \in Crs, UserGrants(n) PROVE IInv'
<1>1. budget' \in Budgets /\ budget'.plan = budget.plan
  BY EditTyped DEF IInv, TypeOK, Budgets, UserGrants
<1>2. PICK r \in Crs, grants \in SUBSET Crs :
           /\ Write(n, [cr[n] EXCEPT !.grants = grants])
           /\ grants \subseteq named'[n]
           /\ named' = named \/ named' = [named EXCEPT ![n] = @ \cup {r}]
  BY GrantEdited
<1> DEFINE new == [cr[n] EXCEPT !.grants = grants]
<1>3. cr[n].exists /\ ~cr[n].deleting /\ cr[n] \in Object
  BY DEF IInv, TypeOK, UserGrants
<1>4. new \in Object /\ new.exists /\ new.grants = grants
  BY <1>3 DEF Object
<1>5. named' \in [Crs -> SUBSET Crs] /\ \A k \in Crs : named[k] \subseteq named'[k]
  <2>1. named \in [Crs -> SUBSET Crs]
    BY DEF IInv, TypeOK
  <2>2. CASE named' = named
    BY <2>1, <2>2
  <2>3. CASE named' = [named EXCEPT ![n] = @ \cup {r}]
    BY <2>1, <2>3
  <2> QED
    BY <1>2, <2>2, <2>3
<1> HIDE DEF new
<1>6. Write(n, new)
  BY <1>2 DEF new
<1> QED
  BY <1>1, <1>2, <1>3, <1>4, <1>5, <1>6, WriteStep

LEMMA StatusOverwrittenStep == ASSUME IInv, NEW n \in Crs, StatusOverwritten(n) PROVE IInv'
<1>1. budget' \in Budgets /\ budget'.plan = budget.plan
  BY EditTyped DEF IInv, TypeOK, Budgets, StatusOverwritten
<1>2. PICK urn \in live \cup {Admin} : Write(n, [cr[n] EXCEPT !.urn = urn])
  BY DEF StatusOverwritten
<1> DEFINE new == [cr[n] EXCEPT !.urn = urn]
<1>3. cr[n].exists /\ cr[n] \in Object /\ UNCHANGED named /\ urn \in GroupIds \cup {Admin}
  BY DEF IInv, TypeOK, StatusOverwritten
<1>4. new \in Object /\ new.exists /\ new.grants = cr[n].grants /\ new.deleting = cr[n].deleting
  BY <1>3 DEF Object
<1>5. new.grants \subseteq named'[n] /\ named' \in [Crs -> SUBSET Crs]
  BY <1>3, <1>4 DEF IInv, Named, TypeOK
<1> HIDE DEF new
<1>6. Write(n, new)
  BY <1>2 DEF new
<1> QED
  BY <1>1, <1>3, <1>4, <1>5, <1>6, WriteStep

LEMMA GroupDeletedStep == ASSUME IInv, NEW n \in Crs, GroupDeleted(n) PROVE IInv'
<1>1. /\ UNCHANGED <<cr, cache, own, group, policy, seen, made, pass, named>>
      /\ live' \subseteq live /\ wake' \in [Crs -> BOOLEAN]
      /\ budget' \in Budgets /\ budget'.plan = budget.plan
  BY EditTyped DEF IInv, TypeOK, GroupDeleted, apiVars, Budgets
<1>2. TypeOK' /\ Belonging' /\ Named'
  BY <1>1 DEF IInv, TypeOK, Belonging, Named, Budgets
<1>3. Working' /\ Alive'
  BY <1>1 DEF IInv, Working, Alive
<1>4. Settled'
  BY <1>1 DEF IInv, Settled, Standing, Lag
<1> QED
  BY <1>2, <1>3, <1>4 DEF IInv

LEMMA SettleStep == ASSUME IInv, NEW m \in Names, Settle(m) PROVE IInv'
<1>1. UNCHANGED <<cr, cache, own, group, policy, live, made, wake, pass, named, budget>>
  BY DEF Settle, apiVars
<1>2. seen' = [seen EXCEPT ![m] = [group |-> group[m], policy |-> policy[m]]]
  BY DEF Settle
<1>3. TypeOK'
  BY <1>1, <1>2 DEF IInv, TypeOK
<1>4. Belonging'
  <2>1. seen'[m].group = group[m] /\ seen'[m].policy = policy[m]
    BY <1>2 DEF IInv, TypeOK
  <2>2. \A k \in Names \ {m} : seen'[k] = seen[k]
    BY <1>2 DEF IInv, TypeOK
  <2> QED
    BY <1>1, <2>1, <2>2 DEF IInv, Belonging
<1>5. Named' /\ Working' /\ Alive' /\ Settled'
  BY <1>1 DEF IInv, Named, Working, Alive, Settled, Standing, Lag
<1> QED
  BY <1>3, <1>4, <1>5 DEF IInv

LEMMA NextStep == IInv /\ [Next]_vars => IInv'
<1> SUFFICES ASSUME IInv, [Next]_vars PROVE IInv'
  OBVIOUS
<1>1. CASE Pass
  BY <1>1, ProvisionStep, ResolveStep, ApplyPolicyStep, MarkReadyStep, FailPassStep, ReleaseStep,
     RemoveBucketStep, DropFinalizerStep DEF Pass
<1>2. CASE CallFails \/ Crash
  BY <1>2, CallFailsStep, CrashStep
<1>3. ASSUME NEW n \in Crs, StartPass(n) \/ CacheSync(n) PROVE IInv'
  BY <1>3, StartPassStep, CacheSyncStep
<1>4. ASSUME NEW n \in Crs, UserCreates(n) \/ UserDeletes(n) \/ UserGrants(n) PROVE IInv'
  BY <1>4, UserCreatesStep, UserDeletesStep, UserGrantsStep
<1>5. ASSUME NEW n \in Crs, StatusOverwritten(n) \/ GroupDeleted(n) PROVE IInv'
  BY <1>5, StatusOverwrittenStep, GroupDeletedStep
<1>6. ASSUME NEW m \in Names, Settle(m) PROVE IInv'
  BY <1>6, SettleStep
<1>7. CASE UNCHANGED vars
  BY <1>7 DEF vars, IInv, TypeOK, Belonging, Named, Working, Alive, Settled, Standing, Lag
<1> QED
  BY <1>1, <1>2, <1>3, <1>4, <1>5, <1>6, <1>7 DEF Next

THEOREM GrantsInvariance == Spec => []IInv
BY InitHolds, NextStep, PTL DEF Spec

\* The parts of the state keep their types (TypeOK): in particular nothing but
\* groups of the project and the operator's own ever stands in a policy, and every
\* status, also one that somebody else wrote, is one the passes can read.
THEOREM GrantsTyped == Spec => []TypeOK
<1>1. IInv => TypeOK
  BY DEF IInv
<1> QED
  BY <1>1, GrantsInvariance, PTL

----------------------------------------------------------------------------
(* The policies keep the promise of ReadAccess. *)

\* What a document lets each principal do.
Lets(doc) == [p \in GroupIds \cup {Admin} |-> {a \in Actions : Allows(doc, p, a)}]

\* A bucket without a policy is open to every group of the project.
LEMMA AccessOpen ==  Lets({}) = Promise!Open
BY DEF Lets, Allows, Promise!Open, Promise!Principals, Promise!Actions, Actions

\* The document closes the bucket the way ReadAccess says.
LEMMA AccessClosed ==
  ASSUME NEW w \in GroupIds, NEW rs \in SUBSET GroupIds
  PROVE  Lets(BuildIsolationPolicy(w, rs)) = Promise!Closed(w, rs)
<1> DEFINE doc == BuildIsolationPolicy(w, rs)
           cl == Promise!Closed(w, rs)
<1>0. w # Admin /\ \A p \in GroupIds : p # Admin /\ p # NoGroup
  BY Constants
<1>1. ASSUME NEW p \in GroupIds \cup {Admin} PROVE {a \in Actions : Allows(doc, p, a)} = cl[p]
  <2>1. cl[p] = CASE p = Admin -> Actions
                  [] p = w -> WorkloadAllowedActions
                  [] p \in rs \ {w} -> ReaderAllowedActions
                  [] OTHER -> {}
    BY DEF Promise!Closed, Promise!Principals, Promise!Actions, Actions,
           Promise!WorkloadAllowedActions, WorkloadAllowedActions,
           Promise!ReaderAllowedActions, ReaderAllowedActions
  <2>2. CASE p = Admin
    <3>1. cl[p] = Actions
      BY <1>0, <2>1, <2>2
    <3> HIDE DEF doc, cl
    <3> QED
      BY <1>0, <2>2, <3>1, AdminNeverDenied DEF doc
  <2>3. CASE p = w
    <3>1. cl[p] = WorkloadAllowedActions
      BY <1>0, <2>1, <2>3
    <3> HIDE DEF doc, cl
    <3>2. \A a \in Actions : Allows(doc, p, a) <=> a \in WorkloadAllowedActions
      BY <2>3, WorkloadObjectsOnly DEF doc
    <3> QED
      BY <3>1, <3>2 DEF WorkloadAllowedActions, Actions
  <2>4. CASE p \notin {Admin, w}
    <3>1. cl[p] = IF p \in rs THEN ReaderAllowedActions ELSE {}
      BY <1>0, <2>1, <2>4
    <3> HIDE DEF doc, cl
    <3>2. \A a \in Actions : Allows(doc, p, a) <=> p \in rs /\ a \in ReaderAllowedActions
      BY <1>0, <2>4, OthersReadIfGranted DEF doc
    <3> QED
      BY <3>1, <3>2 DEF ReaderAllowedActions, Actions
  <2> QED
    BY <2>2, <2>3, <2>4
<1>2. cl = [p \in GroupIds \cup {Admin} |-> cl[p]]
  <2> DEFINE f(p) == CASE p = Admin -> Promise!Actions
                       [] p = w -> Promise!WorkloadAllowedActions
                       [] p \in rs \ {w} -> Promise!ReaderAllowedActions
                       [] OTHER -> {}
  <2>1. cl = [p \in GroupIds \cup {Admin} |-> f(p)]
    BY DEF Promise!Closed, Promise!Principals
  <2> HIDE DEF cl, f
  <2> QED
    BY <2>1
<1> HIDE DEF doc, cl
<1>3. [p \in GroupIds \cup {Admin} |-> {a \in Actions : Allows(doc, p, a)}]
        = [p \in GroupIds \cup {Admin} |-> cl[p]]
  BY <1>1
<1> QED
  BY <1>2, <1>3 DEF doc, cl, Lets

\* A policy write changes what one bucket lets the principals do.
LEMMA AccessChanged ==
  ASSUME TypeOK, NEW m \in Names, NEW doc, policy' = [policy EXCEPT ![m] = doc]
  PROVE  Access' = [Access EXCEPT ![m] = Lets(doc)]
<1>1. Access = [k \in Names |-> Lets(policy[k])] /\ Access' = [k \in Names |-> Lets(policy'[k])]
  BY DEF Access, Lets
<1>2. \A k \in Names : policy'[k] = IF k = m THEN doc ELSE policy[k]
  BY DEF TypeOK
<1> QED
  BY <1>1, <1>2

\* Provision creates the bucket, or finds it created.
LEMMA ProvisionPromise ==
  ASSUME IInv, Provision PROVE Promise!Next \/ UNCHANGED <<named, own, Access>>
<1> DEFINE m == NameOf[pass.of]
<1>1. UNCHANGED <<policy, named>> /\ pass.of \in Crs /\ m \in Names
  BY Constants DEF IInv, TypeOK, Working, Provision, At, provVars
<1>2. Access' = Access
  BY <1>1 DEF Access
<1>3. own' = own \/ (own[m] = NoOwner /\ own' = [own EXCEPT ![m] = pass.of])
  <2>1. own' = own \/ (own[m] \in {NoOwner, pass.of} /\ own' = [own EXCEPT ![m] = pass.of])
    BY DEF Provision, provVars
  <2>2. own[m] = pass.of => [own EXCEPT ![m] = pass.of] = own
    BY <1>1 DEF IInv, TypeOK
  <2> QED
    BY <2>1, <2>2
<1>4. CASE own[m] = NoOwner /\ own' = [own EXCEPT ![m] = pass.of]
  <2>1. Promise!Create(m)
    BY <1>1, <1>2, <1>4 DEF Promise!Create
  <2> QED
    BY <1>1, <2>1 DEF Promise!Next
<1> QED
  BY <1>1, <1>2, <1>3, <1>4

\* ApplyPolicy closes the bucket: the group belongs to the owner, and the readers to
\* Buckets the owner has named.
LEMMA ApplyPolicyPromise ==
  ASSUME IInv, ApplyPolicy PROVE Promise!Next \/ UNCHANGED <<named, own, Access>>
<1> DEFINE m == NameOf[pass.of]
           w == pass.obj.urn
           rs == pass.readers
<1>1. UNCHANGED <<own, named>> /\ pass.pc = "policy"
  BY DEF ApplyPolicy, At
<1>2. /\ pass.of \in Crs /\ m \in Names /\ own[m] = pass.of
      /\ w \in GroupIds /\ OwnerOf(w) = pass.of
      /\ rs \in SUBSET GroupIds /\ \A g \in rs : OwnerOf(g) \in named[pass.of] \ {pass.of}
  BY <1>1, Constants DEF IInv, TypeOK, Working
<1>3. policy' = policy \/ policy' = [policy EXCEPT ![m] = BuildIsolationPolicy(w, rs)]
  BY DEF ApplyPolicy
<1>4. CASE policy' = policy
  BY <1>1, <1>4 DEF Access
<1>5. CASE policy' = [policy EXCEPT ![m] = BuildIsolationPolicy(w, rs)]
  <2> HIDE DEF m, w, rs
  <2>1. Access' = [Access EXCEPT ![m] = Promise!Closed(w, rs)]
    <3>1. Access' = [Access EXCEPT ![m] = Lets(BuildIsolationPolicy(w, rs))]
      BY <1>2, <1>5, AccessChanged DEF IInv
    <3> QED
      BY <1>2, <3>1, AccessClosed
  <2>2. own[m] # NoOwner
    BY <1>2, Constants
  <2>3. w \in Promise!GroupsOf({own[m]})
    BY <1>2 DEF Promise!GroupsOf
  <2>4. rs \in SUBSET Promise!GroupsOf(named[own[m]] \ {own[m]})
    BY <1>2 DEF Promise!GroupsOf
  <2>5. Promise!Close(m)
    BY <1>1, <2>1, <2>2, <2>3, <2>4 DEF Promise!Close
  <2> QED
    BY <1>2, <2>5 DEF Promise!Next
<1> QED
  BY <1>3, <1>4, <1>5

LEMMA RemoveBucketPromise ==
  ASSUME IInv, RemoveBucket PROVE Promise!Next
<1> DEFINE m == NameOf[pass.of]
<1>1. /\ m \in Names /\ UNCHANGED named
      /\ own' = [own EXCEPT ![m] = NoOwner] /\ policy' = [policy EXCEPT ![m] = {}]
  BY Constants DEF IInv, Working, RemoveBucket, At
<1>2. Access' = [Access EXCEPT ![m] = Promise!Open]
  <2>1. Access' = [Access EXCEPT ![m] = Lets({})]
    BY <1>1, AccessChanged DEF IInv
  <2> QED
    BY <2>1, AccessOpen
<1>3. Promise!Remove(m)
  BY <1>1, <1>2 DEF Promise!Remove
<1> QED
  BY <1>1, <1>3 DEF Promise!Next

\* A user who adds a grantee names it; one who removes a grantee changes nothing.
LEMMA UserGrantsPromise ==
  ASSUME IInv, NEW n \in Crs, UserGrants(n)
  PROVE  Promise!Next \/ UNCHANGED <<named, own, Access>>
<1>1. PICK r \in Crs, grants \in SUBSET Crs :
        /\ Write(n, [cr[n] EXCEPT !.grants = grants])
        /\ grants \subseteq named'[n]
        /\ named' = named \/ named' = [named EXCEPT ![n] = @ \cup {r}]
  BY GrantEdited
<1>2. UNCHANGED <<own, policy>>
  BY <1>1 DEF Write, provVars
<1>3. Access' = Access
  BY <1>2 DEF Access
<1>4. CASE r \notin named[n] /\ named' = [named EXCEPT ![n] = @ \cup {r}]
  <2>1. Promise!NameGrantee(n)
    BY <1>2, <1>3, <1>4 DEF Promise!NameGrantee
  <2> QED
    BY <2>1 DEF Promise!Next
<1>5. r \in named[n] => [named EXCEPT ![n] = @ \cup {r}] = named
  <2>1. r \in named[n] => named[n] \cup {r} = named[n]
    OBVIOUS
  <2> QED
    BY <2>1 DEF IInv, TypeOK
<1> QED
  BY <1>1, <1>2, <1>3, <1>4, <1>5

\* Every step of the passes, the informer, the users and the provider is a step of
\* ReadAccess, or changes nothing of what it speaks of.
LEMMA PromiseStep ==
  ASSUME IInv, [Next]_vars PROVE [Promise!Next]_<<named, own, Access>>
<1> SUFFICES Promise!Next \/ UNCHANGED <<named, own, Access>>
  OBVIOUS
<1>1. ASSUME UNCHANGED <<named, own, policy>> PROVE UNCHANGED <<named, own, Access>>
  BY <1>1 DEF Access
<1>2. CASE Provision \/ ApplyPolicy \/ RemoveBucket
  BY <1>2, ProvisionPromise, ApplyPolicyPromise, RemoveBucketPromise
<1>3. CASE ResolveGrant \/ MarkReady \/ FailPass
  BY <1>1, <1>3 DEF ResolveGrant, MarkReady, FailPass, provVars
<1>4. CASE Release \/ DropFinalizer
  BY <1>1, <1>4 DEF Release, DropFinalizer, provVars
<1>5. CASE CallFails \/ Crash
  BY <1>1, <1>5 DEF CallFails, Crash, provVars
<1>6. ASSUME NEW n \in Crs, StartPass(n) \/ CacheSync(n)
      PROVE  UNCHANGED <<named, own, Access>>
  BY <1>1, <1>6 DEF StartPass, CacheSync, provVars
<1>7. ASSUME NEW n \in Crs, UserCreates(n) \/ UserDeletes(n) \/ StatusOverwritten(n)
      PROVE  UNCHANGED <<named, own, Access>>
  BY <1>1, <1>7 DEF UserCreates, UserDeletes, StatusOverwritten, Write, provVars
<1>8. ASSUME NEW n \in Crs, GroupDeleted(n) PROVE UNCHANGED <<named, own, Access>>
  BY <1>1, <1>8 DEF GroupDeleted
<1>9. ASSUME NEW m \in Names, Settle(m) PROVE UNCHANGED <<named, own, Access>>
  BY <1>1, <1>9 DEF Settle
<1>10. CASE UNCHANGED vars
  BY <1>1, <1>10 DEF vars
<1> QED
  BY <1>2, <1>3, <1>4, <1>5, <1>6, <1>7, <1>8, <1>9, <1>10, UserGrantsPromise DEF Next, Pass

\* The policies keep the promise of ReadAccess (KeepsPromise): for every number of
\* Buckets, whatever stands in a status, whoever aims at the same name, however old
\* a read of the provider is and wherever the operator dies, no policy written ever
\* opens a bucket to a group its owner has not named, lets a reader write, takes the
\* workload's objects away or locks the operator out.
THEOREM GrantsKeepPromise == Spec => KeepsPromise
<1>1. Init => Promise!Init
  <2> SUFFICES ASSUME Init PROVE Promise!Init
    OBVIOUS
  <2>1. Access = [m \in Names |-> Lets({})]
    BY DEF Init, Access, Lets
  <2>2. Access = [m \in Names |-> Promise!Open]
    BY <2>1, AccessOpen
  <2> QED
    BY <2>2, GrantsAssumption DEF Init, Promise!Init
<1>2. IInv /\ [Next]_vars => [Promise!Next]_<<named, own, Access>>
  BY PromiseStep
<1> QED
  BY <1>1, <1>2, GrantsInvariance, PTL DEF Spec, KeepsPromise, Promise!Spec

----------------------------------------------------------------------------
(* No reader is shut out in between. *)

\* The group r has stays where it is, in the step of a pass over another Bucket.
LEMMA AttributionKept ==
  ASSUME IInv, [Next]_vars, NEW n \in Crs, NEW r \in Crs, r # n, pass.of = n,
         Standing(r), own[NameOf[n]] = n, own'[NameOf[n]] = n, ~Lag
  PROVE  group'[NameOf[r]] = group[NameOf[r]]
<1> DEFINE m == NameOf[r]
<1>1. /\ m \in Names /\ NameOf[n] \in Names /\ m # NameOf[n] /\ n # NoOwner
      /\ own[m] = r /\ group[m] \in live /\ group \in [Names -> GroupIds \cup {NoGroup}]
      /\ own \in [Names -> Crs \cup {NoOwner}]
  BY Constants DEF IInv, TypeOK, Standing
<1>2. CASE Provision
  BY <1>1, <1>2 DEF Provision, provVars
<1>3. CASE ResolveGrant
  <2>1. PICK q \in pass.todo :
          \E tag \in TagReads(NameOf[q]), doc \in PolicyReads(NameOf[q]) :
            \/ group' = group
            \/ /\ GroupFromBucket(q, tag, doc) # NoGroup /\ GroupFromBucket(q, tag, doc) # tag
               /\ group' = [group EXCEPT ![NameOf[q]] = GroupFromBucket(q, tag, doc)]
    BY <1>3 DEF ResolveGrant
  <2>2. PICK tag \in TagReads(NameOf[q]), doc \in PolicyReads(NameOf[q]) :
            \/ group' = group
            \/ /\ GroupFromBucket(q, tag, doc) # NoGroup /\ GroupFromBucket(q, tag, doc) # tag
               /\ group' = [group EXCEPT ![NameOf[q]] = GroupFromBucket(q, tag, doc)]
    BY <2>1
  <2>3. q \in Crs /\ tag = group[NameOf[q]]
    BY <2>1, <2>2 DEF IInv, TypeOK, TagReads
  <2>4. /\ GroupFromBucket(q, tag, doc) # NoGroup => own[NameOf[q]] = q
        /\ own[NameOf[q]] = q /\ tag \in live => GroupFromBucket(q, tag, doc) = tag
    BY <2>2, <2>3, GroupFound
  <2> QED
    BY <1>1, <2>2, <2>3, <2>4
<1>4. CASE RemoveBucket
  BY <1>1, <1>4 DEF RemoveBucket
<1>5. CASE ApplyPolicy \/ MarkReady \/ FailPass \/ Release \/ DropFinalizer
  BY <1>5 DEF ApplyPolicy, MarkReady, FailPass, Release, DropFinalizer, provVars
<1>6. CASE CallFails \/ Crash
  BY <1>6 DEF CallFails, Crash, provVars
<1>7. ASSUME NEW k \in Crs, StartPass(k) \/ CacheSync(k) \/ GroupDeleted(k) PROVE group' = group
  BY <1>7 DEF StartPass, CacheSync, GroupDeleted, provVars
<1>8. ASSUME NEW k \in Crs,
             UserCreates(k) \/ UserDeletes(k) \/ UserGrants(k) \/ StatusOverwritten(k)
      PROVE  group' = group
  BY <1>8 DEF UserCreates, UserDeletes, UserGrants, StatusOverwritten, Write, provVars
<1>9. ASSUME NEW k \in Names, Settle(k) PROVE group' = group
  BY <1>9 DEF Settle
<1>10. CASE UNCHANGED vars
  BY <1>10 DEF vars
<1> QED
  BY <1>2, <1>3, <1>4, <1>5, <1>6, <1>7, <1>8, <1>9, <1>10 DEF Next, Pass

\* The only policy a pass writes is its own, and the readers it has collected are in it.
LEMMA ReaderKept ==
  ASSUME IInv, [Next]_vars, NEW n \in Crs, NEW r \in Crs, r # n, pass.of = n,
         r \in pass.obj.grants, Standing(r), own[NameOf[n]] = n, own'[NameOf[n]] = n, ~Lag
  PROVE  \/ policy'[NameOf[n]] = policy[NameOf[n]]
         \/ /\ policy'[NameOf[n]] # {}
            /\ Allows(policy'[NameOf[n]], group[NameOf[r]], "read")
<1> DEFINE k == NameOf[n]
           g == group[NameOf[r]]
<1>1. /\ k \in Names /\ n # NoOwner /\ NameOf[r] \in Names
      /\ policy \in [Names -> SUBSET Statements(GroupIds \cup {Admin})]
      /\ own \in [Names -> Crs \cup {NoOwner}]
  BY Constants DEF IInv, TypeOK
<1>2. CASE ApplyPolicy
  <2> DEFINE doc == BuildIsolationPolicy(pass.obj.urn, pass.readers)
  <2>1. pass.pc = "policy" /\ (policy' = policy \/ policy' = [policy EXCEPT ![k] = doc])
    BY <1>2 DEF ApplyPolicy, At
  <2>2. g \in pass.readers
    BY <2>1 DEF IInv, Working, Settled
  <2>3. g \notin {Admin, NoGroup, pass.obj.urn}
    BY <1>1, <2>1, Constants DEF IInv, TypeOK, Working, Belonging, Belongs, Standing
  <2>4. doc # {}
    BY PolicyStatements
  <2>5. Allows(doc, g, "read")
    BY <2>2, <2>3, OthersReadIfGranted DEF Actions, ReaderAllowedActions
  <2> HIDE DEF doc
  <2> QED
    BY <1>1, <2>1, <2>4, <2>5
<1>3. CASE RemoveBucket
  BY <1>1, <1>3 DEF RemoveBucket
<1>4. CASE Provision \/ ResolveGrant \/ MarkReady \/ FailPass \/ Release \/ DropFinalizer
  BY <1>4 DEF Provision, ResolveGrant, MarkReady, FailPass, Release, DropFinalizer, provVars
<1>5. CASE CallFails \/ Crash
  BY <1>5 DEF CallFails, Crash, provVars
<1>6. ASSUME NEW q \in Crs, StartPass(q) \/ CacheSync(q) \/ GroupDeleted(q) PROVE policy' = policy
  BY <1>6 DEF StartPass, CacheSync, GroupDeleted, provVars
<1>7. ASSUME NEW q \in Crs,
             UserCreates(q) \/ UserDeletes(q) \/ UserGrants(q) \/ StatusOverwritten(q)
      PROVE  policy' = policy
  BY <1>7 DEF UserCreates, UserDeletes, UserGrants, StatusOverwritten, Write, provVars
<1>8. ASSUME NEW q \in Names, Settle(q) PROVE policy' = policy
  BY <1>8 DEF Settle
<1>9. CASE UNCHANGED vars
  BY <1>9 DEF vars
<1> QED
  BY <1>2, <1>3, <1>4, <1>5, <1>6, <1>7, <1>8, <1>9 DEF Next, Pass

\* In every plan in which the provider's reads are up to date (~Lag, a hypothesis of
\* the property), a reader that is granted, alive and attributed keeps its access
\* through every pass over the grantor (NoSpuriousRevocation): resolveReadGrants
\* turns a provider that fails into an error, not into an unresolved grant, and a
\* pass that wrote the policy had resolved every grant. Where tags lag, a pass does
\* take access away, and nothing is claimed.
THEOREM NoReaderShutOut == Spec => NoSpuriousRevocation
<1> DEFINE Body ==
      \A n, r \in Crs :
        LET m == NameOf[r]
        IN  (/\ r # n /\ pass.of = n /\ r \in pass.obj.grants
             /\ cr[r].exists /\ ~cr[r].deleting
             /\ own[m] = r /\ group[m] \in live /\ ~Lag
             /\ own[NameOf[n]] = n /\ own'[NameOf[n]] = n
             /\ Reads(n, group[m]))
            => Reads(n, group[m])'
<1>1. IInv /\ [Next]_vars => Body
  <2> SUFFICES ASSUME IInv, [Next]_vars, NEW n \in Crs, NEW r \in Crs,
                      r # n, pass.of = n, r \in pass.obj.grants,
                      cr[r].exists, ~cr[r].deleting,
                      own[NameOf[r]] = r, group[NameOf[r]] \in live, ~Lag,
                      own[NameOf[n]] = n, own'[NameOf[n]] = n,
                      Reads(n, group[NameOf[r]])
               PROVE  Reads(n, group[NameOf[r]])'
    OBVIOUS
  <2>1. Standing(r)
    BY DEF Standing
  <2>2. group'[NameOf[r]] = group[NameOf[r]]
    BY <2>1, AttributionKept
  <2>3. \/ policy'[NameOf[n]] = policy[NameOf[n]]
        \/ /\ policy'[NameOf[n]] # {}
           /\ Allows(policy'[NameOf[n]], group[NameOf[r]], "read")
    BY <2>1, ReaderKept
  <2> QED
    BY <2>2, <2>3 DEF Reads
<1>2. IInv /\ [Next]_vars => [Body]_vars
  BY <1>1
<1> QED
  BY <1>2, GrantsInvariance, PTL DEF Spec, NoSpuriousRevocation
=============================================================================
