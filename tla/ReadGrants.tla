----------------------------- MODULE ReadGrants -----------------------------
(***************************************************************************)
(* Read grants between Buckets (internal/controller/bucket_controller.go): *)
(* how a grant in spec.grantReadAccess becomes a statement of the          *)
(* grantor's bucket policy, and how a grantor learns that a grantee        *)
(* appeared, got or changed its credentials group, or is going away.       *)
(*                                                                         *)
(* The controller reconciles one Bucket at a time, taken from its queue. A *)
(* pass provisions its own bucket and group (one step here:                *)
(* BucketReconciler has the details), resolves one grant after the other   *)
(* from the informer's copy of the grantee and from the grantee's bucket,  *)
(* writes the policy, and writes its status. Two Buckets may aim at the    *)
(* same bucket name; the ownership tags then decide. Clones, which hold    *)
(* grants back, are in Clone.                                              *)
(***************************************************************************)
EXTENDS Naturals, IsolationPolicy

CONSTANTS
  MaxCrs,         \* bound: the Buckets of the namespace, 1..MaxCrs
  NameOf,         \* the bucket name of each Bucket
  InitialGrants,  \* spec.grantReadAccess of each Bucket when it is created
  MaxGroups,      \* bound: credentials groups created for one Bucket
  Plans           \* the situations this instance goes through, by name

Crs == 1..MaxCrs
NoOwner == 0

\* created: the Buckets that exist at first; at most edits changes by users,
\* failures crashes and failing calls, and disturbances groups deleted or status
\* fields overwritten (bounds). With lag the provider's reads lag and the drift
\* resync is on; without it the informer's events alone wake a Bucket.
Plan == [created : SUBSET Crs, edits : Nat, failures : Nat,
         disturbances : Nat, lag : BOOLEAN]

Names == {NameOf[n] : n \in Crs}
GroupIds == Crs \X (1..MaxGroups)
OwnerOf(g) == g[1]

ASSUME GrantsAssumption ==
  /\ MaxCrs \in Nat /\ MaxGroups \in Nat
  /\ NameOf \in [Crs -> Nat]
  /\ InitialGrants \in [Crs -> SUBSET Crs]
  /\ \A name \in DOMAIN Plans : Plans[name] \in Plan
  /\ \A g \in GroupIds : g # Admin /\ g # NoGroup

VARIABLES
  (* The Kubernetes API server, and the informer's copy. *)
  cr, cache,
  (* The provider. *)
  own,     \* the Bucket the ownership tags of a bucket name; NoOwner: no bucket
  group,   \* the credentials group its tags attribute
  policy,  \* its policy; {}: none
  seen,    \* tags and policy as a lagging read still shows them
  live,    \* the credentials groups that exist
  made,    \* how many were created for each Bucket
  (* The operator. *)
  wake,    \* a pass over the Bucket is due
  pass,    \* the pass under way
  (* History. *)
  named,   \* the Buckets each Bucket has named so far
  budget   \* the plan of this behaviour and what is left of its bounds

apiVars == <<cr, cache>>
provVars == <<own, group, policy, seen, live, made>>
vars == <<cr, cache, own, group, policy, seen, live, made, wake, pass, named, budget>>

\* spec: grants; status: credentialsGroupURN and grantedReadTo.
Object == [exists : BOOLEAN, deleting : BOOLEAN, grants : SUBSET Crs,
           urn : GroupIds \cup {NoGroup, Admin}, granted : SUBSET Crs]
NoObject == [exists |-> FALSE, deleting |-> FALSE, grants |-> {}, urn |-> NoGroup,
             granted |-> {}]
NewObject(n) == [NoObject EXCEPT !.exists = TRUE, !.grants = InitialGrants[n]]

Steps == {"idle", "provision", "resolve", "policy", "ready", "fail", "fault",
          "release", "remove", "finalize"}
Idle == [of |-> NoOwner, pc |-> "idle", obj |-> NoObject, stale |-> FALSE, todo |-> {}, readers |-> {},
         granted |-> {}]

Init ==
  /\ \E plan \in DOMAIN Plans :
       /\ cr = [n \in Crs |-> IF n \in Plans[plan].created THEN NewObject(n) ELSE NoObject]
       /\ budget = [plan |-> plan, edit |-> Plans[plan].edits, fail |-> Plans[plan].failures,
                    disturb |-> Plans[plan].disturbances]
  /\ cache = cr
  /\ own = [m \in Names |-> NoOwner]
  /\ group = [m \in Names |-> NoGroup]
  /\ policy = [m \in Names |-> {}]
  /\ seen = [m \in Names |-> [group |-> NoGroup, policy |-> {}]]
  /\ live = {} /\ made = [n \in Crs |-> 0]
  /\ wake = [n \in Crs |-> cr[n].exists]
  /\ pass = Idle
  /\ named = InitialGrants

----------------------------------------------------------------------------

Lag == Plans[budget.plan].lag
Resync == Lag

TagReads(m) == {group[m]} \cup (IF Lag THEN {seen[m].group} ELSE {})
PolicyReads(m) == {policy[m]} \cup (IF Lag THEN {seen[m].policy} ELSE {})

Fault ==
  /\ budget.fail > 0
  /\ budget' = [budget EXCEPT !.fail = @ - 1]

At(step) == pass.pc = step
Goto(step) == pass' = [pass EXCEPT !.pc = step]
Resolving(todo) == IF todo = {} THEN "policy" ELSE "resolve"

EndPass(requeue) ==
  /\ pass' = Idle
  /\ wake' = [wake EXCEPT ![pass.of] = @ \/ requeue]

\* Reconcile, from the informer's copy; a Bucket that is gone needs nothing.
StartPass(n) ==
  /\ At("idle") /\ wake[n]
  /\ wake' = [wake EXCEPT ![n] = FALSE]
  /\ pass' = IF cache[n].exists
               THEN [Idle EXCEPT !.of = n,
                                 !.pc = IF cache[n].deleting THEN "release" ELSE "provision",
                                 !.obj = cache[n], !.stale = cache[n] # cr[n]]
               ELSE pass
  /\ UNCHANGED <<apiVars, provVars, named, budget>>

\* ensureBucket and resolveWorkloadGroup: a bucket with the tags of another
\* Bucket is a collision; otherwise the bucket and the group it attributes are
\* there afterwards.
Provision ==
  LET n     == pass.of
      m     == NameOf[n]
      kept  == own[m] = n /\ group[m] \in live
      fresh == <<n, made[n] + 1>>
      todo  == pass.obj.grants \ {n}
  IN  /\ At("provision")
      /\ \/ own[m] \notin {NoOwner, n} /\ Goto("fault") /\ UNCHANGED provVars
         \/ /\ own[m] \in {NoOwner, n}
            /\ kept \/ made[n] < MaxGroups
            /\ own' = [own EXCEPT ![m] = n]
            /\ group' = IF kept THEN group ELSE [group EXCEPT ![m] = fresh]
            /\ live' = live \cup {group'[m]}
            /\ made' = IF kept THEN made ELSE [made EXCEPT ![n] = @ + 1]
            /\ pass' = [pass EXCEPT !.pc = Resolving(todo), !.obj.urn = group'[m], !.todo = todo]
            /\ UNCHANGED <<policy, seen>>
      /\ UNCHANGED <<apiVars, wake, named, budget>>

\* Mutant of GroupFromBucket: the group is taken from the status of the grantee.
GroupFromStatus(r, tag, doc) == cache[r].urn

\* resolveWorkloadGroup without create, for the grantee r: only its own bucket
\* attributes a group, and only one that exists; the tags come first, then the
\* policy.
GroupFromBucket(r, tag, doc) ==
  LET candidates == {tag, WorkloadPrincipalFromPolicy(doc)} \cap live
  IN  IF own[NameOf[r]] # r \/ candidates = {} THEN NoGroup
      ELSE IF tag \in candidates THEN tag
      ELSE WorkloadPrincipalFromPolicy(doc)

\* resolveReadGrants, one grant: a grantee that is absent, going away or without a
\* group is skipped. A group found through the policy is stamped on the bucket. A
\* read from before the group was recorded may miss the ownership tags as well.
ResolveGrant ==
  /\ At("resolve")
  /\ \E r \in pass.todo :
       /\ \A q \in pass.todo : r <= q
       /\ \E tag \in TagReads(NameOf[r]), doc \in PolicyReads(NameOf[r]), owned \in BOOLEAN :
            LET g     == GroupFromBucket(r, tag, doc)
                found == cache[r].exists /\ ~cache[r].deleting /\ owned /\ g # NoGroup
            IN  /\ owned \/ tag = NoGroup
                /\ group' = IF found /\ g # tag THEN [group EXCEPT ![NameOf[r]] = g] ELSE group
                /\ pass' = [pass EXCEPT
                     !.pc = Resolving(pass.todo \ {r}),
                     !.todo = @ \ {r},
                     !.readers = @ \cup (IF found THEN {g} ELSE {}),
                     !.granted = @ \cup (IF found THEN {r} ELSE {})]
  /\ UNCHANGED <<apiVars, own, policy, seen, live, made, wake, named, budget>>

\* The status copy takes the resolved grants before the policy is written.
PolicyStep(step) == pass' = [pass EXCEPT !.pc = step, !.obj.granted = pass.granted]

\* applyPolicy and ensureBucketPolicy: the document is written if it differs from
\* what is read. The write's answer may be lost.
ApplyPolicy ==
  LET m       == NameOf[pass.of]
      desired == BuildIsolationPolicy(pass.obj.urn, pass.readers)
  IN  /\ At("policy")
      /\ \E doc \in PolicyReads(m) :
           \/ doc = desired /\ PolicyStep("ready") /\ UNCHANGED <<policy, budget>>
           \/ /\ doc # desired
              /\ policy' = [policy EXCEPT ![m] = desired]
              /\ \/ PolicyStep("ready") /\ UNCHANGED budget
                 \/ PolicyStep("fail") /\ Fault
      /\ UNCHANGED <<apiVars, own, group, seen, live, made, wake, named>>

WriteStatus ==
  cr' = [cr EXCEPT ![pass.of].urn = pass.obj.urn, ![pass.of].granted = pass.obj.granted]

\* The terminal status write; a conflict or a failure requeues the Bucket.
MarkReady ==
  /\ At("ready")
  /\ \/ ~pass.stale /\ WriteStatus /\ EndPass(Resync) /\ UNCHANGED budget
     \/ pass.stale /\ EndPass(TRUE) /\ UNCHANGED <<cr, budget>>
     \/ Fault /\ EndPass(TRUE) /\ UNCHANGED cr
  /\ UNCHANGED <<cache, provVars, named>>

\* fail and failNoRequeue: the status is written as far as the pass got, best
\* effort; a fault of the configuration is not retried.
FailPass ==
  /\ pass.pc \in {"fail", "fault"}
  /\ IF pass.stale THEN UNCHANGED cr ELSE WriteStatus
  /\ EndPass(At("fail"))
  /\ UNCHANGED <<cache, provVars, named, budget>>

\* teardown: the credentials first, then the bucket, then the finalizer; a bucket
\* of somebody else is left alone.
Release ==
  LET m == NameOf[pass.of]
  IN  /\ At("release")
      /\ \/ own[m] = pass.of /\ live' = live \ {group[m]} /\ Goto("remove")
         \/ own[m] # pass.of /\ Goto("finalize") /\ UNCHANGED live
      /\ UNCHANGED <<apiVars, own, group, policy, seen, made, wake, named, budget>>

RemoveBucket ==
  LET m == NameOf[pass.of]
  IN  /\ At("remove")
      /\ own' = [own EXCEPT ![m] = NoOwner]
      /\ group' = [group EXCEPT ![m] = NoGroup]
      /\ policy' = [policy EXCEPT ![m] = {}]
      /\ seen' = [seen EXCEPT ![m] = [group |-> NoGroup, policy |-> {}]]
      /\ Goto("finalize")
      /\ UNCHANGED <<apiVars, live, made, wake, named, budget>>

DropFinalizer ==
  /\ At("finalize")
  /\ \/ ~pass.stale /\ cr' = [cr EXCEPT ![pass.of] = NoObject] /\ EndPass(FALSE)
     \/ pass.stale /\ UNCHANGED cr /\ EndPass(TRUE)
  /\ UNCHANGED <<cache, provVars, named, budget>>

\* Mutant of CallFails: a provider that cannot be asked counts as a grant that
\* does not resolve.
CallFailsSkipsGrants ==
  /\ At("resolve")
  /\ Fault
  /\ pass' = [pass EXCEPT !.pc = "policy", !.todo = {}]
  /\ UNCHANGED <<apiVars, provVars, wake, named>>

\* A call to the provider fails without effect.
CallFails ==
  /\ pass.pc \in {"provision", "resolve", "policy", "release", "remove"}
  /\ Fault
  /\ IF At("policy") THEN PolicyStep("fail") ELSE Goto("fail")
  /\ UNCHANGED <<apiVars, provVars, wake, named>>

----------------------------------------------------------------------------

\* Mutant of GranteeCredentialsPredicate: only creation and deletion count.
PredicateIgnoresGroups(old, new) == old.exists # new.exists

\* granteeCredentialsPredicate
GranteeCredentialsPredicate(old, new) ==
  \/ old.exists # new.exists
  \/ old.deleting # new.deleting
  \/ old.urn # new.urn

\* bucketsGrantingTo, from the informer's cache.
BucketsGrantingTo(n) == {k \in Crs \ {n} : cache[k].exists /\ n \in cache[k].grants}

\* The informer delivers the changes of one Bucket: to the Bucket itself when its
\* spec changed, to its grantors when the predicate passes.
CacheSync(n) ==
  /\ cache[n] # cr[n]
  /\ cache' = [cache EXCEPT ![n] = cr[n]]
  /\ LET spec(o) == <<o.exists, o.deleting, o.grants>>
         woken   == (IF spec(cache[n]) # spec(cr[n]) THEN {n} ELSE {})
                      \cup (IF GranteeCredentialsPredicate(cache[n], cr[n])
                              THEN BucketsGrantingTo(n) ELSE {})
     IN  wake' = [k \in Crs |-> wake[k] \/ k \in woken]
  /\ UNCHANGED <<cr, provVars, pass, named, budget>>

\* The operator dies; its successor lists and reconciles every Bucket.
Crash ==
  /\ ~At("idle")
  /\ Fault
  /\ pass' = Idle
  /\ cache' = cr
  /\ wake' = [n \in Crs |-> cr[n].exists]
  /\ UNCHANGED <<cr, provVars, named>>

\* Somebody writes the Bucket; the status write of a pass under way conflicts.
Write(n, new) ==
  /\ cr' = [cr EXCEPT ![n] = new]
  /\ pass' = [pass EXCEPT !.stale = @ \/ pass.of = n]
  /\ UNCHANGED <<cache, provVars, wake>>

Edit ==
  /\ budget.edit > 0
  /\ budget' = [budget EXCEPT !.edit = @ - 1]

\* Users create and delete Buckets and change their grants. A Bucket is created
\* again only after the informer has seen the old one go.
UserCreates(n) ==
  /\ Edit
  /\ ~cr[n].exists /\ ~cache[n].exists
  /\ Write(n, NewObject(n))
  /\ UNCHANGED named

UserDeletes(n) ==
  /\ Edit
  /\ cr[n].exists /\ ~cr[n].deleting
  /\ Write(n, [cr[n] EXCEPT !.deleting = TRUE])
  /\ UNCHANGED named

UserGrants(n) ==
  /\ Edit
  /\ cr[n].exists /\ ~cr[n].deleting
  /\ \E r \in Crs :
       LET grants == IF r \in cr[n].grants THEN cr[n].grants \ {r} ELSE cr[n].grants \cup {r}
       IN  /\ Write(n, [cr[n] EXCEPT !.grants = grants])
           /\ named' = [named EXCEPT ![n] = @ \cup grants]

Disturb ==
  /\ budget.disturb > 0
  /\ budget' = [budget EXCEPT !.disturb = @ - 1]

\* Anybody who may write the status of a Bucket can put any group there.
StatusOverwritten(n) ==
  /\ Disturb
  /\ cr[n].exists
  /\ \E urn \in live \cup {Admin} :
       urn # cr[n].urn /\ Write(n, [cr[n] EXCEPT !.urn = urn])
  /\ UNCHANGED named

\* A group is deleted out of band, and the drift resync of its Bucket comes due.
GroupDeleted(n) ==
  /\ Disturb
  /\ own[NameOf[n]] = n /\ group[NameOf[n]] \in live
  /\ live' = live \ {group[NameOf[n]]}
  /\ wake' = [wake EXCEPT ![n] = TRUE]
  /\ UNCHANGED <<apiVars, own, group, policy, seen, made, pass, named>>

\* The provider's reads catch up.
Settle(m) ==
  /\ Lag
  /\ seen[m] # [group |-> group[m], policy |-> policy[m]]
  /\ seen' = [seen EXCEPT ![m] = [group |-> group[m], policy |-> policy[m]]]
  /\ UNCHANGED <<apiVars, own, group, policy, live, made, wake, pass, named, budget>>

----------------------------------------------------------------------------

Pass ==
  \/ Provision \/ ResolveGrant \/ ApplyPolicy \/ MarkReady \/ FailPass
  \/ Release \/ RemoveBucket \/ DropFinalizer

Next ==
  \/ Pass \/ CallFails \/ Crash
  \/ \E n \in Crs :
       \/ StartPass(n) \/ CacheSync(n)
       \/ UserCreates(n) \/ UserDeletes(n) \/ UserGrants(n)
       \/ StatusOverwritten(n) \/ GroupDeleted(n)
  \/ \E m \in Names : Settle(m)

Spec == Init /\ [][Next]_vars

\* The worker brings a pass to its end and the queue passes no Bucket over (it is
\* first come, first served); the informer and the provider's reads catch up.
FairSpec ==
  /\ Spec
  /\ WF_vars(Pass)
  /\ \A n \in Crs : SF_vars(StartPass(n)) /\ WF_vars(CacheSync(n))
  /\ \A m \in Names : WF_vars(Settle(m))

----------------------------------------------------------------------------
(* Properties. *)

TypeOK ==
  /\ cr \in [Crs -> Object] /\ cache \in [Crs -> Object]
  /\ own \in [Names -> Crs \cup {NoOwner}]
  /\ group \in [Names -> GroupIds \cup {NoGroup}]
  /\ policy \in [Names -> SUBSET Statements(GroupIds \cup {Admin})]
  /\ seen \in [Names -> [group : GroupIds \cup {NoGroup},
                         policy : SUBSET Statements(GroupIds \cup {Admin})]]
  /\ live \subseteq GroupIds
  /\ made \in [Crs -> 0..MaxGroups]
  /\ wake \in [Crs -> BOOLEAN]
  /\ pass \in [of : Crs \cup {NoOwner}, pc : Steps, obj : Object, stale : BOOLEAN,
               todo : SUBSET Crs, readers : SUBSET GroupIds, granted : SUBSET Crs]
  /\ named \in [Crs -> SUBSET Crs]
  /\ budget \in [plan : DOMAIN Plans, edit : Nat, fail : Nat, disturb : Nat]

\* What the policies let each principal do.
Access == [m \in Names |->
             [p \in GroupIds \cup {Admin} |-> {a \in Actions : Allows(policy[m], p, a)}]]

Promise == INSTANCE ReadAccess WITH
  Crs <- Crs, Names <- Names, GroupIds <- GroupIds, OwnerOf <- OwnerOf, NoOwner <- NoOwner,
  Admin <- Admin, NoGroup <- NoGroup,
  named <- named, owner <- own, access <- Access

\* The policies this module writes keep the promise of ReadAccess: whatever stands
\* in a status, whoever else aims at the same bucket name and whichever copy of a
\* grantee a pass sees, the operator is never denied anything, the workload keeps
\* its objects, readers only read, and only groups of named Buckets are readers
\* (resolveReadGrants, BuildIsolationPolicy).
KeepsPromise == Promise!Spec

Reads(n, g) == policy[NameOf[n]] # {} /\ Allows(policy[NameOf[n]], g, "read")

\* When the provider's reads are up to date (~Lag), a reader that is granted, alive
\* and attributed is not shut out, not even for one pass: a provider that fails to
\* answer is an error, never an unresolved grant (resolveReadGrants). With lagging
\* reads this does not hold: a pass that misses the attribution of a new group
\* rewrites the policy without it.
NoSpuriousRevocation ==
  [][ \A n, r \in Crs :
        LET m == NameOf[r]
        IN  (/\ r # n /\ pass.of = n /\ r \in pass.obj.grants
             /\ cr[r].exists /\ ~cr[r].deleting
             /\ own[m] = r /\ group[m] \in live /\ ~Lag
             /\ own[NameOf[n]] = n /\ own'[NameOf[n]] = n
             /\ Reads(n, group[m]))
            => Reads(n, group[m])' ]_vars

\* The groups that the current grants of n lead to.
Resolvable(n) ==
  {r \in cr[n].grants \ {n} :
     cr[r].exists /\ ~cr[r].deleting /\ own[NameOf[r]] = r /\ group[NameOf[r]] \in live}

\* Once users and failures have come to rest, every policy grants exactly what the
\* spec asks for and can be resolved, and status.grantedReadTo says so: no wake-up
\* of a grantor is lost between the predicate, the listing of grantors and a pass
\* that is under way, and the grant to a Bucket that is gone ends.
GrantsConverge ==
  <>[](\A n \in Crs :
         (cr[n].exists /\ ~cr[n].deleting /\ own[NameOf[n]] = n) =>
           /\ policy[NameOf[n]] =
                BuildIsolationPolicy(group[NameOf[n]], {group[NameOf[r]] : r \in Resolvable(n)})
           /\ cr[n].granted = Resolvable(n))
=============================================================================
