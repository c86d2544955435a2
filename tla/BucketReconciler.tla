-------------------------- MODULE BucketReconciler --------------------------
(***************************************************************************)
(* One Bucket and the passes of the bucket controller over it              *)
(* (internal/controller/bucket_controller.go): provisioning of the bucket, *)
(* its ownership, its credentials group, its isolation policy and the      *)
(* workload's access key and Secret, and the teardown behind the           *)
(* finalizer.                                                              *)
(*                                                                         *)
(* A pass is a sequence of calls, one step each, on the provider and on    *)
(* the Kubernetes API. Between two calls everything else can happen: the   *)
(* operator crashes, a call fails before or after it took effect, users    *)
(* edit or delete the Bucket, the usage controller patches it, somebody    *)
(* deletes a key, a group or the bucket out of band, the workload writes   *)
(* objects. The pass works on a copy of the Bucket read from the informer  *)
(* cache, and every write of that copy is refused when the object moved.   *)
(*                                                                         *)
(* Clones and read grants are not part of this module. The group id and    *)
(* its URN are one value, stamped together; a bucket whose tags are from   *)
(* before the URN tag, which groupFromTags completes from the listing, is  *)
(* left out, and so is a Bucket whose Secret is the operator's own, which  *)
(* specGuardError refuses and teardown skips.                              *)
(***************************************************************************)
EXTENDS Integers, FiniteSets

CONSTANTS
  MaxGroups, MaxKeys,   \* bounds: identities of credentials groups and of keys
  MaxRotations,         \* bound: values of the rotate-credentials-at annotation
  EnableWipeOnDelete,   \* the operator's wipe feature gate
  Grace,                \* ProviderDegradedGrace > 0
  Plans                 \* the situations this instance goes through, by name

FailureKinds == {"crash", "call"}
EditKinds == {"rotate", "spec", "wipe", "delete", "usage", "secret", "data"}
DisturbanceKinds == {"key", "group", "bucket", "bucket mid-pass", "foreign", "retract"}
StartKinds == {"new", "recreatable", "legacy", "foreign"}

\* starts: the initial situations; failures, edits, disturbances: the kinds a
\* behaviour meets, at most maxFailures, maxEdits and maxDisturbances of them
\* (bounds); resync: DriftResyncInterval > 0; lags: whose reads may lag, the
\* provider's or one of the two informers'.
Plan == [starts : SUBSET StartKinds,
         failures : SUBSET FailureKinds, maxFailures : Nat,
         edits : SUBSET EditKinds, maxEdits : Nat,
         disturbances : SUBSET DisturbanceKinds, maxDisturbances : Nat,
         resync : BOOLEAN, lags : SUBSET {"provider", "buckets", "secrets"}]

ASSUME ReconcilerAssumption ==
  /\ MaxGroups \in Nat \ {0} /\ MaxKeys \in Nat \ {0} /\ MaxRotations \in Nat
  /\ EnableWipeOnDelete \in BOOLEAN /\ Grace \in BOOLEAN
  /\ \A name \in DOMAIN Plans : Plans[name] \in Plan

VARIABLES
  (* The Kubernetes API server. *)
  cr,        \* the Bucket
  secret,    \* the key in the workload Secret; None: no Secret, or no credential in it
  (* The provider. *)
  bucket,    \* the bucket under the frozen name: incarnation, tags, content
  policy,    \* the workload group its isolation policy names; None: no policy
  groups,    \* the live credentials groups
  keyGroup,  \* the group of each live access key; None: no such key
  seen,      \* what a lagging read of bucket, tags, policy and listing still shows
  incs,      \* incarnations of the bucket so far
  (* The operator. *)
  cache,     \* the informer's copy of the Bucket
  stored,    \* the informer's copy of the Secret
  wake,      \* a pass is due: an event, a requeue or a timer
  pc,        \* the call the pass makes next
  b,         \* the pass's copy of the Bucket
  stale,     \* the Bucket has moved since b was read: writes of b conflict
  fresh,     \* ensureBucket created the bucket in this pass
  recreate,  \* guardBucketPresent authorised a re-creation in this pass
  gid,       \* the resolved workload group
  made,      \* the group was created in this pass
  key,       \* the key created in this pass
  drain,     \* the keys DeleteAllAccessKeys has listed and not deleted yet
  err,       \* the failure that ends the pass
  (* History. *)
  readyInc,  \* the incarnation behind the last persisted Ready
  reported,  \* the incarnation whose re-creation was last reported
  lost,      \* whether the bucket was deleted out of band: never, between two
             \* passes, or during one, behind guardBucketPresent's back
  behind,    \* the bucket came into other hands, or objects into one that is not
             \* ours, since the pass's last look at it, before a call that relies on it
  budget     \* the plan of this behaviour and what is left of its bounds

secretVars == <<secret, stored>>
apiVars == <<cr, secretVars>>
provVars == <<bucket, policy, groups, keyGroup, seen, incs>>
passVars == <<b, fresh, recreate, gid, made, key, drain, err>>
histVars == <<readyInc, reported, lost, behind>>
vars == <<cr, secret, bucket, policy, groups, keyGroup, seen, incs, cache, stored,
          wake, pc, b, stale, fresh, recreate, gid, made, key, drain, err,
          readyInc, reported, lost, behind, budget>>

Failures == Plans[budget.plan].failures
Edits == Plans[budget.plan].edits
Disturbances == Plans[budget.plan].disturbances
Resync == Plans[budget.plan].resync
Lags == Plans[budget.plan].lags

None == 0
Groups == 1..MaxGroups
Keys == 1..MaxKeys

Phases == {"Pending", "Provisioning", "Ready", "Failed", "Deleting"}
Errors == {"none", "unreachable", "refused", "destroyed", "definitive", "missing"}

Status == [phase : Phases, ready : BOOLEAN, observed : Nat, resolved : BOOLEAN,
           group : Groups \cup {None}, rotated : 0..MaxRotations,
           degraded : BOOLEAN, missing : BOOLEAN]

\* status: the fields the passes read; spec: generation, allowRecreate,
\* wipeOnDelete and whether it holds a fault specGuardError rejects; metadata: finalizer, the
\* resolved-bucket-name and rotate-credentials-at annotations.
Resource == [exists : BOOLEAN, deleting : BOOLEAN, finalizer : BOOLEAN, named : BOOLEAN,
             rotate : 0..MaxRotations, generation : Nat, allowRecreate : BOOLEAN,
             wipe : BOOLEAN, faulty : BOOLEAN, status : Status]

Cloud == [inc : Nat, owner : {"none", "us", "other"}, group : Groups \cup {None},
          data : BOOLEAN]

NewStatus == [phase |-> "Pending", ready |-> FALSE, observed |-> 0, resolved |-> FALSE,
              group |-> None, rotated |-> 0, degraded |-> FALSE, missing |-> FALSE]

NewResource == [exists |-> TRUE, deleting |-> FALSE, finalizer |-> FALSE, named |-> FALSE,
                rotate |-> 0, generation |-> 1, allowRecreate |-> FALSE,
                wipe |-> FALSE, faulty |-> FALSE, status |-> NewStatus]

NoResource == [NewResource EXCEPT !.exists = FALSE]

\* A Bucket an earlier version of the operator provisioned, with group and key 1.
ReadyResource ==
  [NewResource EXCEPT
     !.finalizer = TRUE, !.named = TRUE,
     !.status = [NewStatus EXCEPT !.phase = "Ready", !.ready = TRUE, !.observed = 1,
                                  !.resolved = TRUE, !.group = 1]]

NoBucket == [inc |-> 0, owner |-> "none", group |-> None, data |-> FALSE]

InitialCR(start) ==
  CASE start = "legacy"      -> ReadyResource
    [] start = "recreatable" -> [ReadyResource EXCEPT !.allowRecreate = TRUE]
    [] OTHER                 -> NewResource

\* "legacy" is a bucket from before the group tags existed: only its policy
\* names the group. "foreign" is a bucket of somebody else under our name, with
\* a group and a key that are not ours.
InitialBucket(start) ==
  CASE start = "new"         -> NoBucket
    [] start = "legacy"      -> [inc |-> 1, owner |-> "us", group |-> None, data |-> FALSE]
    [] start = "recreatable" -> [inc |-> 1, owner |-> "us", group |-> 1, data |-> FALSE]
    [] start = "foreign"     -> [inc |-> 1, owner |-> "other", group |-> 1, data |-> TRUE]

Init ==
  \E plan \in DOMAIN Plans : \E start \in Plans[plan].starts :
    LET first == IF start = "new" THEN None ELSE 1
    IN  /\ cr = InitialCR(start)
        /\ cache = cr
        /\ secret = IF start \in {"legacy", "recreatable"} THEN 1 ELSE None
        /\ stored = secret
        /\ bucket = InitialBucket(start)
        /\ policy = first
        /\ groups = IF start = "new" THEN {} ELSE {1}
        /\ keyGroup = [k \in Keys |-> IF k = 1 THEN first ELSE None]
        /\ seen = [bucket |-> bucket, policy |-> policy, groups |-> groups]
        /\ incs = bucket.inc
        /\ wake = TRUE
        /\ pc = "idle"
        /\ b = NoResource /\ stale = FALSE
        /\ fresh = FALSE /\ recreate = FALSE /\ gid = None /\ made = FALSE
        /\ key = None /\ drain = {} /\ err = "none"
        /\ readyInc = IF cr.status.ready THEN 1 ELSE 0
        /\ reported = 0 /\ lost = "never" /\ behind = FALSE
        /\ budget = [plan |-> plan, fail |-> Plans[plan].maxFailures,
                     edit |-> Plans[plan].maxEdits,
                     disturb |-> Plans[plan].maxDisturbances]

----------------------------------------------------------------------------
(* What the calls return. *)

KeysOf(g) == {k \in Keys : keyGroup[k] = g}

Lag == "provider" \in Lags

\* The provider is eventually consistent: a read of the tags, of the policy or of
\* a listing right after a write may still show what was there before it.
SeenBucket == IF seen.bucket.inc = bucket.inc THEN seen.bucket ELSE [NoBucket EXCEPT !.inc = bucket.inc]
TagReads == {bucket} \cup (IF Lag THEN {SeenBucket} ELSE {})
PolicyReads == {policy} \cup (IF Lag /\ seen.bucket.inc = bucket.inc THEN {seen.policy} ELSE {})
GroupListings == {groups} \cup (IF Lag THEN {groups \cap seen.groups} ELSE {})
HasBucketAnswers ==
  {bucket.inc # 0} \cup (IF Lag /\ seen.bucket.inc # bucket.inc THEN {FALSE} ELSE {})

\* WaitBucketVisible returns once the listing shows the bucket.
WaitBucketVisible ==
  seen' = IF Lag THEN [seen EXCEPT !.bucket = SeenBucket] ELSE seen

\* Identities of a new group or key: any that nothing refers to, the least one.
FreshGroup(g) ==
  LET free == Groups \ (groups \cup seen.groups \cup
                {bucket.group, policy, seen.bucket.group, seen.policy, cr.status.group,
                 cache.status.group, b.status.group, gid})
  IN  g \in free /\ \A h \in free : g <= h
FreshKey(k) ==
  LET free == {j \in Keys : keyGroup[j] = None /\ j \notin {secret, stored, key} /\ j \notin drain}
  IN  k \in free /\ \A j \in free : k <= j

PendingRotation(r) == r.rotate # 0 /\ r.rotate # r.status.rotated

\* provisioningSettled
ProvisioningSettled(r) ==
  r.status.observed = r.generation /\ r.status.phase \in {"Ready", "Failed"}

\* Mutant of HoldsReadyThrough: every failure is held.
HoldsReadyThroughAll(r, e) ==
  /\ Grace /\ ~r.deleting
  /\ r.status.observed = r.generation
  /\ r.status.phase = "Ready" /\ r.status.ready

\* holdsReadyThrough: only a failure to reach the provider is held, and only for
\* a Bucket that is Ready for its current generation and not being deleted.
HoldsReadyThrough(r, e) ==
  /\ Grace
  /\ ~r.deleting
  /\ e = "unreachable"
  /\ r.status.observed = r.generation
  /\ r.status.phase = "Ready" /\ r.status.ready

----------------------------------------------------------------------------
(* The steps of a pass. *)

Fails(kind) ==
  /\ kind \in Failures
  /\ budget.fail > 0
  /\ budget' = [budget EXCEPT !.fail = @ - 1]
Fault == Fails("call")

\* The pass goes on with the call p; nothing of the environment moves.
Goto(p) == pc' = p /\ UNCHANGED <<cache, wake, stale, err, budget>>

\* The pass fails with e: the next step records it.
FailWith(e) == pc' = "fail" /\ err' = e /\ UNCHANGED <<cache, wake, stale, budget>>

\* A call took effect. Its answer arrives and the pass goes on with p, or the
\* answer is lost and the pass takes the error path q with the failure e.
Applied(p, q, e) ==
  \/ Goto(p)
  \/ Fault /\ pc' = q /\ err' = e /\ UNCHANGED <<cache, wake, stale>>

EndPass(requeue) ==
  /\ pc' = "idle" /\ wake' = (wake \/ requeue)
  /\ b' = NoResource /\ stale' = FALSE
  /\ fresh' = FALSE /\ recreate' = FALSE /\ gid' = None /\ made' = FALSE
  /\ key' = None /\ drain' = {} /\ err' = "none"

\* A pass that reads the tags of the bucket, or that starts, knows whose it is.
NewLook == behind' = FALSE /\ UNCHANGED <<readyInc, reported, lost>>

\* Reconcile reads the Bucket from the informer's cache, which may be outdated.
StartPass ==
  /\ pc = "idle" /\ wake
  /\ "buckets" \in Lags \/ cache = cr
  /\ cache.exists
  /\ cache.deleting => cache.finalizer
  /\ b' = cache
  /\ stale' = (cache # cr)
  /\ wake' = FALSE
  /\ pc' = IF cache.deleting THEN "markDeleting"
           ELSE IF cache.finalizer THEN "persistName" ELSE "addFinalizer"
  /\ NewLook
  /\ UNCHANGED <<apiVars, provVars, cache, fresh, recreate, gid, made, key, drain, err, budget>>

AddFinalizer ==
  /\ pc = "addFinalizer"
  /\ UNCHANGED <<secretVars, provVars, histVars, cache>>
  /\ \/ /\ ~stale
        /\ cr' = [cr EXCEPT !.finalizer = TRUE]
        /\ b' = [b EXCEPT !.finalizer = TRUE]
        /\ Goto("persistName")
        /\ UNCHANGED <<fresh, recreate, gid, made, key, drain>>
     \/ stale /\ EndPass(TRUE) /\ UNCHANGED <<cr, budget>>

\* specGuardError, then decideBucketName and persistResolvedName: the name is
\* frozen in the annotation before any cloud resource exists.
PersistName ==
  /\ pc = "persistName"
  /\ UNCHANGED <<secretVars, provVars, histVars, fresh, recreate, gid, made, key, drain>>
  /\ \/ b.faulty /\ FailWith("definitive") /\ UNCHANGED <<cr, b>>
     \/ ~b.faulty /\ b.named /\ Goto("markProvisioning") /\ UNCHANGED <<cr, b>>
     \/ ~b.faulty /\ ~b.named /\ stale /\ FailWith("unreachable") /\ UNCHANGED <<cr, b>>
     \/ /\ ~b.faulty /\ ~b.named /\ ~stale
        /\ cr' = [cr EXCEPT !.named = TRUE]
        /\ b' = [b EXCEPT !.named = TRUE]
        /\ Goto("markProvisioning")

\* A best-effort hint: the write may conflict or fail and the pass goes on.
MarkProvisioning ==
  /\ pc = "markProvisioning"
  /\ UNCHANGED <<secretVars, provVars, histVars, cache, wake, stale, err,
                 fresh, recreate, gid, made, key, drain>>
  /\ pc' = "guardPresent"
  /\ IF ProvisioningSettled(b) \/ b.status.phase = "Provisioning"
       THEN UNCHANGED <<cr, b, budget>>
       ELSE LET st == [b.status EXCEPT !.phase = "Provisioning"]
            IN  /\ b' = [b EXCEPT !.status = st]
                /\ \/ cr' = (IF stale THEN cr ELSE [cr EXCEPT !.status = st]) /\ UNCHANGED budget
                   \/ Fault /\ UNCHANGED cr

\* Mutant of GuardBucketPresent: the spec is not asked.
GuardIgnoresSpec ==
  /\ pc = "guardPresent"
  /\ recreate' = (b.status.resolved /\ bucket.inc = 0)
  /\ Goto("hasBucket")
  /\ UNCHANGED <<apiVars, provVars, histVars, b, fresh, gid, made, key, drain>>

\* guardBucketPresent (after ensureAdmin and EnsureService, which can only fail):
\* the bucket of a Bucket that was provisioned once and is now gone is
\* re-created only when the spec allows it.
GuardBucketPresent ==
  /\ pc = "guardPresent"
  /\ UNCHANGED <<apiVars, provVars, histVars, b, fresh, gid, made, key, drain>>
  /\ LET gone == b.status.resolved /\ bucket.inc = 0
     IN  \/ ~gone /\ recreate' = FALSE /\ Goto("hasBucket")
         \/ gone /\ b.allowRecreate /\ recreate' = TRUE /\ Goto("hasBucket")
         \/ gone /\ ~b.allowRecreate /\ UNCHANGED recreate /\ FailWith("missing")

\* ensureBucket: the listing decides between adopting and creating.
HasBucket ==
  /\ pc = "hasBucket"
  /\ UNCHANGED <<apiVars, provVars, histVars, b, fresh, recreate, gid, made, key, drain>>
  /\ \E listed \in HasBucketAnswers : Goto(IF listed THEN "adopt" ELSE "createBucket")

\* Mutant of CreateBucket: a bucket that exists already is taken for our own.
CreateBucketTagsBlindly ==
  /\ pc = "createBucket"
  /\ UNCHANGED <<apiVars, groups, keyGroup, histVars, b, fresh, recreate, gid, made, key, drain>>
  /\ IF bucket.inc # 0
       THEN Goto("tagNew") /\ UNCHANGED <<bucket, policy, incs, seen>>
       ELSE /\ incs' = incs + 1
            /\ bucket' = [NoBucket EXCEPT !.inc = incs']
            /\ policy' = None
            /\ UNCHANGED seen
            /\ Applied("tagNew", "fail", "unreachable")

\* A bucket that appeared since the listing is met like any other that is there.
CreateBucket ==
  /\ pc = "createBucket"
  /\ UNCHANGED <<apiVars, groups, keyGroup, histVars, b, fresh, recreate, gid, made, key, drain>>
  /\ \/ bucket.inc # 0 /\ WaitBucketVisible /\ Goto("adopt") /\ UNCHANGED <<bucket, policy, incs>>
     \/ /\ bucket.inc = 0
        /\ incs' = incs + 1
        /\ bucket' = [NoBucket EXCEPT !.inc = incs']
        /\ policy' = None
        /\ UNCHANGED seen
        /\ Applied("tagNew", "fail", "unreachable")

\* The bucket this pass created becomes visible and is stamped with the ownership
\* tags; a re-creation is reported.
TagNew ==
  /\ pc = "tagNew" /\ bucket.inc # 0
  /\ WaitBucketVisible
  /\ bucket' = [bucket EXCEPT !.owner = "us", !.group = None]
  /\ Applied("resolveGroup", "fail", "unreachable")
  /\ fresh' = (pc' = "resolveGroup")
  /\ reported' = IF recreate /\ pc' = "resolveGroup" THEN bucket.inc ELSE reported
  /\ UNCHANGED <<apiVars, policy, groups, keyGroup, incs, readyInc, lost, behind, b, recreate, gid,
                 made, key, drain>>

\* adoptOrCollide: our own tags are adopted, an untagged bucket is claimed when it
\* is empty, everything else is a collision.
AdoptOrCollide ==
  /\ pc = "adopt" /\ bucket.inc # 0
  /\ NewLook
  /\ UNCHANGED <<apiVars, provVars, b, fresh, recreate, gid, made, key, drain>>
  /\ \E tags \in TagReads :
       \/ tags.owner = "us" /\ Goto("resolveGroup")
       \/ tags.owner = "none" /\ ~bucket.data /\ Goto("claim")
       \/ tags.owner = "none" /\ bucket.data /\ FailWith("definitive")
       \/ tags.owner = "other" /\ FailWith("definitive")

\* SetBucketTags replaces the whole tag set.
Claim ==
  /\ pc = "claim" /\ bucket.inc # 0
  /\ bucket' = [bucket EXCEPT !.owner = "us", !.group = None]
  /\ Applied("resolveGroup", "fail", "unreachable")
  /\ UNCHANGED <<apiVars, policy, groups, keyGroup, seen, incs, histVars, b, fresh, recreate,
                 gid, made, key, drain>>

\* groupFromTags, then groupFromPolicy: what the bucket itself attributes. The
\* probe of a tagged group answers at once; a group named only by the policy has
\* to be in the listing.
FromTags(tags) == IF tags.group \in groups THEN tags.group ELSE None
FromPolicy(doc, listing) == IF doc \in listing THEN doc ELSE None

\* Mutant of AttributionLagging: the read is trusted.
AttributionTrusted == FALSE

\* guardGroupCreate: the group that status records still exists, so a bucket
\* without attribution is a stale read.
AttributionLagging == b.status.group \in groups /\ ~fresh

PublishGroup(g) == b' = [b EXCEPT !.status.group = g] /\ gid' = g

\* resolveWorkloadGroup with create set.
ResolveGroup ==
  /\ pc = "resolveGroup" /\ bucket.inc # 0
  /\ NewLook
  /\ UNCHANGED <<apiVars, provVars, fresh, recreate, key, drain>>
  /\ \E tags \in TagReads, doc \in PolicyReads, listing \in GroupListings :
       LET tagged == FromTags(tags)
           named  == FromPolicy(doc, listing)
       IN  \/ tags.owner # "us" /\ FailWith("unreachable") /\ UNCHANGED <<b, gid, made>>
           \/ /\ tags.owner = "us" /\ tagged # None
              /\ PublishGroup(tagged) /\ Goto("ensurePolicy") /\ UNCHANGED made
           \/ /\ tags.owner = "us" /\ tagged = None /\ named # None
              /\ gid' = named /\ made' = FALSE /\ Goto("stamp") /\ UNCHANGED b
           \/ /\ tags.owner = "us" /\ tagged = None /\ named = None
              /\ UNCHANGED <<b, gid, made>>
              /\ IF AttributionLagging THEN FailWith("unreachable") ELSE Goto("createGroup")

\* createWorkloadGroup. A lost answer leaves a group nobody knows; it holds no key.
CreateGroup ==
  /\ pc = "createGroup"
  /\ \E g \in Groups :
       /\ FreshGroup(g)
       /\ groups' = groups \cup {g}
       /\ Applied("stamp", "fail", "unreachable")
       /\ gid' = IF pc' = "stamp" THEN g ELSE gid
       /\ made' = (pc' = "stamp")
  /\ UNCHANGED <<apiVars, bucket, policy, keyGroup, seen, incs, histVars, b, fresh, recreate,
                 key, drain>>

\* The group is recorded on the bucket; when that fails a group created in this
\* pass is deleted again.
StampError == IF made THEN "rollbackGroup" ELSE "fail"

Stamp ==
  /\ pc = "stamp" /\ bucket.inc # 0
  /\ bucket' = [bucket EXCEPT !.owner = "us", !.group = gid]
  /\ Applied("ensurePolicy", StampError, "unreachable")
  /\ b' = IF pc' = "ensurePolicy" THEN [b EXCEPT !.status.group = gid] ELSE b
  /\ UNCHANGED <<apiVars, policy, groups, keyGroup, seen, incs, histVars, fresh, recreate, gid,
                 made, key, drain>>

RollbackGroup ==
  /\ pc = "rollbackGroup"
  /\ groups' = groups \ {gid}
  /\ Goto("fail")
  /\ UNCHANGED <<apiVars, bucket, policy, keyGroup, seen, incs, histVars, passVars>>

\* ensureBucketPolicy writes only what differs from what it reads; a policy it
\* cannot read is written.
EnsurePolicy ==
  /\ pc = "ensurePolicy" /\ bucket.inc # 0
  /\ \E doc \in PolicyReads :
       \/ doc = gid /\ Goto("decideKey") /\ UNCHANGED policy
       \/ doc # gid /\ policy' = gid /\ Applied("decideKey", "fail", "unreachable")
       \/ Fault /\ policy' = gid /\ pc' = "decideKey" /\ UNCHANGED <<cache, wake, stale, err>>
  /\ UNCHANGED <<apiVars, bucket, groups, keyGroup, seen, incs, histVars, b, fresh, recreate, gid,
                 made, key, drain>>

\* ensureAccessKeyAndSecret: the credential in the Secret, as the informer shows
\* it, is kept when the group still holds a key and no rotation is pending;
\* otherwise the keys are cleared.
KeepCredential == stored # None /\ KeysOf(gid) # {} /\ ~PendingRotation(b)

\* Mutant of DecideKey: a lost Secret is replaced without clearing the keys.
DecideKeepsOldKeys ==
  /\ pc = "decideKey" /\ gid \in groups
  /\ \/ KeepCredential /\ Goto("markReady") /\ UNCHANGED drain
     \/ ~KeepCredential /\ drain' = {} /\ Goto("clearKeys")
  /\ UNCHANGED <<apiVars, provVars, histVars, b, fresh, recreate, gid, made, key>>

DecideKey ==
  /\ pc = "decideKey" /\ gid \in groups
  /\ \/ KeepCredential /\ Goto("markReady") /\ UNCHANGED drain
     \/ ~KeepCredential /\ drain' = KeysOf(gid) /\ Goto("clearKeys")
  /\ UNCHANGED <<apiVars, provVars, histVars, b, fresh, recreate, gid, made, key>>

\* DeleteAllAccessKeys: one call per listed key, an absent key tolerated; a
\* failure in between leaves the rest.
ClearKeys ==
  /\ pc \in {"clearKeys", "drainKeys"}
  /\ \/ /\ drain = {}
        /\ Goto(IF pc = "clearKeys" THEN "createKey" ELSE "deleteGroup")
        /\ UNCHANGED <<keyGroup, drain>>
     \/ \E k \in drain :
          /\ keyGroup' = [keyGroup EXCEPT ![k] = None]
          /\ drain' = drain \ {k}
          /\ Applied(pc, "fail", "unreachable")
  /\ UNCHANGED <<apiVars, bucket, policy, groups, seen, incs, histVars, b, fresh, recreate, gid,
                 made, key>>

\* From here on the published credential is known to be dead.
CreateKey ==
  /\ pc = "createKey" /\ gid \in groups
  /\ \E k \in Keys :
       /\ FreshKey(k)
       /\ keyGroup' = [keyGroup EXCEPT ![k] = gid]
       /\ Applied("writeSecret", "fail", "destroyed")
       /\ key' = IF pc' = "writeSecret" THEN k ELSE key
  /\ UNCHANGED <<apiVars, bucket, policy, groups, seen, incs, histVars, b, fresh, recreate, gid,
                 made, drain>>

\* A write of the Secret reaches the informer at once or later (SecretSync), and
\* its event wakes the Bucket (bucketsForSecret).
SecretWritten(k) ==
  /\ secret' = k
  /\ wake' = TRUE
  /\ stored' = IF "secrets" \in Lags THEN stored ELSE k

\* upsertSecret: CreateOrUpdate starts from the informer's copy, and is refused
\* when the Secret has moved since (AlreadyExists, NotFound or a conflict).
WriteSecret ==
  /\ pc = "writeSecret"
  /\ \/ /\ stored = secret
        /\ SecretWritten(key)
        /\ \/ pc' = "markReady" /\ UNCHANGED <<err, budget>>
           \/ Fault /\ pc' = "rollbackKey" /\ err' = "destroyed"
     \/ /\ stored # secret
        /\ pc' = "rollbackKey" /\ err' = "destroyed"
        /\ UNCHANGED <<secretVars, wake, budget>>
  /\ UNCHANGED <<cr, provVars, cache, stale, histVars, b, fresh, recreate, gid, made, key, drain>>

RollbackKey ==
  /\ pc = "rollbackKey"
  /\ keyGroup' = [keyGroup EXCEPT ![key] = None]
  /\ Goto("fail")
  /\ UNCHANGED <<apiVars, bucket, policy, groups, seen, incs, histVars, passVars>>

\* Mutant of ReadyStatus: a phase the CRD does not know.
ReadyStatusUnknownPhase ==
  [b.status EXCEPT !.phase = "Provisioned", !.ready = TRUE, !.group = gid]

\* recordPendingRotation and the terminal status write. A conflict returns an
\* error: nothing is recorded and the pass is retried.
ReadyStatus ==
  [phase |-> "Ready", ready |-> TRUE, observed |-> b.generation, resolved |-> TRUE,
   group |-> gid, rotated |-> IF PendingRotation(b) THEN b.rotate ELSE b.status.rotated,
   degraded |-> FALSE, missing |-> FALSE]

MarkReady ==
  /\ pc = "markReady"
  /\ \/ /\ ~stale
        /\ cr' = [cr EXCEPT !.status = ReadyStatus]
        /\ readyInc' = IF bucket.inc # 0 THEN bucket.inc ELSE readyInc
        /\ EndPass(Resync)
     \/ stale /\ EndPass(TRUE) /\ UNCHANGED <<cr, readyInc>>
  /\ UNCHANGED <<secretVars, provVars, cache, reported, lost, behind, budget>>

\* fail, failNoRequeue and the BucketMissing report. The hold ends when the grace
\* has run out, which may be at any later failure. The status write is best
\* effort. A definitive fault is not requeued.
FailedStatus ==
  [b.status EXCEPT !.phase = "Failed", !.ready = FALSE, !.observed = b.generation,
                   !.degraded = @ /\ err # "missing", !.missing = @ \/ err = "missing"]

FailureStatuses ==
  IF HoldsReadyThrough(b, err)
    THEN {[b.status EXCEPT !.degraded = TRUE]}
           \cup (IF b.status.degraded THEN {FailedStatus} ELSE {})
    ELSE {FailedStatus}

FailPass ==
  /\ pc = "fail"
  /\ \E st \in FailureStatuses :
       \/ cr' = (IF stale THEN cr ELSE [cr EXCEPT !.status = st]) /\ UNCHANGED budget
       \/ Fault /\ UNCHANGED cr
  /\ EndPass(err # "definitive")
  /\ UNCHANGED <<secretVars, provVars, cache, histVars>>

----------------------------------------------------------------------------
(* The teardown behind the finalizer: reconcileDelete and teardown. *)

MarkDeleting ==
  /\ pc = "markDeleting"
  /\ \/ /\ b.status.phase \in {"Deleting", "Failed"}
        /\ Goto("findBucket")
        /\ UNCHANGED <<cr, passVars>>
     \/ /\ b.status.phase \notin {"Deleting", "Failed"} /\ ~stale
        /\ b' = [b EXCEPT !.status.phase = "Deleting"]
        /\ cr' = [cr EXCEPT !.status = b'.status]
        /\ Goto("findBucket")
        /\ UNCHANGED <<fresh, recreate, gid, made, key, drain>>
     \/ /\ b.status.phase \notin {"Deleting", "Failed"} /\ stale
        /\ EndPass(TRUE)
        /\ UNCHANGED <<cr, cache, budget>>
  /\ UNCHANGED <<secretVars, provVars, histVars>>

\* The listing says whether there is a bucket; without one nothing in the cloud
\* attributes a group, and none is deleted.
FindBucket ==
  /\ pc = "findBucket"
  /\ \E listed \in HasBucketAnswers : Goto(IF listed THEN "prepareDelete" ELSE "deleteSecret")
  /\ UNCHANGED <<apiVars, provVars, histVars, b, fresh, recreate, gid, made, key, drain>>

\* Mutant of PrepareDelete: the spec is not asked.
PrepareIgnoresSpec ==
  /\ pc = "prepareDelete" /\ bucket.inc # 0
  /\ \E tags \in TagReads :
       LET wiping == EnableWipeOnDelete /\ tags.owner = "us"
       IN  \/ wiping /\ Goto("wipe")
           \/ ~wiping /\ ~bucket.data /\ Goto("releaseGroup")
           \/ ~wiping /\ bucket.data /\ FailWith("unreachable")
  /\ NewLook
  /\ UNCHANGED <<apiVars, provVars, b, fresh, recreate, gid, made, key, drain>>

\* prepareBucketForDelete: a wipe needs the spec, the gate and our ownership tags;
\* everything else is the empty-only guard.
PrepareDelete ==
  /\ pc = "prepareDelete" /\ bucket.inc # 0
  /\ \E tags \in TagReads :
       LET wiping == b.wipe /\ EnableWipeOnDelete /\ tags.owner = "us"
       IN  \/ wiping /\ Goto("wipe")
           \/ ~wiping /\ ~bucket.data /\ Goto("releaseGroup")
           \/ ~wiping /\ bucket.data /\ FailWith("unreachable")
  /\ NewLook
  /\ UNCHANGED <<apiVars, provVars, b, fresh, recreate, gid, made, key, drain>>

WipeBucket ==
  /\ pc = "wipe" /\ bucket.inc # 0
  /\ bucket' = [bucket EXCEPT !.data = FALSE]
  /\ Applied("releaseGroup", "fail", "unreachable")
  /\ UNCHANGED <<apiVars, policy, groups, keyGroup, seen, incs, histVars, b, fresh, recreate, gid,
                 made, key, drain>>

\* releaseWorkloadGroup: only the group the bucket attributes to this Bucket is
\* released; resolveWorkloadGroup runs without create, and may still migrate the
\* attribution of an older bucket.
ReleaseGroup ==
  /\ pc = "releaseGroup" /\ bucket.inc # 0
  /\ \E tags \in TagReads, doc \in PolicyReads, listing \in GroupListings :
       LET tagged == FromTags(tags)
           named  == FromPolicy(doc, listing)
       IN  \/ /\ tags.owner # "us" \/ (tagged = None /\ named = None)
              /\ Goto("checkOwner") /\ UNCHANGED <<gid, drain>>
           \/ /\ tags.owner = "us" /\ tagged # None
              /\ gid' = tagged /\ drain' = KeysOf(tagged) /\ Goto("drainKeys")
           \/ /\ tags.owner = "us" /\ tagged = None /\ named # None
              /\ gid' = named /\ Goto("releaseStamp") /\ UNCHANGED drain
  /\ NewLook
  /\ UNCHANGED <<apiVars, provVars, b, fresh, recreate, made, key>>

ReleaseStamp ==
  /\ pc = "releaseStamp" /\ bucket.inc # 0
  /\ bucket' = [bucket EXCEPT !.owner = "us", !.group = gid]
  /\ drain' = KeysOf(gid)
  /\ Applied("drainKeys", "fail", "unreachable")
  /\ UNCHANGED <<apiVars, policy, groups, keyGroup, seen, incs, histVars, b, fresh, recreate, gid,
                 made, key>>

DeleteGroup ==
  /\ pc = "deleteGroup"
  /\ groups' = groups \ {gid}
  /\ Applied("checkOwner", "fail", "unreachable")
  /\ UNCHANGED <<apiVars, bucket, policy, keyGroup, seen, incs, histVars, b, fresh, recreate, gid,
                 made, key, drain>>

\* deleteBucketIfOwned: a bucket without our ownership tags stays.
CheckOwner ==
  /\ pc = "checkOwner" /\ bucket.inc # 0
  /\ \E tags \in TagReads : Goto(IF tags.owner = "us" THEN "deleteBucket" ELSE "deleteSecret")
  /\ NewLook
  /\ UNCHANGED <<apiVars, provVars, b, fresh, recreate, gid, made, key, drain>>

\* Mutant of DeleteBucket: a refused deletion is not an error.
DeleteBucketIgnoresRefusal ==
  /\ pc = "deleteBucket"
  /\ bucket' = IF bucket.data THEN bucket ELSE NoBucket
  /\ policy' = IF bucket.data THEN policy ELSE None
  /\ Goto("deleteSecret")
  /\ UNCHANGED <<apiVars, groups, keyGroup, seen, incs, histVars, b, fresh, recreate, gid, made,
                 key, drain>>

\* The provider refuses to delete a bucket that holds objects; a bucket that is
\* gone already is fine.
DeleteBucket ==
  /\ pc = "deleteBucket"
  /\ \/ bucket.data /\ FailWith("unreachable") /\ UNCHANGED <<bucket, policy>>
     \/ /\ ~bucket.data
        /\ bucket' = NoBucket /\ policy' = None
        /\ Applied("deleteSecret", "fail", "unreachable")
  /\ UNCHANGED <<apiVars, groups, keyGroup, seen, incs, histVars, b, fresh, recreate, gid, made,
                 key, drain>>

DeleteSecret ==
  /\ pc = "deleteSecret"
  /\ IF secret = None THEN UNCHANGED <<secretVars, wake>> ELSE SecretWritten(None)
  /\ \/ pc' = "dropFinalizer" /\ UNCHANGED <<err, budget>>
     \/ Fault /\ pc' = "fail" /\ err' = "unreachable"
  /\ UNCHANGED <<cr, provVars, cache, stale, histVars, b, fresh, recreate, gid, made, key, drain>>

\* Without its finalizer a Bucket under deletion is gone.
DropFinalizer ==
  /\ pc = "dropFinalizer"
  /\ \/ ~stale /\ cr' = NoResource /\ EndPass(FALSE)
     \/ stale /\ EndPass(TRUE) /\ UNCHANGED cr
  /\ UNCHANGED <<secretVars, provVars, cache, histVars, budget>>

----------------------------------------------------------------------------
(* Failing calls. *)

ProviderCalls ==
  {"guardPresent", "hasBucket", "createBucket", "tagNew", "adopt", "claim", "resolveGroup",
   "createGroup", "stamp", "ensurePolicy", "decideKey", "clearKeys", "findBucket",
   "prepareDelete", "wipe", "releaseGroup", "releaseStamp", "drainKeys", "deleteGroup",
   "checkOwner", "deleteBucket"}
BucketCalls ==
  {"tagNew", "adopt", "claim", "resolveGroup", "stamp", "ensurePolicy", "prepareDelete",
   "wipe", "releaseGroup", "releaseStamp", "checkOwner"}

\* Where a failed call leaves the pass.
ErrorPath ==
  CASE pc = "stamp"                             -> StampError
    [] pc = "writeSecret"                       -> "rollbackKey"
    [] OTHER                                    -> "fail"

\* A call fails without effect: the provider cannot be reached or refuses, or the
\* API server cannot be reached.
CallFails ==
  /\ \/ pc \in ProviderCalls /\ err' \in {"unreachable", "refused"}
     \/ pc \in {"persistName", "deleteSecret"} /\ err' = "unreachable"
     \/ pc \in {"createKey", "writeSecret"} /\ err' = "destroyed"
     \/ pc \in {"rollbackGroup", "rollbackKey"} /\ err' = err
  /\ Fault
  /\ pc' = ErrorPath
  /\ UNCHANGED <<apiVars, provVars, cache, wake, stale, histVars, b, fresh, recreate, gid, made,
                 key, drain>>

\* A write of the Bucket itself fails: the pass returns the error.
ObjectWriteFails ==
  /\ pc \in {"addFinalizer", "markReady", "markDeleting", "dropFinalizer"}
  /\ Fault
  /\ EndPass(TRUE)
  /\ UNCHANGED <<apiVars, provVars, cache, histVars>>

\* A call on a bucket or a group that is gone meanwhile.
TargetGone ==
  /\ \/ pc \in BucketCalls /\ bucket.inc = 0 /\ err' = "unreachable"
     \/ pc = "decideKey" /\ gid \notin groups /\ err' = "unreachable"
     \/ pc = "createKey" /\ gid \notin groups /\ err' = "destroyed"
  /\ pc' = ErrorPath
  /\ UNCHANGED <<apiVars, provVars, cache, wake, stale, histVars, b, fresh, recreate, gid, made,
                 key, drain, budget>>

----------------------------------------------------------------------------
(* Everything that happens between two calls. *)

\* The operator dies; its successor lists every Bucket and reconciles it.
Crash ==
  /\ pc # "idle"
  /\ Fails("crash")
  /\ EndPass(TRUE)
  /\ cache' = cr /\ stored' = secret
  /\ UNCHANGED <<cr, secret, provVars, histVars>>

\* Mutants of CacheSync: the predicates let only annotations, or only changes of
\* the spec, pass.
CacheSyncAnnotationsOnly ==
  /\ cache # cr
  /\ cache' = cr
  /\ wake' = (wake \/ <<cache.named, cache.rotate>> # <<cr.named, cr.rotate>>)
  /\ UNCHANGED <<apiVars, provVars, pc, stale, passVars, histVars, budget>>
CacheSyncGenerationOnly ==
  /\ cache # cr
  /\ cache' = cr
  /\ wake' = (wake \/ cache.generation # cr.generation)
  /\ UNCHANGED <<apiVars, provVars, pc, stale, passVars, histVars, budget>>

\* The informer catches up. Changes of the spec (which deletion is one of) and of
\* the annotations pass the watch's predicates; status writes do not.
CacheSync ==
  /\ cache # cr
  /\ cache' = cr
  /\ wake' = (wake \/ <<cache.generation, cache.named, cache.rotate>>
                       # <<cr.generation, cr.named, cr.rotate>>)
  /\ UNCHANGED <<apiVars, provVars, pc, stale, passVars, histVars, budget>>

\* The Secret informer catches up.
SecretSync ==
  /\ stored # secret
  /\ stored' = secret
  /\ wake' = TRUE
  /\ UNCHANGED <<cr, secret, provVars, cache, pc, stale, passVars, histVars, budget>>

\* Somebody else writes the Bucket: a running pass conflicts from now on.
Edit(kind, new) ==
  /\ kind \in Edits
  /\ cr.exists
  /\ budget.edit > 0
  /\ budget' = [budget EXCEPT !.edit = @ - 1]
  /\ cr' = new
  /\ stale' = (pc # "idle")
  /\ UNCHANGED <<secretVars, provVars, cache, wake, pc, passVars, histVars>>

UserRotates ==
  /\ cr.rotate < MaxRotations
  /\ Edit("rotate", [cr EXCEPT !.rotate = @ + 1])

UserEditsSpec ==
  \E allow, faulty \in BOOLEAN :
    /\ <<allow, faulty>> # <<cr.allowRecreate, cr.faulty>>
    /\ ~cr.deleting
    /\ Edit("spec", [cr EXCEPT !.allowRecreate = allow, !.faulty = faulty, !.generation = @ + 1])

\* wipeOnDelete can also be set on a Bucket whose deletion is blocked.
UserAllowsWipe ==
  /\ ~cr.wipe
  /\ Edit("wipe", [cr EXCEPT !.wipe = TRUE, !.generation = @ + 1])

UserDeletes ==
  /\ ~cr.deleting
  /\ Edit("delete",
          IF cr.finalizer THEN [cr EXCEPT !.deleting = TRUE, !.generation = @ + 1]
                          ELSE NoResource)

\* The usage controller patches fields this module leaves out.
UsagePatch == pc # "idle" /\ ~stale /\ Edit("usage", cr)

UserDeletesSecret ==
  /\ "secret" \in Edits
  /\ secret # None
  /\ budget.edit > 0
  /\ budget' = [budget EXCEPT !.edit = @ - 1]
  /\ SecretWritten(None)
  /\ UNCHANGED <<cr, provVars, cache, pc, stale, passVars, histVars>>

Disturb(kind) ==
  /\ kind \in Disturbances
  /\ budget.disturb > 0
  /\ budget' = [budget EXCEPT !.disturb = @ - 1]

\* Out of band, in the provider's console: a key, a group with its keys, or the
\* bucket with everything in it is deleted.
KeyDeleted ==
  /\ Disturb("key")
  /\ \E k \in Keys : keyGroup[k] # None /\ keyGroup' = [keyGroup EXCEPT ![k] = None]
  /\ UNCHANGED <<apiVars, bucket, policy, groups, seen, incs, cache, wake, pc, stale, passVars,
                 histVars>>

GroupDeleted ==
  /\ Disturb("group")
  /\ \E g \in groups :
       /\ groups' = groups \ {g}
       /\ keyGroup' = [k \in Keys |-> IF keyGroup[k] = g THEN None ELSE keyGroup[k]]
  /\ UNCHANGED <<apiVars, bucket, policy, seen, incs, cache, wake, pc, stale, passVars, histVars>>

BucketDeleted ==
  /\ bucket.inc # 0 /\ bucket.owner = "us"
  /\ \/ pc = "idle" /\ Disturb("bucket") /\ lost' = (IF lost = "during" THEN lost ELSE "between")
     \/ pc # "idle" /\ Disturb("bucket mid-pass") /\ lost' = "during"
  /\ bucket' = NoBucket /\ policy' = None
  /\ UNCHANGED <<apiVars, groups, keyGroup, seen, incs, cache, wake, pc, stale, passVars,
                 readyInc, reported, behind>>

\* The calls that rely on what the pass saw of the owner: S3 can neither tag nor
\* delete a bucket on the condition that its tags are still the same.
RelyingSteps ==
  {"tagNew", "claim", "createGroup", "stamp", "rollbackGroup", "ensurePolicy", "decideKey",
   "clearKeys", "createKey", "writeSecret", "rollbackKey", "markReady", "wipe", "releaseStamp",
   "drainKeys", "deleteGroup", "deleteBucket"}

ComesBehind ==
  /\ behind' = (behind \/ pc \in RelyingSteps)
  /\ UNCHANGED <<readyInc, reported, lost>>

\* Somebody else takes the name, between two passes or between two calls of one:
\* the bucket appears untagged or with tags of theirs.
ForeignCreates ==
  /\ bucket.inc = 0
  /\ Disturb("foreign")
  /\ incs' = incs + 1
  /\ \E owner \in {"none", "other"}, data \in BOOLEAN :
       bucket' = [inc |-> incs', owner |-> owner, group |-> None, data |-> data]
  /\ policy' = None
  /\ ComesBehind
  /\ UNCHANGED <<apiVars, groups, keyGroup, seen, cache, wake, pc, stale, passVars>>

\* Somebody else tags an untagged bucket under the name, or puts objects into it:
\* their own, or one a pass has created and not tagged yet.
ForeignClaims ==
  /\ bucket.inc # 0 /\ bucket.owner = "none"
  /\ Disturb("foreign")
  /\ \E owner \in {"none", "other"}, data \in {bucket.data, TRUE} :
       bucket' = [bucket EXCEPT !.owner = owner, !.data = data]
  /\ bucket' # bucket
  /\ ComesBehind
  /\ UNCHANGED <<apiVars, policy, groups, keyGroup, seen, incs, cache, wake, pc, stale, passVars>>

\* The rotation request is taken back.
RotationRetracted ==
  /\ Disturb("retract")
  /\ cr.exists /\ cr.rotate # 0
  /\ cr' = [cr EXCEPT !.rotate = 0]
  /\ stale' = (pc # "idle")
  /\ UNCHANGED <<secretVars, provVars, cache, wake, pc, passVars, histVars>>

\* The credential in the Secret works: its key is live, in the group the
\* bucket's policy admits.
CredentialWorks ==
  /\ secret # None
  /\ bucket.inc # 0
  /\ keyGroup[secret] # None
  /\ keyGroup[secret] = policy

\* The workload writes objects, or removes all of them.
WorkloadWrites ==
  /\ "data" \in Edits
  /\ CredentialWorks
  /\ bucket' = [bucket EXCEPT !.data = ~@]
  /\ IF bucket.owner = "us" THEN UNCHANGED histVars ELSE ComesBehind
  /\ UNCHANGED <<apiVars, policy, groups, keyGroup, seen, incs, cache, wake, pc, stale, passVars,
                 budget>>

\* The provider's reads catch up with its writes.
Settle ==
  /\ Lag
  /\ seen # [bucket |-> bucket, policy |-> policy, groups |-> groups]
  /\ seen' = [bucket |-> bucket, policy |-> policy, groups |-> groups]
  /\ UNCHANGED <<apiVars, bucket, policy, groups, keyGroup, incs, cache, wake, pc, stale, passVars,
                 histVars, budget>>

----------------------------------------------------------------------------

Provision ==
  \/ StartPass \/ AddFinalizer \/ PersistName \/ MarkProvisioning \/ GuardBucketPresent
  \/ HasBucket \/ CreateBucket \/ TagNew \/ AdoptOrCollide \/ Claim
  \/ ResolveGroup \/ CreateGroup \/ Stamp \/ RollbackGroup \/ EnsurePolicy
  \/ DecideKey \/ ClearKeys \/ CreateKey \/ WriteSecret \/ RollbackKey
  \/ MarkReady \/ FailPass

Teardown ==
  \/ MarkDeleting \/ FindBucket \/ PrepareDelete \/ WipeBucket \/ ReleaseGroup
  \/ ReleaseStamp \/ DeleteGroup \/ CheckOwner \/ DeleteBucket \/ DeleteSecret
  \/ DropFinalizer

Failing == CallFails \/ ObjectWriteFails \/ TargetGone

Operator == Provision \/ Teardown \/ Failing

Environment ==
  \/ Crash \/ CacheSync \/ SecretSync
  \/ UserRotates \/ UserEditsSpec \/ UserAllowsWipe \/ UserDeletes \/ UsagePatch \/ UserDeletesSecret
  \/ KeyDeleted \/ GroupDeleted \/ BucketDeleted \/ ForeignCreates \/ ForeignClaims
  \/ RotationRetracted \/ WorkloadWrites \/ Settle

Next == Operator \/ Environment

Spec == Init /\ [][Next]_vars

\* The worker runs a pass that is due and finishes the pass it runs; the informer
\* and the provider's reads catch up. Users, crashes and faults owe nothing.
FairSpec ==
  Spec /\ WF_vars(Operator) /\ WF_vars(CacheSync) /\ WF_vars(SecretSync) /\ WF_vars(Settle)

----------------------------------------------------------------------------
(* Properties. *)

Steps ==
  ProviderCalls \cup
  {"idle", "addFinalizer", "persistName", "markProvisioning", "createKey", "writeSecret",
   "rollbackGroup", "rollbackKey", "markReady", "fail", "markDeleting", "deleteSecret",
   "dropFinalizer"}

TypeOK ==
  /\ cr \in Resource /\ cache \in Resource /\ b \in Resource
  /\ secret \in Keys \cup {None} /\ stored \in Keys \cup {None}
  /\ bucket \in Cloud
  /\ policy \in Groups \cup {None}
  /\ groups \in SUBSET Groups
  /\ keyGroup \in [Keys -> Groups \cup {None}]
  /\ seen \in [bucket : Cloud, policy : Groups \cup {None}, groups : SUBSET Groups]
  /\ incs \in Nat
  /\ pc \in Steps
  /\ wake \in BOOLEAN /\ stale \in BOOLEAN /\ fresh \in BOOLEAN
  /\ recreate \in BOOLEAN /\ made \in BOOLEAN
  /\ gid \in Groups \cup {None} /\ key \in Keys \cup {None}
  /\ drain \in SUBSET Keys
  /\ err \in Errors
  /\ readyInc \in Nat /\ reported \in Nat /\ lost \in {"never", "between", "during"}
  /\ behind \in BOOLEAN
  /\ budget \in [plan : DOMAIN Plans, fail : Nat, edit : Nat, disturb : Nat]

\* A pass that is about to report Ready tells the truth (ensureAccessKeyAndSecret
\* and the steps before it): the published credential is the only key of the
\* group, the bucket is ours and its policy admits the group.
\* (A Secret, a group or a key somebody deleted meanwhile is healed by the next
\* pass. A bucket deleted out of band leaves its old group and key behind, and a
\* re-creation that crashes before its Secret is written passes that key off as
\* the credential of the new group.)
ReadyMeansServed ==
  (/\ pc = "markReady" /\ secret # None /\ gid \in groups
   /\ lost = "never" /\ "key" \notin Disturbances) =>
    /\ KeysOf(gid) = {secret}
    /\ bucket.owner = "us"
    /\ policy = gid

\* No crash, failure or teardown leaves a live access key in a group that the
\* bucket does not lead to, or that is gone (createWorkloadGroup records the group
\* before any key exists; teardown releases it before the bucket). A bucket deleted
\* out of band takes the record of its group with it.
KeyedGroupAttributed ==
  lost = "never" =>
    \A k \in Keys : keyGroup[k] # None =>
      /\ keyGroup[k] \in groups
      /\ keyGroup[k] \in {bucket.group, policy}

\* Whatever fails and is retried on the way, a Bucket that is gone has left no
\* bucket of ours, no Secret, and no key but those of a foreign bucket behind
\* (reconcileDelete keeps the finalizer until teardown has succeeded).
FinalizedClean ==
  ~cr.exists =>
    /\ ~(bucket.inc # 0 /\ bucket.owner = "us")
    /\ secret = None
    /\ lost = "never" =>
         \A k \in Keys : keyGroup[k] # None => bucket.owner = "other" /\ keyGroup[k] = bucket.group

\* The operator destroys objects only in a wipe the spec asks for, the gate allows
\* and the ownership tags justify, on a Bucket under deletion - also objects that
\* arrive after the emptiness check (prepareBucketForDelete). (behind: the wipe
\* cannot tell that the bucket whose tags it looked at was replaced by another.)
DataGuarded ==
  [][ (bucket.inc # 0 /\ bucket.data /\ pc' # pc) =>
        /\ bucket'.inc = bucket.inc
        /\ bucket'.data \/ (/\ b.wipe /\ EnableWipeOnDelete /\ b.deleting
                            /\ bucket.owner = "us" \/ behind) ]_vars

\* A step of the pass, and not of its surroundings.
PassMoves == <<pc', drain'>> # <<pc, drain>>

\* A bucket under our name that carries somebody else's tags, or none and data:
\* no pass, provisioning or tearing down, changes it, its policy, or the group
\* and the keys it names (adoptOrCollide, bucketOwnedByUs, resolveWorkloadGroup) -
\* also when it came while the pass was running, up to the next look of the pass
\* at its tags, or between the listing and a create the provider then refuses
\* (ensureBucket). Excepted are the windows the provider leaves open: a bucket
\* that came behind the pass's back, after the look a call relies on; and
\* lagging reads, one of which may not show the tags yet.
ForeignUntouched ==
  [][ (/\ bucket.inc # 0 /\ (bucket.owner = "other" \/ (bucket.owner = "none" /\ bucket.data))
       /\ ~Lag /\ ~behind /\ PassMoves) =>
        /\ bucket' = bucket /\ policy' = policy
        /\ bucket.group \in groups => bucket.group \in groups'
        /\ bucket.group # None => \A k \in KeysOf(bucket.group) : keyGroup'[k] = keyGroup[k] ]_vars

\* The bucket of a Bucket that was Ready once is re-created only by a pass whose
\* spec authorised it, and a Bucket that is Ready again on a re-created bucket has
\* said so: the pass that created it reported the loss (guardBucketPresent,
\* reportAuthorizedRecreate). A loss in the middle of a pass, after the guard's
\* look, is excepted: the guard cannot see it.
RecreationAuthorised ==
  [][ (readyInc # 0 /\ lost # "during") =>
        /\ (bucket.inc = 0 /\ bucket'.inc # 0 /\ pc = "createBucket" /\ pc' # pc) => b.allowRecreate
        /\ readyInc' # readyInc => reported = readyInc' ]_vars

\* A bucket that vanished and may not be re-created is reported as missing, and
\* not as an outage, whatever conflicts the report meets (guardBucketPresent).
VanishReported ==
  (cr.status.resolved /\ bucket.inc = 0 /\ ~cr.allowRecreate /\ ~cr.deleting)
    ~> (\/ cr.status.missing /\ ~cr.status.ready
        \/ bucket.inc # 0 \/ cr.allowRecreate \/ cr.faulty \/ cr.deleting \/ ~cr.exists)

\* Once users, crashes and faults have come to rest, the Bucket is and stays
\* Ready, its credential works, the group is recorded on the bucket and no rotation
\* is left undone: no wake-up is lost, no conflict leaves the object half way, and
\* tags a stale read made the operator overwrite are restored.
Converges ==
  (/\ Edits \cap {"delete", "spec"} = {}
   /\ Disturbances \cap {"key", "bucket", "bucket mid-pass", "foreign"} = {})
  => <>[](cr.status.ready /\ CredentialWorks /\ bucket.group = policy /\ ~PendingRotation(cr))

\* A deletion with an authorised wipe comes to its end, also when the wipe is
\* authorised after a refusal and while the workload keeps writing: each wipe is
\* followed by the removal of the keys, so the next pass finds no writer (teardown).
\* Only a bucket of somebody else with data in it keeps the Bucket for good.
DeletionCompletes ==
  (EnableWipeOnDelete /\ cr.exists /\ cr.deleting /\ cr.wipe)
    ~> (~cr.exists \/ (bucket.inc # 0 /\ bucket.owner # "us" /\ bucket.data))
=============================================================================
