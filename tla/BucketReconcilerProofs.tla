----------------------- MODULE BucketReconcilerProofs -----------------------
(***************************************************************************)
(* What the passes over a Bucket keep safe, for any number of groups,      *)
(* keys, rotations, edits, failures and disturbances.                      *)
(*                                                                         *)
(* The inductive invariant has a part for each thing a pass carries from   *)
(* one call to the next and everything else leaves standing: why it may    *)
(* wipe (Asked), whose bucket it works on (Adopted), which group it has    *)
(* found or made (Resolved, Released), that its Bucket is still there      *)
(* (Objects), what a Bucket may leave behind (Kept), and which keys it has *)
(* cleared (Served). Incarnations says what a lagging read may show, and   *)
(* Recorded where keys can be; the parts about groups hold when the        *)
(* provider's reads do not lag, and nobody took the bucket away.           *)
(* Mended adds what a single failure may leave: a key beside the one in    *)
(* the Secret only while the rotation it belongs to is still to be done.   *)
(* Traced adds what a Bucket that was Ready remembers of bucket and group. *)
(***************************************************************************)
EXTENDS BucketReconciler, TLAPS

----------------------------------------------------------------------------
(* The inductive invariant. *)

TeardownSteps ==
  {"markDeleting", "findBucket", "prepareDelete", "wipe", "releaseGroup", "releaseStamp",
   "drainKeys", "deleteGroup", "checkOwner", "deleteBucket", "deleteSecret", "dropFinalizer"}

ServingSteps ==
  {"decideKey", "clearKeys", "createKey", "writeSecret", "rollbackKey", "markReady"}

\* The steps a provisioning pass takes once the finalizer is there.
ProvisioningSteps ==
  {"persistName", "markProvisioning", "guardPresent", "hasBucket", "createBucket", "tagNew",
   "adopt", "claim", "resolveGroup", "createGroup", "stamp", "rollbackGroup", "ensurePolicy"}
  \cup ServingSteps

\* The steps a pass takes only after the tags showed the bucket to be ours.
OwnedSteps ==
  {"resolveGroup", "createGroup", "stamp", "rollbackGroup", "ensurePolicy",
   "wipe", "releaseStamp", "drainKeys", "deleteGroup", "deleteBucket"}
  \cup ServingSteps

\* The steps before a bucket is tagged, when the reads of the tags can be trusted.
Untagged == pc = "tagNew" \/ (pc = "claim" /\ ~Lag)

Ours == bucket.inc # 0 /\ bucket.owner = "us"

\* A pass tears down what is being deleted, and wipes what it may wipe.
Asked ==
  /\ pc \in TeardownSteps => b.deleting
  /\ pc = "wipe" => b.wipe /\ EnableWipeOnDelete

\* A bucket has one owner for good once it is ours, so a lagging read of that
\* bucket does not lie about it; a bucket nobody tagged leads to no group.
Incarnations ==
  /\ bucket.inc <= incs /\ seen.bucket.inc <= incs
  /\ bucket.inc = 0 => bucket = NoBucket
  /\ seen.bucket.inc = 0 => seen.bucket.owner # "us"
  /\ (seen.bucket.inc = bucket.inc /\ seen.bucket.owner = "us") => bucket.owner = "us"
  /\ bucket.owner = "none" => bucket.group = None
  /\ lost # "during" =>
       /\ bucket.owner = "none" => policy = None
       /\ bucket.owner = "other" => policy \in {None, bucket.group}

\* What a pass has seen of the owner stays true while it runs, unless another bucket
\* came behind its back; a bucket that is ours stays while nobody takes it away.
Adopted ==
  /\ (lost # "during" /\ pc \in OwnedSteps) => Ours
  /\ (bucket.inc # 0 /\ ~behind) =>
       /\ pc \in OwnedSteps \ {"resolveGroup"} => bucket.owner = "us"
       /\ Untagged => bucket.owner = "none" /\ ~bucket.data
  /\ (bucket.inc # 0 /\ lost # "during" /\ Untagged) =>
       bucket.owner # "us" /\ bucket.group = None /\ policy = None

LiveKeys == {k \in Keys : keyGroup[k] # None}

\* Keys are in live groups that the bucket leads to, and tags and policy do not
\* lead to two of them.
Recorded ==
  /\ \A k \in LiveKeys : keyGroup[k] \in groups /\ keyGroup[k] \in {bucket.group, policy}
  /\ (policy \in groups /\ bucket.group # None) => policy = bucket.group

\* The group a provisioning pass works with.
Resolved ==
  /\ pc = "createGroup" => bucket.group \notin groups /\ policy \notin groups
  /\ pc = "stamp" =>
       /\ bucket.group \notin groups
       /\ made => LiveKeys = {} /\ policy \notin groups
       /\ ~made => gid = policy
  /\ pc = "rollbackGroup" => LiveKeys = {}
  /\ pc \in {"stamp", "ensurePolicy"} => gid # None
  /\ pc = "ensurePolicy" => bucket.group = gid
  /\ pc \in ServingSteps => bucket.group = gid /\ policy = gid

\* The group a teardown releases.
Released ==
  /\ pc = "releaseStamp" => bucket.group \notin groups /\ policy = gid
  /\ pc = "drainKeys" => LiveKeys \subseteq drain
  /\ pc = "deleteGroup" => LiveKeys = {}
  /\ (pc \in {"checkOwner", "deleteBucket"} /\ bucket.owner = "us") => LiveKeys = {}

Attributed == (~Lag /\ lost = "never") => Recorded /\ Resolved /\ Released

\* The Bucket outlives every pass that provisions it: its finalizer comes first and
\* goes last, and the informer has seen the deletion before a teardown starts.
Objects ==
  /\ (cache.exists /\ cache.finalizer /\ ~cache.deleting) => cr.exists /\ cr.finalizer
  /\ (cr.exists /\ cache.finalizer) => cr.finalizer
  /\ (cr.exists /\ cache.deleting) => cr.deleting
  /\ (pc # "idle" /\ ~stale) => cr.exists
  /\ pc \in ProvisioningSteps => cr.exists /\ cr.finalizer
  /\ pc \in TeardownSteps => (cr.exists => cr.deleting) /\ (cache.exists => cache.deleting)

\* Without a finalizer there is nothing to clean up.
Kept ==
  /\ ~cr.exists => ~cr.finalizer
  /\ (~cr.finalizer \/ pc = "dropFinalizer") => secret = None
  /\ (~Lag /\ (~cr.finalizer \/ pc \in {"deleteSecret", "dropFinalizer"})) => ~Ours
  /\ (~Lag /\ pc = "releaseStamp") => cr.finalizer

\* The passes run to their end, and nobody takes a bucket or a key away.
Undisturbed ==
  /\ ~Lag /\ Failures = {}
  /\ Disturbances \cap {"key", "bucket", "bucket mid-pass"} = {}

\* No pass that runs to its end leaves a key beside the one in the Secret.
Served ==
  Undisturbed =>
    /\ lost = "never"
    /\ pc = "clearKeys" => LiveKeys \subseteq drain
    /\ pc = "createKey" => LiveKeys = {}
    /\ pc \in {"writeSecret", "rollbackKey"} => LiveKeys \subseteq {key}
    /\ (pc = "writeSecret" /\ gid \in groups) => key \in KeysOf(gid)
    /\ (pc = "markReady" /\ secret # None /\ gid \in groups) => secret \in KeysOf(gid)
    /\ (pc \notin {"writeSecret", "rollbackKey"} /\ secret # None) => LiveKeys \subseteq {secret}

IInv ==
  /\ TypeOK /\ Asked /\ Incarnations /\ Adopted
  /\ Attributed /\ Objects /\ Kept /\ Served

----------------------------------------------------------------------------
(* Operators and records. *)

Budgets == [plan : DOMAIN Plans, fail : Nat, edit : Nat, disturb : Nat]

LEMMA Constants ==
  /\ None \notin Groups /\ None \notin Keys /\ 1 \in Groups /\ 1 \in Keys
  /\ EnableWipeOnDelete \in BOOLEAN
BY ReconcilerAssumption DEF None, Groups, Keys

\* A step stays within the plan of its behaviour.
SamePlan == budget' \in Budgets /\ budget'.plan = budget.plan

LEMMA SamePlanKeeps ==
  ASSUME SamePlan
  PROVE  Lags' = Lags /\ (Lag' <=> Lag) /\ (Undisturbed' <=> Undisturbed)
BY DEF SamePlan, Lag, Lags, Undisturbed, Failures, Disturbances

LEMMA FaultPlan ==
  ASSUME TypeOK, UNCHANGED budget \/ Fault PROVE SamePlan
BY DEF TypeOK, SamePlan, Budgets, Fault, Fails

\* The same Bucket, as far as its life goes.
Like(r, new) ==
  /\ new \in Resource
  /\ new.exists = r.exists /\ new.deleting = r.deleting
  /\ new.finalizer = r.finalizer /\ new.wipe = r.wipe

LEMMA StatusWritten ==
  ASSUME NEW r \in Resource, NEW st \in Status PROVE Like(r, [r EXCEPT !.status = st])
BY DEF Resource, Like

LEMMA GroupPublished ==
  ASSUME NEW r \in Resource, NEW g \in Groups \cup {None}
  PROVE  Like(r, [r EXCEPT !.status.group = g])
<1> DEFINE st == [r.status EXCEPT !.group = g]
<1>1. st \in Status
  BY DEF Resource, Status
<1>2. [r EXCEPT !.status.group = g] = [r EXCEPT !.status = st]
  BY DEF Resource
<1> HIDE DEF st
<1> QED
  BY <1>1, <1>2, StatusWritten

LEMMA ResourcesTyped ==
  /\ NewResource \in Resource /\ NewResource.exists /\ ~NewResource.deleting
  /\ ~NewResource.finalizer
  /\ NoResource \in Resource /\ ~NoResource.exists /\ ~NoResource.deleting
  /\ ~NoResource.finalizer
  /\ NewStatus \in Status
<1>1. NewStatus \in Status
  BY ReconcilerAssumption DEF NewStatus, Status, Phases, None
<1>2. /\ NewResource \in Resource /\ NewResource.exists /\ ~NewResource.deleting
      /\ ~NewResource.finalizer
  BY <1>1, ReconcilerAssumption DEF NewResource, Resource
<1> QED
  BY <1>1, <1>2 DEF NoResource, Resource

----------------------------------------------------------------------------
(* Steps of a pass that write the status of the Bucket at most. *)

OutsideKept ==
  /\ Like(cr, cr')
  /\ UNCHANGED <<secret, stored, bucket, policy, groups, keyGroup, seen, incs, cache, wake,
                 stale, readyInc, reported, lost>>
  /\ behind' \in {behind, FALSE}

LocalsTyped ==
  /\ b \in Resource /\ fresh \in BOOLEAN /\ recreate \in BOOLEAN /\ made \in BOOLEAN
  /\ gid \in Groups \cup {None} /\ key \in Keys \cup {None} /\ drain \in SUBSET Keys

\* A pass stays a provisioning pass or a teardown, or fails.
SameSide ==
  \/ pc \in ProvisioningSteps /\ pc' \in ProvisioningSteps
  \/ pc \in TeardownSteps /\ pc' \in TeardownSteps
  \/ pc # "idle" /\ pc' = "fail"

LEMMA SidesApart ==
  /\ "idle" \notin ProvisioningSteps /\ "idle" \notin TeardownSteps
  /\ "fail" \notin ProvisioningSteps /\ "fail" \notin TeardownSteps /\ "fail" \notin OwnedSteps
  /\ "idle" \notin OwnedSteps
  /\ ProvisioningSteps \subseteq Steps /\ TeardownSteps \subseteq Steps
  /\ ServingSteps \subseteq ProvisioningSteps /\ ServingSteps \subseteq OwnedSteps
  /\ \A p \in ProvisioningSteps : p \notin TeardownSteps
BY DEF ProvisioningSteps, TeardownSteps, ServingSteps, OwnedSteps, Steps, ProviderCalls

LEMMA ObjectsKept ==
  ASSUME Objects, Like(cr, cr'), UNCHANGED <<cache, stale>>, SameSide PROVE Objects'
BY SidesApart DEF Objects, SameSide, Like

\* A step that only moves the pass on: what is left to show is what the pass may
\* rely on at its new position.
LEMMA MoveStep ==
  ASSUME IInv, OutsideKept, SamePlan, LocalsTyped', pc' \in Steps, err' \in Errors, SameSide,
         Asked', Adopted', Served',
         (~Lag /\ lost = "never") => Resolved' /\ Released',
         pc' # "dropFinalizer", (pc' = "deleteSecret" /\ ~Lag) => ~Ours,
         (pc' = "releaseStamp" /\ ~Lag) => Ours
  PROVE  IInv'
<1>1. /\ UNCHANGED <<secret, stored, bucket, policy, groups, keyGroup, seen, incs, cache, wake,
                     stale, readyInc, reported, lost>>
      /\ Like(cr, cr') /\ budget' \in Budgets /\ behind' \in {behind, FALSE}
  BY DEF OutsideKept, SamePlan
<1>2. TypeOK'
  BY <1>1 DEF IInv, TypeOK, LocalsTyped, Budgets, Like
<1>3. Lag' <=> Lag
  BY SamePlanKeeps
<1>4. Incarnations'
  BY <1>1 DEF IInv, Incarnations
<1>5. Recorded => Recorded'
  BY <1>1 DEF Recorded, LiveKeys
<1>6. Attributed'
  BY <1>1, <1>3, <1>5 DEF IInv, Attributed
<1>7. Objects'
  BY <1>1, ObjectsKept DEF IInv
<1>8. Kept'
  BY <1>1, <1>3 DEF IInv, Kept, Ours, Like
<1> QED
  BY <1>2, <1>4, <1>6, <1>7, <1>8 DEF IInv

\* A pass that fails, or turns to undoing what it did.
LEMMA FailStep ==
  ASSUME IInv, OutsideKept, UNCHANGED <<b, fresh, recreate, gid, made, key, drain>>, SamePlan,
         err' \in Errors, pc # "idle",
         \/ pc' = "fail" /\ (pc \in {"writeSecret", "rollbackKey"} => ~Undisturbed)
         \/ pc' = "rollbackGroup" /\ pc = "stamp" /\ made /\ UNCHANGED behind
         \/ pc' = "rollbackKey" /\ pc = "writeSecret" /\ UNCHANGED behind
  PROVE  IInv'
<1>1. UNCHANGED <<secret, bucket, policy, groups, keyGroup, lost>>
  BY DEF OutsideKept
<1>2. LocalsTyped'
  BY DEF IInv, TypeOK, LocalsTyped
<1>3. pc' \in Steps /\ SameSide /\ Asked'
  BY DEF SameSide, Asked, Steps, ProviderCalls, ProvisioningSteps, ServingSteps, TeardownSteps
<1>4. Lag' <=> Lag
  BY SamePlanKeeps
<1>5. Adopted'
  BY <1>1, <1>4 DEF IInv, Adopted, Untagged, Ours, OwnedSteps, ServingSteps
<1>6. Served'
  BY <1>1, SamePlanKeeps DEF IInv, Served, LiveKeys, KeysOf
<1>7. (~Lag /\ lost = "never") => Resolved' /\ Released'
  BY <1>1 DEF IInv, Attributed, Resolved, Released, ServingSteps, LiveKeys
<1> QED
  BY <1>2, <1>3, <1>5, <1>6, <1>7, MoveStep

\* Whatever a pass was about, nothing is asked of one that has ended.
LEMMA EndStep ==
  ASSUME IInv, NEW requeue \in BOOLEAN, EndPass(requeue), SamePlan,
         UNCHANGED <<secret, bucket, policy, groups, keyGroup, seen, incs, lost>>,
         stored' \in Keys \cup {None}, readyInc' \in Nat, reported' \in Nat, behind' \in BOOLEAN,
         Like(cr, cr'), cache' \in {cache, cr},
         pc \in {"writeSecret", "rollbackKey"} => ~Undisturbed
  PROVE  IInv'
<1>1. /\ pc' = "idle" /\ wake' \in BOOLEAN /\ b' = NoResource /\ stale' = FALSE /\ fresh' = FALSE
      /\ recreate' = FALSE /\ gid' = None /\ made' = FALSE /\ key' = None /\ drain' = {}
      /\ err' = "none"
  BY DEF EndPass, IInv, TypeOK
<1>2. TypeOK'
  BY <1>1, ResourcesTyped DEF IInv, TypeOK, Like, SamePlan, Budgets, Steps, Errors
<1>3. Lag' <=> Lag
  BY SamePlanKeeps
<1>4. Asked' /\ Incarnations' /\ Adopted'
  BY <1>1, SidesApart DEF IInv, Asked, Incarnations, Adopted, Untagged, Ours, OwnedSteps, ServingSteps
<1>5. Attributed'
  BY <1>1, <1>3 DEF IInv, Attributed, Recorded, Resolved, Released, LiveKeys, ServingSteps
<1>6. Objects'
  BY <1>1, SidesApart DEF IInv, Objects, Like
<1>7. Kept'
  BY <1>1, <1>3 DEF IInv, Kept, Like, Ours
<1>8. Served'
  BY <1>1, SamePlanKeeps DEF IInv, Served, LiveKeys
<1> QED
  BY <1>2, <1>4, <1>5, <1>6, <1>7, <1>8 DEF IInv

\* A step that writes nothing leaves the outside as it is.
LEMMA NothingWritten ==
  ASSUME TypeOK, UNCHANGED <<apiVars, provVars, cache, wake, stale>>, UNCHANGED histVars \/ NewLook
  PROVE  OutsideKept
BY DEF OutsideKept, TypeOK, Like, apiVars, secretVars, provVars, histVars, NewLook

LEMMA StartPassStep == ASSUME IInv, StartPass PROVE IInv'
<1>1. /\ UNCHANGED <<cr, secret, stored, bucket, policy, groups, keyGroup, seen, incs, cache,
                     fresh, recreate, gid, made, key, drain, err, readyInc, reported, lost, budget>>
      /\ pc = "idle" /\ cache.exists /\ b' = cache /\ wake' = FALSE
      /\ stale' \in BOOLEAN /\ (~stale' => cache = cr) /\ behind' = FALSE
  BY DEF StartPass, apiVars, secretVars, provVars, NewLook
<1>2. /\ pc' \in {"markDeleting", "persistName", "addFinalizer"}
      /\ pc' = "markDeleting" => cache.deleting
      /\ pc' = "persistName" => cache.finalizer /\ ~cache.deleting
  <2>1. cache.deleting \in BOOLEAN /\ cache.finalizer \in BOOLEAN
    BY DEF IInv, TypeOK, Resource
  <2>2. pc' = IF cache.deleting THEN "markDeleting"
              ELSE IF cache.finalizer THEN "persistName" ELSE "addFinalizer"
    BY DEF StartPass
  <2> QED
    BY <2>1, <2>2
<1>3. TypeOK'
  <2>1. pc' \in Steps
    BY <1>2 DEF Steps
  <2>2. wake' \in BOOLEAN /\ b' \in Resource
    BY <1>1 DEF IInv, TypeOK
  <2>3. TypeOK
    BY DEF IInv
  <2>4. /\ cr' \in Resource /\ cache' \in Resource
        /\ secret' \in Keys \cup {None} /\ stored' \in Keys \cup {None}
        /\ bucket' \in Cloud /\ policy' \in Groups \cup {None} /\ groups' \in SUBSET Groups
        /\ keyGroup' \in [Keys -> Groups \cup {None}] /\ incs' \in Nat
    BY <1>1, <2>3 DEF TypeOK
  <2>5. seen' \in [bucket : Cloud, policy : Groups \cup {None}, groups : SUBSET Groups]
    BY <1>1, <2>3 DEF TypeOK
  <2>6. budget' \in [plan : DOMAIN Plans, fail : Nat, edit : Nat, disturb : Nat]
    BY <1>1, <2>3 DEF TypeOK
  <2>7. /\ stale' \in BOOLEAN /\ fresh' \in BOOLEAN /\ recreate' \in BOOLEAN /\ made' \in BOOLEAN
        /\ gid' \in Groups \cup {None} /\ key' \in Keys \cup {None}
        /\ drain' \in SUBSET Keys /\ err' \in Errors /\ behind' \in BOOLEAN
        /\ readyInc' \in Nat /\ reported' \in Nat /\ lost' \in {"never", "between", "during"}
    BY <1>1, <2>3 DEF TypeOK
  <2> QED
    BY <2>1, <2>2, <2>4, <2>5, <2>6, <2>7 DEF TypeOK
<1>4. Lag' <=> Lag
  BY <1>1 DEF Lag, Lags
<1>5. Asked' /\ Incarnations' /\ Adopted'
  BY <1>1, <1>2, <1>4 DEF IInv, Asked, Incarnations, Adopted, Untagged, Ours, OwnedSteps, ServingSteps, TeardownSteps
<1>6. Attributed'
  BY <1>1, <1>2, <1>4 DEF IInv, Attributed, Recorded, Resolved, Released, LiveKeys, ServingSteps
<1>7. Objects'
  BY <1>1, <1>2 DEF IInv, Objects, ProvisioningSteps, ServingSteps, TeardownSteps
<1>8. Kept'
  BY <1>1, <1>2, <1>4 DEF IInv, Kept, Ours
<1>9. Served'
  <2>1. Undisturbed' <=> Undisturbed
    BY <1>1 DEF Undisturbed, Lag, Lags, Failures, Disturbances
  <2> QED
    BY <1>1, <1>2, <2>1 DEF IInv, Served, LiveKeys, KeysOf
<1> QED
  BY <1>3, <1>5, <1>6, <1>7, <1>8, <1>9 DEF IInv

LEMMA AddFinalizerStep == ASSUME IInv, AddFinalizer PROVE IInv'
<1>0. pc = "addFinalizer" /\ UNCHANGED <<secret, stored, bucket, policy, groups, keyGroup, seen,
                                         incs, cache, readyInc, reported, lost, behind, budget>>
  BY DEF AddFinalizer, Goto, EndPass, secretVars, provVars, histVars
<1>1. SamePlan
  BY <1>0, FaultPlan DEF IInv
<1>2. CASE stale
  <2>1. EndPass(TRUE) /\ UNCHANGED cr
    BY <1>2 DEF AddFinalizer
  <2>2. Like(cr, cr')
    BY <2>1 DEF IInv, TypeOK, Like
  <2> QED
    BY <1>0, <1>1, <2>1, <2>2, EndStep DEF IInv, TypeOK
<1>3. CASE ~stale
  <2>1. /\ cr' = [cr EXCEPT !.finalizer = TRUE] /\ b' = [b EXCEPT !.finalizer = TRUE]
        /\ pc' = "persistName" /\ UNCHANGED <<wake, stale, err, fresh, recreate, gid, made, key, drain>>
    BY <1>3 DEF AddFinalizer, Goto
  <2>2. /\ cr' \in Resource /\ b' \in Resource /\ cr'.exists /\ cr'.finalizer
        /\ cr'.deleting = cr.deleting
    BY <1>0, <1>3, <2>1 DEF IInv, TypeOK, Objects, Resource
  <2>3. TypeOK'
    BY <1>0, <2>1, <2>2 DEF IInv, TypeOK, Steps
  <2>4. Asked' /\ Incarnations' /\ Adopted'
    BY <1>0, <2>1 DEF IInv, Asked, Incarnations, Adopted, Untagged, Ours, OwnedSteps, ServingSteps, TeardownSteps
  <2>5. Attributed'
    BY <1>0, <1>1, <2>1, SamePlanKeeps
       DEF IInv, Attributed, Recorded, Resolved, Released, LiveKeys, ServingSteps
  <2>6. Objects'
    BY <1>0, <2>1, <2>2 DEF IInv, Objects, TeardownSteps
  <2>7. Kept'
    BY <2>1, <2>2 DEF Kept
  <2>8. Served'
    BY <1>0, <1>1, <2>1, SamePlanKeeps DEF IInv, Served, LiveKeys
  <2> QED
    BY <2>3, <2>4, <2>5, <2>6, <2>7, <2>8 DEF IInv
<1> QED
  BY <1>2, <1>3 DEF IInv, TypeOK

\* The first steps of a provisioning pass decide nothing the later ones rely on.
EarlySteps == {"markProvisioning", "guardPresent", "hasBucket", "createBucket", "adopt"}

LEMMA EarlyStep ==
  ASSUME IInv, OutsideKept, SamePlan, LocalsTyped', err' \in Errors,
         pc \in {"persistName", "markProvisioning", "guardPresent", "hasBucket"},
         pc' \in EarlySteps
  PROVE  IInv'
<1>1. UNCHANGED <<secret, bucket, policy, groups, keyGroup, lost>>
  BY DEF OutsideKept
<1>2. pc' \in Steps /\ SameSide /\ Asked'
  BY DEF EarlySteps, SameSide, Asked, Steps, ProviderCalls, ProvisioningSteps, TeardownSteps
<1>3. Adopted' /\ Resolved' /\ Released'
  BY DEF EarlySteps, Adopted, Untagged, Ours, Resolved, Released, OwnedSteps, ServingSteps
<1>4. Served'
  BY <1>1, SamePlanKeeps DEF IInv, EarlySteps, Served, LiveKeys
<1> QED
  BY <1>2, <1>3, <1>4, MoveStep DEF EarlySteps

LEMMA PersistNameStep == ASSUME IInv, PersistName PROVE IInv'
<1>1. /\ pc = "persistName" /\ SamePlan
      /\ UNCHANGED <<secret, stored, bucket, policy, groups, keyGroup, seen, incs, cache, wake,
                     stale, readyInc, reported, lost, behind, fresh, recreate, gid, made, key, drain>>
  <2>1. pc = "persistName" /\ UNCHANGED budget
        /\ UNCHANGED <<secret, stored, bucket, policy, groups, keyGroup, seen, incs, cache, wake,
                       stale, readyInc, reported, lost, behind, fresh, recreate, gid, made, key, drain>>
    BY DEF PersistName, Goto, FailWith, secretVars, provVars, histVars
  <2> QED
    BY <2>1, FaultPlan DEF IInv
<1>2. CASE pc' = "fail" /\ UNCHANGED <<cr, b>> /\ err' \in Errors
  <2>1. OutsideKept
    BY <1>1, <1>2 DEF OutsideKept, Like, IInv, TypeOK
  <2> QED
    BY <1>1, <1>2, <2>1, FailStep
<1>3. CASE pc' = "markProvisioning" /\ UNCHANGED err
           /\ \/ UNCHANGED <<cr, b>>
              \/ cr' = [cr EXCEPT !.named = TRUE] /\ b' = [b EXCEPT !.named = TRUE]
  <2>1. Like(cr, cr') /\ b' \in Resource
    BY <1>3 DEF IInv, TypeOK, Resource, Like
  <2>2. OutsideKept /\ LocalsTyped' /\ err' \in Errors
    BY <1>1, <1>3, <2>1 DEF IInv, TypeOK, OutsideKept, LocalsTyped
  <2> QED
    BY <1>1, <1>3, <2>2, EarlyStep DEF EarlySteps
<1> QED
  BY <1>2, <1>3 DEF PersistName, Goto, FailWith, Errors

LEMMA MarkProvisioningStep == ASSUME IInv, MarkProvisioning PROVE IInv'
<1> DEFINE st == [b.status EXCEPT !.phase = "Provisioning"]
<1>1. /\ pc = "markProvisioning" /\ pc' = "guardPresent"
      /\ UNCHANGED <<secret, stored, bucket, policy, groups, keyGroup, seen, incs, cache, wake,
                     stale, err, readyInc, reported, lost, behind, fresh, recreate, gid, made, key, drain>>
      /\ UNCHANGED budget \/ Fault
      /\ UNCHANGED b \/ b' = [b EXCEPT !.status = st]
      /\ UNCHANGED cr \/ cr' = [cr EXCEPT !.status = st]
  BY DEF MarkProvisioning, secretVars, provVars, histVars
<1>2. SamePlan
  BY <1>1, FaultPlan DEF IInv
<1>3. st \in Status /\ cr \in Resource /\ b \in Resource
  BY DEF IInv, TypeOK, Resource, Status, Phases
<1> HIDE DEF st
<1>4. Like(cr, cr') /\ b' \in Resource
  <2>1. Like(cr, [cr EXCEPT !.status = st]) /\ Like(b, [b EXCEPT !.status = st])
    BY <1>3, StatusWritten
  <2> QED
    BY <1>1, <1>3, <2>1 DEF Like
<1>5. OutsideKept /\ LocalsTyped' /\ err' \in Errors
  BY <1>1, <1>4 DEF IInv, TypeOK, OutsideKept, LocalsTyped
<1> QED
  BY <1>1, <1>2, <1>5, EarlyStep DEF EarlySteps

LEMMA GuardBucketPresentStep == ASSUME IInv, GuardBucketPresent PROVE IInv'
<1>1. /\ pc = "guardPresent" /\ UNCHANGED <<b, fresh, gid, made, key, drain>>
      /\ UNCHANGED <<apiVars, provVars, cache, wake, stale, histVars, budget>>
      /\ \/ pc' = "hasBucket" /\ recreate' \in BOOLEAN /\ UNCHANGED err
         \/ pc' = "fail" /\ UNCHANGED recreate /\ err' = "missing"
  BY DEF GuardBucketPresent, Goto, FailWith
<1>2. OutsideKept /\ SamePlan
  BY <1>1, NothingWritten, FaultPlan DEF IInv
<1>3. CASE pc' = "hasBucket"
  BY <1>1, <1>2, <1>3, EarlyStep DEF IInv, TypeOK, LocalsTyped, EarlySteps
<1>4. CASE pc' = "fail"
  BY <1>1, <1>2, <1>4, FailStep DEF Errors
<1> QED
  BY <1>1, <1>3, <1>4

LEMMA HasBucketStep == ASSUME IInv, HasBucket PROVE IInv'
<1>1. /\ pc = "hasBucket" /\ pc' \in {"adopt", "createBucket"}
      /\ UNCHANGED <<b, fresh, recreate, gid, made, key, drain, err>>
      /\ UNCHANGED <<apiVars, provVars, cache, wake, stale, histVars, budget>>
  BY DEF HasBucket, Goto
<1>2. OutsideKept /\ SamePlan
  BY <1>1, NothingWritten, FaultPlan DEF IInv
<1> QED
  BY <1>1, <1>2, EarlyStep DEF IInv, TypeOK, LocalsTyped, EarlySteps

\* A read that shows our tags tells the truth, however old it is.
LEMMA TagsTruthful ==
  ASSUME IInv, NEW tags \in TagReads
  PROVE  /\ tags.owner = "us" => bucket.owner = "us"
         /\ ~Lag => tags = bucket
<1>1. CASE tags = bucket
  BY <1>1
<1>2. CASE tags # bucket
  <2>1. Lag /\ tags = SeenBucket
    BY <1>2 DEF TagReads
  <2>2. CASE seen.bucket.inc = bucket.inc
    BY <2>1, <2>2 DEF IInv, Incarnations, SeenBucket
  <2>3. CASE seen.bucket.inc # bucket.inc
    BY <2>1, <2>3 DEF SeenBucket, NoBucket
  <2> QED
    BY <2>1, <2>2, <2>3
<1> QED
  BY <1>1, <1>2

LEMMA AdoptOrCollideStep == ASSUME IInv, AdoptOrCollide PROVE IInv'
<1>1. /\ pc = "adopt" /\ UNCHANGED <<b, fresh, recreate, gid, made, key, drain>>
      /\ NewLook /\ UNCHANGED <<apiVars, provVars, cache, wake, stale, budget>>
  BY DEF AdoptOrCollide, Goto, FailWith
<1>2. PICK tags \in TagReads :
        \/ tags.owner = "us" /\ pc' = "resolveGroup" /\ UNCHANGED err
        \/ tags.owner = "none" /\ ~bucket.data /\ pc' = "claim" /\ UNCHANGED err
        \/ pc' = "fail" /\ err' = "definitive"
  BY DEF AdoptOrCollide, Goto, FailWith
<1>3. OutsideKept /\ SamePlan
  BY <1>1, NothingWritten, FaultPlan DEF IInv
<1>4. CASE pc' = "fail"
  BY <1>1, <1>2, <1>3, <1>4, FailStep DEF Errors
<1>5. CASE pc' \in {"resolveGroup", "claim"}
  <2>1. UNCHANGED <<secret, bucket, policy, groups, keyGroup, lost, err>> /\ (Lag' <=> Lag)
    BY <1>2, <1>3, <1>5, SamePlanKeeps DEF OutsideKept
  <2>2. Adopted'
    <3>1. bucket.inc # 0
      BY DEF AdoptOrCollide
    <3>2. CASE pc' = "resolveGroup"
      BY <1>2, <2>1, <3>1, <3>2, TagsTruthful DEF Adopted, Untagged, Ours, OwnedSteps, ServingSteps
    <3>3. CASE pc' = "claim"
      BY <1>2, <2>1, <3>1, <3>3, TagsTruthful
         DEF IInv, Incarnations, Adopted, Untagged, Ours, OwnedSteps, ServingSteps
    <3> QED
      BY <1>5, <3>2, <3>3
  <2>3. pc' \in Steps /\ SameSide /\ Asked' /\ Resolved' /\ Released'
    BY <1>1, <1>5 DEF SameSide, Asked, Resolved, Released, Steps, ProviderCalls,
                      ProvisioningSteps, ServingSteps, TeardownSteps
  <2>4. Served'
    BY <1>1, <1>3, <1>5, <2>1, SamePlanKeeps DEF IInv, Served, LiveKeys
  <2>5. LocalsTyped' /\ err' \in Errors
    BY <1>1, <2>1 DEF IInv, TypeOK, LocalsTyped
  <2> QED
    BY <1>3, <1>5, <2>2, <2>3, <2>4, <2>5, MoveStep
<1> QED
  BY <1>2, <1>4, <1>5

\* Without lag a read shows what is there; with it, groups that exist at least.
LEMMA ReadsKnown ==
  ASSUME IInv, NEW tags \in TagReads, NEW doc \in PolicyReads, NEW listing \in GroupListings
  PROVE  /\ FromTags(tags) \in groups \cup {None} /\ FromPolicy(doc, listing) \in groups \cup {None}
         /\ groups \subseteq Groups
         /\ ~Lag => /\ FromTags(tags) # None => FromTags(tags) = bucket.group
                    /\ FromTags(tags) = None => bucket.group \notin groups
                    /\ FromPolicy(doc, listing) # None => FromPolicy(doc, listing) = policy
                    /\ FromPolicy(doc, listing) = None => policy \notin groups
<1>1. groups \subseteq Groups /\ None \notin groups /\ listing \subseteq groups
  BY Constants DEF IInv, TypeOK, GroupListings
<1>2. ~Lag => tags = bucket /\ doc = policy /\ listing = groups
  BY DEF TagReads, PolicyReads, GroupListings
<1> QED
  BY <1>1, <1>2 DEF FromTags, FromPolicy

LEMMA ResolveGroupStep == ASSUME IInv, ResolveGroup PROVE IInv'
<1>1. /\ pc = "resolveGroup" /\ UNCHANGED <<fresh, recreate, key, drain>>
      /\ NewLook /\ UNCHANGED <<apiVars, provVars, cache, wake, stale, budget>>
  BY DEF ResolveGroup, Goto, FailWith
<1>2. PICK tags \in TagReads, doc \in PolicyReads, listing \in GroupListings :
        \/ pc' = "fail" /\ err' = "unreachable" /\ UNCHANGED <<b, gid, made>>
        \/ /\ tags.owner = "us" /\ FromTags(tags) # None /\ pc' = "ensurePolicy"
           /\ b' = [b EXCEPT !.status.group = FromTags(tags)] /\ gid' = FromTags(tags)
           /\ UNCHANGED <<made, err>>
        \/ /\ tags.owner = "us" /\ FromTags(tags) = None /\ FromPolicy(doc, listing) # None
           /\ pc' = "stamp" /\ gid' = FromPolicy(doc, listing) /\ made' = FALSE
           /\ UNCHANGED <<b, err>>
        \/ /\ tags.owner = "us" /\ FromTags(tags) = None /\ FromPolicy(doc, listing) = None
           /\ pc' = "createGroup" /\ UNCHANGED <<b, gid, made, err>>
  BY DEF ResolveGroup, Goto, FailWith, PublishGroup
<1>3. OutsideKept /\ SamePlan
  BY <1>1, NothingWritten, FaultPlan DEF IInv
<1>4. CASE pc' = "fail"
  BY <1>1, <1>2, <1>3, <1>4, FailStep DEF Errors
<1>5. CASE pc' \in {"ensurePolicy", "stamp", "createGroup"}
  <2>1. UNCHANGED <<secret, bucket, policy, groups, keyGroup, lost, err>> /\ (Lag' <=> Lag)
    BY <1>2, <1>3, <1>5, SamePlanKeeps DEF OutsideKept
  <2>2. gid' \in Groups \cup {None} /\ made' \in BOOLEAN
    BY <1>2, ReadsKnown DEF IInv, TypeOK
  <2>3. b' \in Resource
    <3>1. CASE UNCHANGED b
      BY <3>1 DEF IInv, TypeOK
    <3>2. CASE b' = [b EXCEPT !.status.group = FromTags(tags)]
      BY <3>2, ReadsKnown, GroupPublished DEF IInv, TypeOK, Like
    <3> QED
      BY <1>2, <3>1, <3>2
  <2>4. Adopted'
    <3>1. bucket.inc # 0 /\ bucket.owner = "us"
      BY <1>2, <1>5, TagsTruthful DEF ResolveGroup
    <3> QED
      BY <1>5, <2>1, <3>1 DEF Adopted, Untagged, Ours
  <2>5. pc' \in Steps /\ SameSide /\ Asked' /\ Released'
    BY <1>1, <1>5 DEF SameSide, Asked, Released, Steps, ProviderCalls,
                      ProvisioningSteps, ServingSteps, TeardownSteps
  <2>6. ~Lag => Resolved'
    BY <1>2, <1>5, <2>1, ReadsKnown DEF Resolved, ServingSteps
  <2>7. Served'
    BY <1>1, <1>3, <1>5, <2>1, SamePlanKeeps DEF IInv, Served, LiveKeys
  <2>8. LocalsTyped' /\ err' \in Errors
    BY <1>1, <2>1, <2>2, <2>3 DEF IInv, TypeOK, LocalsTyped
  <2> QED
    BY <1>3, <1>5, <2>4, <2>5, <2>6, <2>7, <2>8, MoveStep
<1> QED
  BY <1>2, <1>4, <1>5

LEMMA DecideKeyStep == ASSUME IInv, DecideKey PROVE IInv'
<1>1. /\ pc = "decideKey" /\ gid \in groups /\ UNCHANGED <<b, fresh, recreate, gid, made, key, err>>
      /\ UNCHANGED <<apiVars, provVars, cache, wake, stale, histVars, budget>>
      /\ \/ pc' = "markReady" /\ KeysOf(gid) # {} /\ UNCHANGED drain
         \/ pc' = "clearKeys" /\ drain' = KeysOf(gid)
  BY DEF DecideKey, KeepCredential, Goto
<1>2. OutsideKept /\ SamePlan
  BY <1>1, NothingWritten, FaultPlan DEF IInv
<1>3. UNCHANGED <<secret, bucket, policy, groups, keyGroup, lost, behind>> /\ (Lag' <=> Lag)
  BY <1>1, <1>2, SamePlanKeeps DEF OutsideKept, histVars
<1>4. Adopted'
  BY <1>1, <1>3 DEF IInv, Adopted, Untagged, Ours, OwnedSteps, ServingSteps
<1>5. pc' \in Steps /\ SameSide /\ Asked' /\ Released'
  BY <1>1 DEF SameSide, Asked, Released, Steps, ProviderCalls, ProvisioningSteps, ServingSteps,
              TeardownSteps
<1>6. (~Lag /\ lost = "never") => Resolved'
  BY <1>1, <1>3 DEF IInv, Attributed, Resolved, ServingSteps
<1>7. Served'
  <2> SUFFICES ASSUME Undisturbed PROVE Served'
    BY <1>2, SamePlanKeeps DEF Served
  <2>1. /\ lost = "never" /\ Recorded /\ bucket.group = gid /\ policy = gid
        /\ secret # None => LiveKeys \subseteq {secret}
    BY <1>1 DEF IInv, Served, Attributed, Resolved, Undisturbed, ServingSteps
  <2>2. LiveKeys = KeysOf(gid)
    BY <1>1, <2>1, Constants DEF IInv, TypeOK, Recorded, LiveKeys, KeysOf
  <2>3. UNCHANGED <<LiveKeys, KeysOf(gid)>>
    BY <1>1, <1>3 DEF LiveKeys, KeysOf
  <2> QED
    BY <1>1, <1>3, <2>1, <2>2, <2>3 DEF Served
<1>8. LocalsTyped' /\ err' \in Errors
  BY <1>1 DEF IInv, TypeOK, LocalsTyped, KeysOf
<1> QED
  BY <1>1, <1>2, <1>4, <1>5, <1>6, <1>7, <1>8, MoveStep

LEMMA MarkReadyStep == ASSUME IInv, MarkReady PROVE IInv'
<1>1. /\ pc = "markReady" /\ (\E requeue \in BOOLEAN : EndPass(requeue))
      /\ UNCHANGED <<secret, stored, bucket, policy, groups, keyGroup, seen, incs, cache, reported,
                     lost, behind, budget>>
      /\ cr' = cr \/ cr' = [cr EXCEPT !.status = ReadyStatus]
      /\ readyInc' \in {readyInc, bucket.inc}
  <2>1. Resync \in BOOLEAN
    BY ReconcilerAssumption DEF IInv, TypeOK, Resync, Plan
  <2> QED
    BY <2>1 DEF MarkReady, secretVars, provVars
<1>2. ReadyStatus \in Status
  <2> DEFINE rotated == IF PendingRotation(b) THEN b.rotate ELSE b.status.rotated
  <2>1. rotated \in 0..MaxRotations /\ b.generation \in Nat /\ gid \in Groups \cup {None}
    BY DEF IInv, TypeOK, Resource, Status
  <2>2. ReadyStatus = [phase |-> "Ready", ready |-> TRUE, observed |-> b.generation,
                       resolved |-> TRUE, group |-> gid, rotated |-> rotated,
                       degraded |-> FALSE, missing |-> FALSE]
    BY DEF ReadyStatus
  <2> HIDE DEF rotated
  <2> QED
    BY <2>1, <2>2 DEF Status, Phases
<1>3. Like(cr, cr')
  <2>1. CASE cr' = cr
    BY <2>1 DEF Like, IInv, TypeOK
  <2>2. CASE cr' = [cr EXCEPT !.status = ReadyStatus]
    BY <1>2, <2>2, StatusWritten DEF IInv, TypeOK
  <2> QED
    BY <1>1, <2>1, <2>2
<1>4. readyInc' \in Nat
  BY <1>1 DEF IInv, TypeOK, Cloud
<1> QED
  BY <1>1, <1>3, <1>4, EndStep, FaultPlan DEF IInv, TypeOK

LEMMA FailPassStep == ASSUME IInv, FailPass PROVE IInv'
<1>1. /\ pc = "fail" /\ (\E requeue \in BOOLEAN : EndPass(requeue))
      /\ UNCHANGED <<secret, stored, bucket, policy, groups, keyGroup, seen, incs, cache, readyInc,
                     reported, lost, behind>>
      /\ UNCHANGED budget \/ Fault
      /\ cr' = cr \/ \E st \in FailureStatuses : cr' = [cr EXCEPT !.status = st]
  BY DEF FailPass, secretVars, provVars, histVars
<1>2. FailureStatuses \subseteq Status
  <2>1. /\ b.status \in Status /\ b.generation \in Nat /\ b.status.degraded \in BOOLEAN
        /\ b.status.missing \in BOOLEAN
    BY DEF IInv, TypeOK, Resource, Status
  <2>2. FailedStatus \in Status
    <3> DEFINE d == b.status.degraded /\ err # "missing"
               m == b.status.missing \/ err = "missing"
    <3>1. d \in BOOLEAN /\ m \in BOOLEAN
      OBVIOUS
    <3>2. FailedStatus = [b.status EXCEPT !.phase = "Failed", !.ready = FALSE,
                            !.observed = b.generation, !.degraded = d, !.missing = m]
      BY DEF FailedStatus
    <3> HIDE DEF d, m
    <3> QED
      BY <2>1, <3>1, <3>2 DEF Status, Phases
  <2>3. [b.status EXCEPT !.degraded = TRUE] \in Status
    BY <2>1 DEF Status
  <2> QED
    BY <2>2, <2>3 DEF FailureStatuses
<1>3. Like(cr, cr')
  <2>1. CASE cr' = cr
    BY <2>1 DEF Like, IInv, TypeOK
  <2>2. CASE \E st \in FailureStatuses : cr' = [cr EXCEPT !.status = st]
    BY <1>2, <2>2, StatusWritten DEF IInv, TypeOK
  <2> QED
    BY <1>1, <2>1, <2>2
<1> QED
  BY <1>1, <1>3, EndStep, FaultPlan DEF IInv, TypeOK


----------------------------------------------------------------------------
(* The reads of a teardown. *)

LEMMA TeardownMove ==
  ASSUME IInv, OutsideKept, SamePlan, UNCHANGED <<fresh, recreate, made, key, err>>, Like(b, b'),
         gid' \in Groups \cup {None}, drain' \in SUBSET Keys,
         pc \in TeardownSteps, pc' \in TeardownSteps, pc' # "dropFinalizer",
         pc' = "wipe" => b.wipe /\ EnableWipeOnDelete,
         pc' \in OwnedSteps => Ours,
         (~Lag /\ lost = "never") => Released',
         (pc' = "deleteSecret" /\ ~Lag) => ~Ours
  PROVE  IInv'
<1>1. UNCHANGED <<secret, bucket, policy, groups, keyGroup, lost>>
  BY DEF OutsideKept
<1>2. /\ pc' \in Steps /\ SameSide /\ Resolved'
      /\ pc' \notin ServingSteps /\ pc' \notin {"tagNew", "claim"}
      /\ pc \notin {"writeSecret", "rollbackKey"}
      /\ pc' = "releaseStamp" => pc' \in OwnedSteps
  BY SidesApart DEF SameSide, Resolved, ServingSteps, TeardownSteps, OwnedSteps
<1>3. Asked'
  BY DEF IInv, Asked, Like
<1>4. Adopted'
  BY <1>1, <1>2 DEF Adopted, Untagged, Ours
<1>5. Served'
  BY <1>1, <1>2, SamePlanKeeps DEF IInv, Served, LiveKeys, ServingSteps
<1>6. LocalsTyped' /\ err' \in Errors
  BY DEF IInv, TypeOK, LocalsTyped, Like
<1> QED
  BY <1>2, <1>3, <1>4, <1>5, <1>6, MoveStep

LEMMA MarkDeletingStep == ASSUME IInv, MarkDeleting PROVE IInv'
<1>1. /\ pc = "markDeleting"
      /\ UNCHANGED <<secret, stored, bucket, policy, groups, keyGroup, seen, incs, cache,
                     readyInc, reported, lost, behind, budget>>
  BY DEF MarkDeleting, Goto, secretVars, provVars, histVars
<1>2. SamePlan
  BY <1>1, FaultPlan DEF IInv
<1>3. CASE EndPass(TRUE) /\ UNCHANGED cr
  BY <1>1, <1>2, <1>3, EndStep DEF IInv, TypeOK, Like
<1>4. CASE /\ pc' = "findBucket"
           /\ UNCHANGED <<wake, stale, fresh, recreate, gid, made, key, drain, err>>
           /\ \/ UNCHANGED <<cr, b>>
              \/ b' = [b EXCEPT !.status.phase = "Deleting"] /\ cr' = [cr EXCEPT !.status = b'.status]
  <2> DEFINE st == [b.status EXCEPT !.phase = "Deleting"]
  <2>1. st \in Status
    BY DEF IInv, TypeOK, Resource, Status, Phases
  <2>2. [b EXCEPT !.status.phase = "Deleting"] = [b EXCEPT !.status = st]
    BY DEF IInv, TypeOK, Resource
  <2>3. [b EXCEPT !.status = st].status = st
    BY DEF IInv, TypeOK, Resource
  <2> HIDE DEF st
  <2>4. Like(b, b') /\ Like(cr, cr')
    <3>1. CASE UNCHANGED <<cr, b>>
      BY <3>1 DEF Like, IInv, TypeOK
    <3>2. CASE b' = [b EXCEPT !.status = st] /\ cr' = [cr EXCEPT !.status = st]
      BY <2>1, <3>2, StatusWritten DEF IInv, TypeOK
    <3> QED
      BY <1>4, <2>2, <2>3, <3>1, <3>2
  <2>5. OutsideKept
    BY <1>1, <1>4, <2>4 DEF OutsideKept
  <2>6. pc \in TeardownSteps /\ pc' \in TeardownSteps /\ pc' \notin OwnedSteps /\ Released'
    BY <1>1, <1>4 DEF TeardownSteps, OwnedSteps, ServingSteps, Released
  <2>7. gid' \in Groups \cup {None} /\ drain' \in SUBSET Keys
    BY <1>4 DEF IInv, TypeOK
  <2> QED
    BY <1>2, <1>4, <2>4, <2>5, <2>6, <2>7, TeardownMove
<1> QED
  BY <1>3, <1>4 DEF MarkDeleting, Goto, passVars

LEMMA FindBucketStep == ASSUME IInv, FindBucket PROVE IInv'
<1>1. /\ pc = "findBucket" /\ UNCHANGED <<b, fresh, recreate, gid, made, key, drain, err>>
      /\ UNCHANGED <<apiVars, provVars, cache, wake, stale, histVars, budget>>
      /\ \E listed \in HasBucketAnswers : pc' = IF listed THEN "prepareDelete" ELSE "deleteSecret"
  BY DEF FindBucket, Goto
<1>2. OutsideKept /\ SamePlan /\ Like(b, b')
  BY <1>1, NothingWritten, FaultPlan DEF IInv, TypeOK, Like
<1>3. /\ pc' \in {"prepareDelete", "deleteSecret"}
      /\ (pc' = "deleteSecret" /\ ~Lag) => ~Ours
  BY <1>1 DEF HasBucketAnswers, Ours
<1>4. pc \in TeardownSteps /\ pc' \in TeardownSteps /\ pc' \notin OwnedSteps /\ Released'
  BY <1>1, <1>3 DEF TeardownSteps, OwnedSteps, ServingSteps, Released
<1>5. gid' \in Groups \cup {None} /\ drain' \in SUBSET Keys
  BY <1>1 DEF IInv, TypeOK
<1> QED
  BY <1>1, <1>2, <1>3, <1>4, <1>5, TeardownMove

LEMMA PrepareDeleteStep == ASSUME IInv, PrepareDelete PROVE IInv'
<1>1. /\ pc = "prepareDelete" /\ bucket.inc # 0 /\ UNCHANGED <<b, fresh, recreate, gid, made, key, drain>>
      /\ NewLook /\ UNCHANGED <<apiVars, provVars, cache, wake, stale, budget>>
  BY DEF PrepareDelete, Goto, FailWith
<1>2. PICK tags \in TagReads :
        \/ /\ b.wipe /\ EnableWipeOnDelete /\ tags.owner = "us"
           /\ pc' = "wipe" /\ UNCHANGED err
        \/ pc' = "releaseGroup" /\ UNCHANGED err
        \/ pc' = "fail" /\ err' = "unreachable"
  BY DEF PrepareDelete, Goto, FailWith
<1>3. OutsideKept /\ SamePlan /\ Like(b, b')
  BY <1>1, NothingWritten, FaultPlan DEF IInv, TypeOK, Like
<1>4. CASE pc' = "fail"
  BY <1>1, <1>2, <1>3, <1>4, FailStep DEF Errors
<1>5. CASE pc' # "fail"
  <2>1. /\ pc \in TeardownSteps /\ pc' \in TeardownSteps /\ Released' /\ pc' # "dropFinalizer"
        /\ pc' # "deleteSecret" /\ (pc' \in OwnedSteps => pc' = "wipe")
    BY <1>1, <1>2, <1>5 DEF TeardownSteps, OwnedSteps, ServingSteps, Released
  <2>2. gid' \in Groups \cup {None} /\ drain' \in SUBSET Keys
    BY <1>1 DEF IInv, TypeOK
  <2>3. pc' = "wipe" => b.wipe /\ EnableWipeOnDelete /\ Ours
    BY <1>1, <1>2, TagsTruthful DEF Ours
  <2> QED
    BY <1>1, <1>2, <1>3, <1>5, <2>1, <2>2, <2>3, TeardownMove
<1> QED
  BY <1>4, <1>5

LEMMA ReleaseGroupStep == ASSUME IInv, ReleaseGroup PROVE IInv'
<1>1. /\ pc = "releaseGroup" /\ UNCHANGED <<b, fresh, recreate, made, key, err>>
      /\ NewLook /\ UNCHANGED <<apiVars, provVars, cache, wake, stale, budget>>
  BY DEF ReleaseGroup, Goto
<1>2. PICK tags \in TagReads, doc \in PolicyReads, listing \in GroupListings :
        \/ /\ tags.owner # "us" \/ (FromTags(tags) = None /\ FromPolicy(doc, listing) = None)
           /\ pc' = "checkOwner" /\ UNCHANGED <<gid, drain>>
        \/ /\ tags.owner = "us" /\ FromTags(tags) # None /\ pc' = "drainKeys"
           /\ gid' = FromTags(tags) /\ drain' = KeysOf(gid')
        \/ /\ tags.owner = "us" /\ FromTags(tags) = None /\ FromPolicy(doc, listing) # None
           /\ pc' = "releaseStamp" /\ gid' = FromPolicy(doc, listing) /\ UNCHANGED drain
  BY DEF ReleaseGroup, Goto
<1>3. OutsideKept /\ SamePlan /\ Like(b, b')
  BY <1>1, NothingWritten, FaultPlan DEF IInv, TypeOK, Like
<1>4. UNCHANGED <<secret, bucket, policy, groups, keyGroup, lost, LiveKeys>>
  BY <1>3 DEF OutsideKept, LiveKeys
<1>5. /\ pc \in TeardownSteps /\ pc' \in TeardownSteps /\ pc' # "dropFinalizer" /\ pc' # "wipe"
      /\ pc' # "deleteSecret" /\ (pc' \in OwnedSteps => pc' # "checkOwner")
  BY <1>1, <1>2 DEF TeardownSteps, OwnedSteps, ServingSteps
<1>6. gid' \in Groups \cup {None} /\ drain' \in SUBSET Keys
  BY <1>2, ReadsKnown DEF IInv, TypeOK, KeysOf
<1>7. (pc' \in OwnedSteps) => Ours
  BY <1>2, <1>5, TagsTruthful DEF ReleaseGroup, Ours
<1>8. (~Lag /\ lost = "never") => Released'
  <2> SUFFICES ASSUME ~Lag, lost = "never" PROVE Released'
    OBVIOUS
  <2>1. Recorded /\ tags = bucket
    BY TagsTruthful DEF IInv, Attributed
  <2>2. CASE pc' = "checkOwner"
    BY <1>2, <1>4, <2>1, <2>2, ReadsKnown DEF Recorded, Released
  <2>3. CASE pc' = "drainKeys"
    <3>1. FromTags(tags) = bucket.group /\ bucket.group # None
      BY <1>2, <2>3, ReadsKnown
    <3>2. LiveKeys \subseteq KeysOf(FromTags(tags))
      BY <2>1, <3>1 DEF Recorded, LiveKeys, KeysOf
    <3> QED
      BY <1>2, <1>4, <2>3, <3>1, <3>2 DEF Released
  <2>4. CASE pc' = "releaseStamp"
    BY <1>2, <1>4, <2>4, ReadsKnown DEF Released
  <2> QED
    BY <1>2, <2>2, <2>3, <2>4
<1> QED
  BY <1>1, <1>3, <1>5, <1>6, <1>7, <1>8, TeardownMove

LEMMA CheckOwnerStep == ASSUME IInv, CheckOwner PROVE IInv'
<1>1. /\ pc = "checkOwner" /\ UNCHANGED <<b, fresh, recreate, gid, made, key, drain, err>>
      /\ NewLook /\ UNCHANGED <<apiVars, provVars, cache, wake, stale, budget>>
      /\ \E tags \in TagReads : pc' = IF tags.owner = "us" THEN "deleteBucket" ELSE "deleteSecret"
  BY DEF CheckOwner, Goto
<1>2. OutsideKept /\ SamePlan /\ Like(b, b')
  BY <1>1, NothingWritten, FaultPlan DEF IInv, TypeOK, Like
<1>3. /\ pc' \in {"deleteBucket", "deleteSecret"}
      /\ pc' = "deleteBucket" => Ours
      /\ (pc' = "deleteSecret" /\ ~Lag) => ~Ours
  BY <1>1, TagsTruthful DEF CheckOwner, Ours
<1>4. pc \in TeardownSteps /\ pc' \in TeardownSteps /\ pc' # "dropFinalizer" /\ pc' # "wipe"
      /\ "deleteSecret" \notin OwnedSteps
  BY <1>1, <1>3 DEF TeardownSteps, OwnedSteps, ServingSteps
<1>5. UNCHANGED <<bucket, LiveKeys>>
  BY <1>2 DEF OutsideKept, LiveKeys
<1>6. (~Lag /\ lost = "never") => Released'
  BY <1>1, <1>3, <1>5 DEF IInv, Attributed, Released
<1>7. gid' \in Groups \cup {None} /\ drain' \in SUBSET Keys
  BY <1>1 DEF IInv, TypeOK
<1> QED
  BY <1>1, <1>2, <1>3, <1>4, <1>6, <1>7, TeardownMove

----------------------------------------------------------------------------
(* Failures. *)

LEMMA CallFailsStep == ASSUME IInv, CallFails PROVE IInv'
<1>1. /\ pc # "idle" /\ err' \in Errors /\ Fault
      /\ UNCHANGED <<apiVars, provVars, cache, wake, stale, histVars, b, fresh, recreate, gid, made,
                     key, drain>>
  BY DEF CallFails, IInv, TypeOK, Errors, ProviderCalls
<1>2. OutsideKept /\ SamePlan /\ ~Undisturbed
  BY <1>1, NothingWritten, FaultPlan DEF IInv, Fault, Fails, Undisturbed
<1>3. \/ pc' = "fail"
      \/ pc' = "rollbackGroup" /\ pc = "stamp" /\ made
      \/ pc' = "rollbackKey" /\ pc = "writeSecret"
  BY DEF CallFails, ErrorPath, StampError, IInv, TypeOK
<1> QED
  BY <1>1, <1>2, <1>3, FailStep DEF histVars

LEMMA TargetGoneStep == ASSUME IInv, TargetGone PROVE IInv'
<1>1. /\ pc # "idle" /\ pc \notin {"writeSecret", "rollbackKey"} /\ err' \in Errors
      /\ UNCHANGED <<apiVars, provVars, cache, wake, stale, histVars, b, fresh, recreate, gid, made,
                     key, drain, budget>>
  BY DEF TargetGone, Errors, BucketCalls
<1>2. OutsideKept /\ SamePlan
  BY <1>1, NothingWritten, FaultPlan DEF IInv
<1>3. \/ pc' = "fail"
      \/ pc' = "rollbackGroup" /\ pc = "stamp" /\ made
  BY <1>1 DEF TargetGone, ErrorPath, StampError, IInv, TypeOK
<1> QED
  BY <1>1, <1>2, <1>3, FailStep DEF histVars

LEMMA ObjectWriteFailsStep == ASSUME IInv, ObjectWriteFails PROVE IInv'
<1>1. /\ EndPass(TRUE) /\ SamePlan /\ pc \notin {"writeSecret", "rollbackKey"}
      /\ UNCHANGED <<cr, secret, stored, bucket, policy, groups, keyGroup, seen, incs, cache,
                     readyInc, reported, lost, behind>>
  BY FaultPlan DEF ObjectWriteFails, IInv, apiVars, secretVars, provVars, histVars
<1> QED
  BY <1>1, EndStep DEF IInv, TypeOK, Like

LEMMA CrashStep == ASSUME IInv, Crash PROVE IInv'
<1>1. /\ EndPass(TRUE) /\ Fails("crash") /\ cache' = cr /\ stored' = secret
      /\ UNCHANGED <<cr, secret, bucket, policy, groups, keyGroup, seen, incs, readyInc, reported,
                     lost, behind>>
  BY DEF Crash, provVars, histVars
<1>2. SamePlan
  BY <1>1 DEF IInv, TypeOK, SamePlan, Budgets, Fails
<1>3. ~Undisturbed
  BY <1>1 DEF Fails, Undisturbed
<1> QED
  BY <1>1, <1>2, <1>3, EndStep DEF IInv, TypeOK, Like

LEMMA DropFinalizerStep == ASSUME IInv, DropFinalizer PROVE IInv'
<1>1. /\ pc = "dropFinalizer" /\ (\E requeue \in BOOLEAN : EndPass(requeue))
      /\ UNCHANGED <<secret, stored, bucket, policy, groups, keyGroup, seen, incs, cache,
                     readyInc, reported, lost, behind, budget>>
      /\ cr' \in {cr, NoResource}
  BY DEF DropFinalizer, secretVars, provVars, histVars
<1>2. SamePlan
  BY <1>1, FaultPlan DEF IInv
<1>3. CASE cr' = cr
  BY <1>1, <1>2, <1>3, EndStep DEF IInv, TypeOK, Like
<1>4. CASE cr' = NoResource
  <2>1. /\ pc' = "idle" /\ wake' \in BOOLEAN /\ b' = NoResource /\ stale' = FALSE /\ fresh' = FALSE
        /\ recreate' = FALSE /\ gid' = None /\ made' = FALSE /\ key' = None /\ drain' = {}
        /\ err' = "none"
    BY <1>1 DEF EndPass, IInv, TypeOK
  <2>2. TypeOK'
    BY <1>1, <1>4, <2>1, ResourcesTyped DEF IInv, TypeOK, Steps, Errors
  <2>3. Lag' <=> Lag
    BY <1>2, SamePlanKeeps
  <2>4. Asked' /\ Incarnations' /\ Adopted'
    BY <1>1, <2>1, SidesApart DEF IInv, Asked, Incarnations, Adopted, Untagged, Ours, OwnedSteps, ServingSteps
  <2>5. Attributed'
    BY <1>1, <2>1, <2>3 DEF IInv, Attributed, Recorded, Resolved, Released, LiveKeys, ServingSteps
  <2>6. Objects'
    <3>1. cache.exists => cache.deleting
      BY <1>1 DEF IInv, Objects, TeardownSteps
    <3> QED
      BY <1>1, <1>4, <2>1, <3>1, SidesApart, ResourcesTyped DEF Objects
  <2>7. Kept'
    BY <1>1, <1>4, <2>1, <2>3, ResourcesTyped DEF IInv, Kept, Ours
  <2>8. Served'
    BY <1>1, <1>2, <2>1, SamePlanKeeps DEF IInv, Served, LiveKeys
  <2> QED
    BY <2>2, <2>4, <2>5, <2>6, <2>7, <2>8 DEF IInv
<1> QED
  BY <1>1, <1>3, <1>4

----------------------------------------------------------------------------
(* Everything that happens between two calls. *)

\* What a change of the Bucket, of the informers or of the lagging reads leaves alone.
CloudKept == UNCHANGED <<secret, bucket, policy, groups, keyGroup, incs, readyInc, reported, lost, behind,
                         pc, b, fresh, recreate, gid, made, key, drain, err>>

LEMMA OutsideStep ==
  ASSUME IInv, CloudKept, SamePlan, TypeOK', Objects', Kept',
         seen' \in {seen, [bucket |-> bucket, policy |-> policy, groups |-> groups]}
  PROVE  IInv'
<1>1. UNCHANGED <<secret, bucket, policy, groups, keyGroup, incs, lost, behind, pc, b, gid, made, key, drain>>
  BY DEF CloudKept
<1>2. /\ (Lag' <=> Lag) /\ (Undisturbed' <=> Undisturbed)
      /\ UNCHANGED LiveKeys /\ \A g : KeysOf(g)' = KeysOf(g)
  BY <1>1, SamePlanKeeps DEF LiveKeys, KeysOf
<1>3. Asked' /\ Adopted'
  BY <1>1, <1>2 DEF IInv, Asked, Adopted, Untagged, Ours
<1>4. Incarnations'
  BY <1>1 DEF IInv, TypeOK, Incarnations, NoBucket
<1>5. Attributed'
  <2>1. Recorded => Recorded'
    BY <1>1, <1>2 DEF Recorded
  <2>2. Resolved => Resolved'
    BY <1>1, <1>2 DEF Resolved
  <2>3. Released => Released'
    BY <1>1, <1>2 DEF Released
  <2> QED
    BY <1>1, <1>2, <2>1, <2>2, <2>3 DEF IInv, Attributed
<1>6. Served'
  BY <1>1, <1>2 DEF IInv, Served
<1> QED
  BY <1>3, <1>4, <1>5, <1>6 DEF IInv

LEMMA CacheSyncStep == ASSUME IInv, CacheSync PROVE IInv'
<1>1. /\ cache' = cr /\ CloudKept /\ UNCHANGED <<cr, stored, seen, stale, budget>>
      /\ wake' \in BOOLEAN
  BY DEF CacheSync, CloudKept, IInv, TypeOK, apiVars, secretVars, provVars, passVars, histVars
<1>2. SamePlan
  BY <1>1, FaultPlan DEF IInv
<1>3. TypeOK'
  BY <1>1 DEF IInv, TypeOK, CloudKept
<1>4. Objects'
  BY <1>1 DEF IInv, Objects, CloudKept
<1>5. Kept'
  BY <1>1, <1>2, SamePlanKeeps DEF IInv, Kept, CloudKept, Ours
<1> QED
  BY <1>1, <1>2, <1>3, <1>4, <1>5, OutsideStep

LEMMA SecretSyncStep == ASSUME IInv, SecretSync PROVE IInv'
<1>1. stored' = secret /\ CloudKept /\ UNCHANGED <<cr, cache, seen, stale, budget>> /\ wake' = TRUE
  BY DEF SecretSync, CloudKept, provVars, passVars, histVars
<1>2. SamePlan
  BY <1>1, FaultPlan DEF IInv
<1>3. TypeOK'
  BY <1>1 DEF IInv, TypeOK, CloudKept
<1>4. Objects'
  BY <1>1 DEF IInv, Objects, CloudKept
<1>5. Kept'
  BY <1>1, <1>2, SamePlanKeeps DEF IInv, Kept, CloudKept, Ours
<1> QED
  BY <1>1, <1>2, <1>3, <1>4, <1>5, OutsideStep

LEMMA SettleStep == ASSUME IInv, Settle PROVE IInv'
<1>1. /\ seen' = [bucket |-> bucket, policy |-> policy, groups |-> groups] /\ CloudKept
      /\ UNCHANGED <<cr, stored, cache, wake, stale, budget>>
  BY DEF Settle, CloudKept, apiVars, secretVars, passVars, histVars
<1>2. SamePlan
  BY <1>1, FaultPlan DEF IInv
<1>3. TypeOK'
  BY <1>1 DEF IInv, TypeOK, CloudKept
<1>4. Objects'
  BY <1>1 DEF IInv, Objects, CloudKept
<1>5. Kept'
  BY <1>1, <1>2, SamePlanKeeps DEF IInv, Kept, CloudKept, Ours
<1> QED
  BY <1>1, <1>2, <1>3, <1>4, <1>5, OutsideStep

\* Somebody else writes the Bucket, or deletes one that has no finalizer.
LEMMA EditStep ==
  ASSUME IInv, CloudKept, SamePlan, UNCHANGED <<cache, stored, wake, seen>>,
         cr.exists, cr' \in Resource, stale' = (pc # "idle"),
         \/ cr'.exists /\ cr'.finalizer = cr.finalizer /\ (cr.deleting => cr'.deleting)
         \/ cr' = NoResource /\ ~cr.finalizer /\ ~cr.deleting
  PROVE  IInv'
<1>1. UNCHANGED <<secret, bucket, policy, groups, keyGroup, incs, readyInc, reported, lost, behind, pc, b,
                  fresh, recreate, gid, made, key, drain, err>>
  BY DEF CloudKept
<1>2. TypeOK'
  BY <1>1 DEF IInv, TypeOK, SamePlan, Budgets
<1>3. Objects'
  <2>1. CASE cr'.exists /\ cr'.finalizer = cr.finalizer /\ (cr.deleting => cr'.deleting)
    BY <1>1, <2>1 DEF IInv, Objects
  <2>2. CASE cr' = NoResource /\ ~cr.finalizer /\ ~cr.deleting
    BY <1>1, <2>2, ResourcesTyped DEF IInv, Objects
  <2> QED
    BY <2>1, <2>2
<1>4. Kept'
  BY <1>1, SamePlanKeeps, ResourcesTyped DEF IInv, Kept, Ours
<1> QED
  BY <1>2, <1>3, <1>4, OutsideStep

LEMMA EditFrame ==
  ASSUME IInv, NEW kind, NEW new, Edit(kind, new)
  PROVE  /\ CloudKept /\ SamePlan /\ UNCHANGED <<cache, stored, wake, seen>>
         /\ cr.exists /\ cr' = new /\ stale' = (pc # "idle")
BY DEF Edit, CloudKept, SamePlan, Budgets, IInv, TypeOK, secretVars, provVars, passVars, histVars

\* An edit of spec or annotations is an edit of the same Bucket.
SameObject(r, new) ==
  new \in Resource /\ new.exists = r.exists /\ new.finalizer = r.finalizer

LEMMA Edited ==
  ASSUME NEW r \in Resource, NEW allow \in BOOLEAN, NEW faulty \in BOOLEAN
  PROVE  /\ SameObject(r, [r EXCEPT !.rotate = 0])
         /\ [r EXCEPT !.rotate = 0].deleting = r.deleting
         /\ SameObject(r, [r EXCEPT !.allowRecreate = allow, !.faulty = faulty, !.generation = @ + 1])
         /\ [r EXCEPT !.allowRecreate = allow, !.faulty = faulty, !.generation = @ + 1].deleting
              = r.deleting
         /\ SameObject(r, [r EXCEPT !.wipe = TRUE, !.generation = @ + 1])
         /\ [r EXCEPT !.wipe = TRUE, !.generation = @ + 1].deleting = r.deleting
         /\ SameObject(r, [r EXCEPT !.deleting = TRUE, !.generation = @ + 1])
         /\ [r EXCEPT !.deleting = TRUE, !.generation = @ + 1].deleting
<1>1. 0 \in 0..MaxRotations /\ r.generation + 1 \in Nat
  BY ReconcilerAssumption DEF Resource
<1>2. /\ SameObject(r, [r EXCEPT !.rotate = 0])
      /\ [r EXCEPT !.rotate = 0].deleting = r.deleting
  BY <1>1 DEF SameObject, Resource
<1>3. /\ SameObject(r, [r EXCEPT !.allowRecreate = allow, !.faulty = faulty, !.generation = @ + 1])
      /\ [r EXCEPT !.allowRecreate = allow, !.faulty = faulty, !.generation = @ + 1].deleting
            = r.deleting
  BY <1>1 DEF SameObject, Resource
<1>4. /\ SameObject(r, [r EXCEPT !.wipe = TRUE, !.generation = @ + 1])
      /\ [r EXCEPT !.wipe = TRUE, !.generation = @ + 1].deleting = r.deleting
  BY <1>1 DEF SameObject, Resource
<1>5. /\ SameObject(r, [r EXCEPT !.deleting = TRUE, !.generation = @ + 1])
      /\ [r EXCEPT !.deleting = TRUE, !.generation = @ + 1].deleting
  BY <1>1 DEF SameObject, Resource
<1> QED
  BY <1>2, <1>3, <1>4, <1>5

LEMMA UserRotatesStep == ASSUME IInv, UserRotates PROVE IInv'
<1>1. Edit("rotate", [cr EXCEPT !.rotate = @ + 1]) /\ cr.rotate < MaxRotations /\ cr \in Resource
  BY DEF UserRotates, IInv, TypeOK
<1> DEFINE new == [cr EXCEPT !.rotate = @ + 1]
<1>2. /\ new \in Resource /\ new.exists = cr.exists /\ new.finalizer = cr.finalizer
      /\ new.deleting = cr.deleting
  <2>1. cr.rotate + 1 \in 0..MaxRotations
    BY <1>1, ReconcilerAssumption DEF Resource
  <2> QED
    BY <1>1, <2>1 DEF Resource
<1> HIDE DEF new
<1> QED
  BY <1>1, <1>2, EditFrame, EditStep DEF new

LEMMA UserEditsSpecStep == ASSUME IInv, UserEditsSpec PROVE IInv'
<1>1. PICK allow, faulty \in BOOLEAN :
        Edit("spec", [cr EXCEPT !.allowRecreate = allow, !.faulty = faulty, !.generation = @ + 1])
  BY DEF UserEditsSpec
<1> DEFINE new == [cr EXCEPT !.allowRecreate = allow, !.faulty = faulty, !.generation = @ + 1]
<1>2. SameObject(cr, new) /\ new.deleting = cr.deleting
  BY Edited DEF IInv, TypeOK
<1>3. Edit("spec", new)
  BY <1>1
<1> HIDE DEF new
<1> QED
  BY <1>2, <1>3, EditFrame, EditStep DEF SameObject

LEMMA UserAllowsWipeStep == ASSUME IInv, UserAllowsWipe PROVE IInv'
<1> DEFINE new == [cr EXCEPT !.wipe = TRUE, !.generation = @ + 1]
<1>1. SameObject(cr, new) /\ new.deleting = cr.deleting
  BY Edited DEF IInv, TypeOK
<1>2. Edit("wipe", new)
  BY DEF UserAllowsWipe
<1> HIDE DEF new
<1> QED
  BY <1>1, <1>2, EditFrame, EditStep DEF SameObject

LEMMA UserDeletesStep == ASSUME IInv, UserDeletes PROVE IInv'
<1> DEFINE marked == [cr EXCEPT !.deleting = TRUE, !.generation = @ + 1]
<1>1. ~cr.deleting /\ Edit("delete", IF cr.finalizer THEN marked ELSE NoResource)
  BY DEF UserDeletes
<1>2. SameObject(cr, marked) /\ marked.deleting
  BY Edited DEF IInv, TypeOK
<1> HIDE DEF marked
<1>3. CASE cr.finalizer
  BY <1>1, <1>2, <1>3, EditFrame, EditStep DEF SameObject
<1>4. CASE ~cr.finalizer
  BY <1>1, <1>4, EditFrame, EditStep, ResourcesTyped
<1> QED
  BY <1>3, <1>4

LEMMA UsagePatchStep == ASSUME IInv, UsagePatch PROVE IInv'
<1>1. Edit("usage", cr) /\ cr \in Resource
  BY DEF UsagePatch, IInv, TypeOK
<1> QED
  BY <1>1, EditFrame, EditStep

LEMMA RotationRetractedStep == ASSUME IInv, RotationRetracted PROVE IInv'
<1>1. /\ CloudKept /\ SamePlan /\ UNCHANGED <<cache, stored, wake, seen>>
      /\ cr.exists /\ stale' = (pc # "idle") /\ cr' = [cr EXCEPT !.rotate = 0]
  BY DEF RotationRetracted, Disturb, CloudKept, SamePlan, Budgets, IInv, TypeOK, secretVars,
         provVars, passVars, histVars
<1>2. SameObject(cr, cr') /\ cr'.deleting = cr.deleting
  BY <1>1, Edited DEF IInv, TypeOK
<1> QED
  BY <1>1, <1>2, EditStep DEF SameObject

\* What happens to Secret, keys, groups and bucket leaves the Bucket and its pass alone.
PassKept == UNCHANGED <<cr, cache, stale, pc, b, fresh, recreate, gid, made, key, drain, err>>

LEMMA PassKeeps ==
  ASSUME IInv, PassKept PROVE Asked' /\ Objects'
BY DEF PassKept, IInv, Asked, Objects

LEMMA DisturbPlan ==
  ASSUME IInv, NEW kind, Disturb(kind)
  PROVE  /\ SamePlan
         /\ kind \in {"key", "bucket", "bucket mid-pass"} => ~Undisturbed
<1>1. SamePlan
  BY DEF IInv, TypeOK, Disturb, SamePlan, Budgets
<1>2. kind \in {"key", "bucket", "bucket mid-pass"} => ~Undisturbed
  BY DEF Disturb, Undisturbed
<1> QED
  BY <1>1, <1>2

LEMMA UserDeletesSecretStep == ASSUME IInv, UserDeletesSecret PROVE IInv'
<1>1. /\ PassKept /\ secret' = None /\ wake' = TRUE /\ stored' \in {stored, None}
      /\ UNCHANGED <<bucket, policy, groups, keyGroup, seen, incs, readyInc, reported, lost, behind>>
  BY DEF UserDeletesSecret, SecretWritten, PassKept, provVars, passVars, histVars
<1>2. SamePlan
  BY DEF UserDeletesSecret, IInv, TypeOK, SamePlan, Budgets
<1>3. TypeOK'
  BY <1>1, <1>2 DEF IInv, TypeOK, PassKept, SamePlan, Budgets
<1>4. Incarnations' /\ Adopted'
  BY <1>1, <1>2, SamePlanKeeps DEF IInv, Incarnations, Adopted, Untagged, Ours, PassKept
<1>5. Attributed'
  BY <1>1, <1>2, SamePlanKeeps DEF IInv, Attributed, Recorded, Resolved, Released, LiveKeys, PassKept
<1>6. Kept'
  BY <1>1, <1>2, SamePlanKeeps DEF IInv, Kept, PassKept, Ours
<1>7. Served'
  BY <1>1, <1>2, SamePlanKeeps DEF IInv, Served, LiveKeys, KeysOf, PassKept
<1> QED
  BY <1>1, <1>3, <1>4, <1>5, <1>6, <1>7, PassKeeps DEF IInv

LEMMA KeyDeletedStep == ASSUME IInv, KeyDeleted PROVE IInv'
<1>1. /\ PassKept /\ Disturb("key") /\ UNCHANGED <<secret, stored, bucket, policy, groups, seen,
                                                   incs, wake, readyInc, reported, lost, behind>>
      /\ \E k \in Keys : keyGroup' = [keyGroup EXCEPT ![k] = None]
  BY DEF KeyDeleted, PassKept, apiVars, secretVars, passVars, histVars
<1>2. SamePlan /\ ~Undisturbed
  BY <1>1, DisturbPlan
<1>3. TypeOK'
  <2>1. keyGroup' \in [Keys -> Groups \cup {None}]
    BY <1>1 DEF IInv, TypeOK
  <2> QED
    BY <1>1, <1>2, <2>1 DEF IInv, TypeOK, PassKept, SamePlan, Budgets
<1>4. Incarnations' /\ Adopted'
  BY <1>1, <1>2, SamePlanKeeps DEF IInv, Incarnations, Adopted, Untagged, Ours, PassKept
<1>5. LiveKeys' \subseteq LiveKeys /\ \A k \in LiveKeys' : keyGroup'[k] = keyGroup[k]
  BY <1>1 DEF IInv, TypeOK, LiveKeys
<1>6. Attributed'
  BY <1>1, <1>2, <1>5, SamePlanKeeps DEF IInv, Attributed, Recorded, Resolved, Released, PassKept
<1>7. Kept'
  BY <1>1, <1>2, SamePlanKeeps DEF IInv, Kept, PassKept, Ours
<1>8. Served'
  BY <1>2, SamePlanKeeps DEF Served
<1> QED
  BY <1>1, <1>3, <1>4, <1>6, <1>7, <1>8, PassKeeps DEF IInv

LEMMA GroupDeletedStep == ASSUME IInv, GroupDeleted PROVE IInv'
<1>1. /\ PassKept /\ Disturb("group") /\ UNCHANGED <<secret, stored, bucket, policy, seen, incs,
                                                     wake, readyInc, reported, lost, behind>>
  BY DEF GroupDeleted, PassKept, apiVars, secretVars, passVars, histVars
<1>2. PICK g \in groups :
        /\ groups' = groups \ {g}
        /\ keyGroup' = [k \in Keys |-> IF keyGroup[k] = g THEN None ELSE keyGroup[k]]
  BY DEF GroupDeleted
<1>3. SamePlan
  BY <1>1, DisturbPlan
<1>4. TypeOK'
  <2>1. keyGroup' \in [Keys -> Groups \cup {None}] /\ groups' \in SUBSET Groups
    BY <1>2 DEF IInv, TypeOK
  <2> QED
    BY <1>1, <1>3, <2>1 DEF IInv, TypeOK, PassKept, SamePlan, Budgets
<1>5. Incarnations' /\ Adopted'
  BY <1>1, <1>3, SamePlanKeeps DEF IInv, Incarnations, Adopted, Untagged, Ours, PassKept
<1>6. /\ LiveKeys' \subseteq LiveKeys
      /\ \A k \in LiveKeys' : keyGroup'[k] = keyGroup[k] /\ keyGroup[k] # g
      /\ \A h \in groups' : KeysOf(h)' = KeysOf(h)
  BY <1>2, Constants DEF IInv, TypeOK, LiveKeys, KeysOf
<1>7. Attributed'
  BY <1>1, <1>2, <1>3, <1>6, SamePlanKeeps
     DEF IInv, Attributed, Recorded, Resolved, Released, PassKept
<1>8. Kept'
  BY <1>1, <1>3, SamePlanKeeps DEF IInv, Kept, PassKept, Ours
<1>9. Served'
  <2> SUFFICES ASSUME Undisturbed PROVE Served'
    BY <1>3, SamePlanKeeps DEF Served
  <2> QED
    BY <1>1, <1>2, <1>6 DEF IInv, Served, PassKept
<1> QED
  BY <1>1, <1>4, <1>5, <1>7, <1>8, <1>9, PassKeeps DEF IInv

\* A bucket that is gone takes its tags and its policy with it.
LEMMA BucketGone ==
  ASSUME IInv, bucket' = NoBucket, policy' = None, UNCHANGED <<seen, incs>>,
         lost' = "during" \/ pc' \notin OwnedSteps
  PROVE  bucket' \in Cloud /\ Incarnations' /\ Adopted' /\ ~Ours'
<1>1. /\ bucket' \in Cloud /\ bucket'.inc = 0 /\ bucket'.owner = "none" /\ bucket'.group = None
      /\ bucket' = NoBucket
  BY DEF NoBucket, Cloud
<1>2. /\ incs \in Nat /\ seen.bucket.inc <= incs
      /\ seen.bucket.inc = 0 => seen.bucket.owner # "us"
  BY DEF IInv, TypeOK, Incarnations
<1>3. Incarnations'
  BY <1>1, <1>2 DEF Incarnations
<1> QED
  BY <1>1, <1>3 DEF Adopted, Untagged, Ours

\* A bucket nobody tagged, or none at all, leads to no key.
LEMMA UntaggedKeyless ==
  ASSUME IInv, ~Lag, lost = "never",
         bucket.owner = "none" \/ bucket.inc = 0 \/ (bucket.group = None /\ policy = None)
  PROVE  LiveKeys = {}
<1>1. bucket.group = None /\ policy = None
  BY DEF IInv, Incarnations, NoBucket
<1> QED
  BY <1>1, Constants DEF IInv, TypeOK, Attributed, Recorded

LEMMA BucketDeletedStep == ASSUME IInv, BucketDeleted PROVE IInv'
<1>1. /\ PassKept /\ UNCHANGED <<secret, stored, groups, keyGroup, seen, incs, wake, readyInc,
                                 reported, behind>>
      /\ bucket' = NoBucket /\ policy' = None /\ lost' \in {"between", "during"}
      /\ Disturb("bucket") \/ Disturb("bucket mid-pass")
      /\ lost' = "during" \/ pc' \notin OwnedSteps
  BY SidesApart DEF BucketDeleted, PassKept, apiVars, secretVars, passVars
<1>2. SamePlan /\ ~Undisturbed
  BY <1>1, DisturbPlan
<1>3. bucket' \in Cloud /\ Incarnations' /\ Adopted' /\ ~Ours'
  BY <1>1, BucketGone
<1>4. TypeOK'
  <2>1. policy' \in Groups \cup {None} /\ lost' \in {"never", "between", "during"}
    BY <1>1
  <2>2. budget' \in Budgets
    BY <1>2 DEF SamePlan
  <2>3. TypeOK /\ bucket' \in Cloud
    BY <1>3 DEF IInv
  <2>4. /\ UNCHANGED <<cr, cache, stale, pc, b, fresh, recreate, gid, made, key, drain, err>>
        /\ UNCHANGED <<secret, stored, groups, keyGroup, seen, incs, wake, readyInc, reported,
                       behind>>
    BY <1>1 DEF PassKept
  <2> QED
    BY <2>1, <2>2, <2>3, <2>4 DEF TypeOK, Budgets
<1>5. Attributed'
  BY <1>1 DEF Attributed
<1>6. Kept'
  BY <1>1, <1>2, <1>3, SamePlanKeeps DEF IInv, Kept, PassKept
<1>7. Served'
  BY <1>2, SamePlanKeeps DEF Served
<1> QED
  BY <1>1, <1>3, <1>4, <1>5, <1>6, <1>7, PassKeeps DEF IInv

\* What comes behind a pass's back is marked so.
LEMMA BehindMarked ==
  ASSUME TypeOK, ComesBehind
  PROVE  /\ behind' \in BOOLEAN /\ UNCHANGED <<readyInc, reported, lost>>
         /\ ~behind' => ~behind /\ pc \notin OwnedSteps \ {"resolveGroup"}
                       /\ pc \notin {"tagNew", "claim"}
BY DEF ComesBehind, TypeOK, RelyingSteps, OwnedSteps, ServingSteps

\* Somebody else's hand on a bucket under the name, which is not ours.
LEMMA ForeignStep ==
  ASSUME IInv, ~Ours, ComesBehind, PassKept, Disturb("foreign"),
         UNCHANGED <<secret, stored, groups, keyGroup, seen, wake>>,
         bucket' \in Cloud, bucket'.owner # "us", bucket'.inc # 0, bucket'.group = None,
         policy' \in Groups \cup {None}, incs' \in Nat, Incarnations',
         lost # "during" => bucket.group = None /\ policy = None /\ policy' = None
  PROVE  IInv'
<1>1. SamePlan
  BY DisturbPlan
<1>2. /\ behind' \in BOOLEAN /\ UNCHANGED <<readyInc, reported, lost, pc>>
      /\ ~behind' => ~behind /\ pc \notin OwnedSteps \ {"resolveGroup"}
                    /\ pc \notin {"tagNew", "claim"}
  BY BehindMarked DEF IInv, PassKept
<1>3. TypeOK'
  BY <1>1, <1>2 DEF IInv, TypeOK, PassKept, SamePlan, Budgets
<1>4. lost # "during" => pc \notin OwnedSteps
  BY DEF IInv, Adopted
<1>5. Adopted'
  BY <1>2, <1>4 DEF Adopted, Untagged, Ours
<1>6. Attributed'
  <2> SUFFICES ASSUME ~Lag, lost = "never" PROVE Recorded' /\ Resolved' /\ Released'
    BY <1>1, <1>2, SamePlanKeeps DEF Attributed
  <2>1. LiveKeys' = {}
    BY UntaggedKeyless DEF LiveKeys
  <2>2. Recorded'
    BY <2>1 DEF Recorded
  <2>3. Resolved' /\ Released'
    BY <1>2, <1>4 DEF Resolved, Released, OwnedSteps, ServingSteps
  <2> QED
    BY <2>2, <2>3
<1>7. Kept'
  BY <1>1, <1>2, SamePlanKeeps DEF IInv, Kept, PassKept, Ours
<1>8. Served'
  BY <1>1, <1>2, SamePlanKeeps DEF IInv, Served, LiveKeys, KeysOf, PassKept
<1> QED
  BY <1>3, <1>5, <1>6, <1>7, <1>8, PassKeeps DEF IInv

LEMMA ForeignCreatesStep == ASSUME IInv, ForeignCreates PROVE IInv'
<1>1. /\ PassKept /\ Disturb("foreign") /\ bucket.inc = 0 /\ ComesBehind
      /\ UNCHANGED <<secret, stored, groups, keyGroup, seen, wake>>
      /\ incs' = incs + 1 /\ policy' = None
  BY DEF ForeignCreates, PassKept, apiVars, secretVars, passVars
<1>2. /\ bucket' \in Cloud /\ bucket'.inc = incs + 1 /\ bucket'.owner # "us"
      /\ bucket'.group = None
  <2>1. PICK owner \in {"none", "other"}, data \in BOOLEAN :
          bucket' = [inc |-> incs', owner |-> owner, group |-> None, data |-> data]
    BY DEF ForeignCreates
  <2> QED
    BY <1>1, <2>1 DEF IInv, TypeOK, Cloud
<1>3. /\ incs \in Nat /\ seen.bucket.inc \in Nat /\ seen.bucket.inc <= incs
      /\ seen.bucket.inc = 0 => seen.bucket.owner # "us"
  BY DEF IInv, TypeOK, Incarnations, Cloud
<1>4. Incarnations'
  BY <1>1, <1>2, <1>3 DEF Incarnations
<1>5. bucket = NoBucket /\ bucket.group = None /\ (lost # "during" => policy = None)
  BY <1>1 DEF IInv, Incarnations, NoBucket
<1> QED
  BY <1>1, <1>2, <1>3, <1>4, <1>5, ForeignStep DEF Ours

LEMMA ForeignClaimsStep == ASSUME IInv, ForeignClaims PROVE IInv'
<1>1. /\ PassKept /\ Disturb("foreign") /\ ComesBehind
      /\ bucket.inc # 0 /\ bucket.owner = "none"
      /\ UNCHANGED <<secret, stored, policy, groups, keyGroup, seen, incs, wake>>
  BY DEF ForeignClaims, PassKept, apiVars, secretVars, passVars
<1>2. /\ bucket' \in Cloud /\ bucket'.inc = bucket.inc /\ bucket'.owner # "us"
      /\ bucket'.group = bucket.group
  <2>1. PICK owner \in {"none", "other"}, data \in {bucket.data, TRUE} :
          bucket' = [bucket EXCEPT !.owner = owner, !.data = data]
    BY DEF ForeignClaims
  <2> QED
    BY <1>1, <2>1 DEF IInv, TypeOK, Cloud
<1>3. bucket.group = None /\ (lost # "during" => policy = None)
  BY <1>1 DEF IInv, Incarnations
<1>4. lost' = lost
  BY <1>1 DEF ComesBehind
<1>5. Incarnations'
  BY <1>1, <1>2, <1>3, <1>4 DEF IInv, Incarnations
<1>6. policy' \in Groups \cup {None} /\ incs' \in Nat
  BY <1>1 DEF IInv, TypeOK
<1> QED
  BY <1>1, <1>2, <1>3, <1>5, <1>6, ForeignStep DEF Ours

LEMMA WorkloadWritesStep == ASSUME IInv, WorkloadWrites PROVE IInv'
<1>1. /\ PassKept /\ UNCHANGED <<secret, stored, policy, groups, keyGroup, seen, incs, wake,
                                 readyInc, reported, lost, budget>>
      /\ behind' \in BOOLEAN
      /\ bucket.owner = "us" => UNCHANGED behind
      /\ (bucket.owner # "us" /\ ~behind') => ~behind /\ ~(pc = "tagNew" \/ pc = "claim")
      /\ policy # None /\ bucket.inc # 0 /\ bucket' = [bucket EXCEPT !.data = ~@]
  BY BehindMarked DEF IInv, TypeOK, WorkloadWrites, CredentialWorks, PassKept, apiVars, secretVars,
                      passVars, histVars
<1>2. /\ bucket' \in Cloud /\ bucket'.inc = bucket.inc /\ bucket'.owner = bucket.owner
      /\ bucket'.group = bucket.group
  BY <1>1 DEF IInv, TypeOK, Cloud
<1>3. SamePlan
  BY <1>1, FaultPlan DEF IInv
<1>4. TypeOK'
  BY <1>1, <1>2 DEF IInv, TypeOK, PassKept
<1>5. Incarnations'
  BY <1>1, <1>2 DEF IInv, Incarnations
<1>6. Adopted'
  BY <1>1, <1>2, <1>3, SamePlanKeeps DEF IInv, Adopted, Untagged, Ours, Incarnations, PassKept
<1>7. Attributed'
  BY <1>1, <1>2, <1>3, SamePlanKeeps
     DEF IInv, Attributed, Recorded, Resolved, Released, LiveKeys, PassKept
<1>8. Kept'
  BY <1>1, <1>2, <1>3, SamePlanKeeps DEF IInv, Kept, PassKept, Ours
<1>9. Served'
  BY <1>1, <1>3, SamePlanKeeps DEF IInv, Served, LiveKeys, KeysOf, PassKept
<1> QED
  BY <1>1, <1>4, <1>5, <1>6, <1>7, <1>8, <1>9, PassKeeps DEF IInv

----------------------------------------------------------------------------
(* The writes of a provisioning pass. *)

CloudTyped ==
  /\ secret \in Keys \cup {None} /\ stored \in Keys \cup {None}
  /\ bucket \in Cloud /\ policy \in Groups \cup {None} /\ groups \in SUBSET Groups
  /\ keyGroup \in [Keys -> Groups \cup {None}]
  /\ seen \in [bucket : Cloud, policy : Groups \cup {None}, groups : SUBSET Groups]
  /\ incs \in Nat /\ reported \in Nat /\ wake \in BOOLEAN

ObjectKept == UNCHANGED <<cr, cache, stale, readyInc, lost, behind>>

LEMMA Typed ==
  ASSUME IInv, SamePlan, ObjectKept, CloudTyped', LocalsTyped', pc' \in Steps, err' \in Errors
  PROVE  TypeOK'
<1>1. /\ UNCHANGED <<cr, cache, stale, readyInc, lost, behind>> /\ budget' \in Budgets
  BY DEF ObjectKept, SamePlan
<1> QED
  BY <1>1 DEF IInv, TypeOK, CloudTyped, LocalsTyped, Budgets

LEMMA ProvisionStep ==
  ASSUME IInv, SamePlan, ObjectKept, CloudTyped', LocalsTyped', err' \in Errors,
         pc \in ProvisioningSteps, pc' \in ProvisioningSteps \cup {"fail"},
         Incarnations', Adopted', Served',
         (~Lag /\ lost = "never") => Recorded' /\ Resolved'
  PROVE  IInv'
<1>1. UNCHANGED <<cr, cache, stale, lost, behind>> /\ (Lag' <=> Lag)
  BY SamePlanKeeps DEF ObjectKept
<1>2. pc' \in Steps /\ SameSide /\ pc' \notin TeardownSteps
  BY SidesApart DEF SameSide, Steps
<1>3. TypeOK'
  BY <1>2, Typed
<1>4. Asked' /\ Released' /\ pc' \notin {"deleteSecret", "dropFinalizer"}
  BY <1>2 DEF Asked, Released, TeardownSteps
<1>5. Objects'
  BY <1>1, <1>2, ObjectsKept DEF IInv, TypeOK, Like
<1>6. Kept'
  BY <1>1, <1>4 DEF IInv, Objects, Kept
<1>7. Attributed'
  BY <1>1, <1>4 DEF Attributed
<1> QED
  BY <1>3, <1>4, <1>5, <1>6, <1>7 DEF IInv

\* A call that took effect goes on, or its answer is lost and the plan knows.
LEMMA AppliedPlan ==
  ASSUME IInv, NEW p, NEW q, NEW e \in Errors, Applied(p, q, e)
  PROVE  /\ SamePlan /\ UNCHANGED <<cache, wake, stale>> /\ err' \in Errors
         /\ pc' = p \/ (pc' = q /\ ~Undisturbed)
<1>1. CASE Goto(p)
  BY <1>1, FaultPlan DEF Goto, IInv, TypeOK
<1>2. CASE Fault /\ pc' = q /\ err' = e /\ UNCHANGED <<cache, wake, stale>>
  <2>1. ~Undisturbed
    BY <1>2 DEF Fault, Fails, Undisturbed
  <2> QED
    BY <1>2, <2>1, FaultPlan DEF IInv
<1> QED
  BY <1>1, <1>2 DEF Applied

\* Waiting for the listing makes no read of the tags a lie.
LEMMA VisibleSeen ==
  ASSUME IInv, WaitBucketVisible
  PROVE  /\ seen' \in [bucket : Cloud, policy : Groups \cup {None}, groups : SUBSET Groups]
         /\ seen'.bucket.inc <= incs
         /\ seen'.bucket.inc = 0 => seen'.bucket.owner # "us"
         /\ (seen'.bucket.inc = bucket.inc /\ seen'.bucket.owner = "us") => bucket.owner = "us"
<1>1. /\ SeenBucket \in Cloud /\ SeenBucket.inc = bucket.inc
      /\ SeenBucket.owner = "us" => bucket.owner = "us"
      /\ bucket.inc = 0 => SeenBucket.owner # "us"
  <2>1. CASE seen.bucket.inc = bucket.inc
    BY <2>1 DEF SeenBucket, IInv, TypeOK, Incarnations
  <2>2. CASE seen.bucket.inc # bucket.inc
    BY <2>2 DEF SeenBucket, NoBucket, IInv, TypeOK, Cloud
  <2> QED
    BY <2>1, <2>2
<1>2. CASE Lag
  <2>1. seen' = [seen EXCEPT !.bucket = SeenBucket]
    BY <1>2 DEF WaitBucketVisible
  <2>2. seen'.bucket = SeenBucket /\ seen' \in [bucket : Cloud, policy : Groups \cup {None}, groups : SUBSET Groups]
    BY <1>1, <2>1 DEF IInv, TypeOK
  <2> QED
    BY <1>1, <2>2 DEF IInv, Incarnations
<1>3. CASE ~Lag
  BY <1>3 DEF WaitBucketVisible, IInv, TypeOK, Incarnations
<1> QED
  BY <1>2, <1>3

LEMMA CreateBucketStep == ASSUME IInv, CreateBucket PROVE IInv'
<1>1. /\ pc = "createBucket" /\ ObjectKept
      /\ UNCHANGED <<secret, stored, groups, keyGroup, reported, b, fresh, recreate, gid, made,
                     key, drain, wake>>
  BY DEF CreateBucket, Goto, Applied, ObjectKept, apiVars, secretVars, histVars
<1>2. LocalsTyped' /\ pc \in ProvisioningSteps
  BY <1>1 DEF IInv, TypeOK, LocalsTyped, ProvisioningSteps
<1>3. CASE WaitBucketVisible /\ Goto("adopt") /\ UNCHANGED <<bucket, policy, incs>>
  <2>1. SamePlan /\ pc' = "adopt" /\ err' \in Errors
    BY <1>3, FaultPlan DEF Goto, IInv, TypeOK
  <2>2. CloudTyped'
    BY <1>1, <1>3, VisibleSeen DEF IInv, TypeOK, CloudTyped, ObjectKept
  <2>3. Incarnations'
    BY <1>1, <1>3, VisibleSeen DEF IInv, Incarnations, ObjectKept
  <2>4. Adopted' /\ Resolved' /\ pc' \in ProvisioningSteps
    BY <2>1 DEF Adopted, Untagged, Ours, Resolved, OwnedSteps, ServingSteps, ProvisioningSteps
  <2>5. Served'
    BY <1>1, <2>1, SamePlanKeeps DEF IInv, Served, LiveKeys, ObjectKept
  <2>6. Recorded => Recorded'
    BY <1>1, <1>3 DEF Recorded, LiveKeys
  <2> QED
    BY <1>1, <1>2, <2>1, <2>2, <2>3, <2>4, <2>5, <2>6, ProvisionStep DEF IInv, Attributed
<1>4. CASE /\ bucket.inc = 0 /\ incs' = incs + 1 /\ bucket' = [NoBucket EXCEPT !.inc = incs']
           /\ policy' = None /\ UNCHANGED seen /\ Applied("tagNew", "fail", "unreachable")
  <2>1. SamePlan /\ pc' \in {"tagNew", "fail"} /\ err' \in Errors
    BY <1>4, AppliedPlan DEF Errors
  <2>2. /\ bucket' \in Cloud /\ bucket'.inc = incs + 1 /\ bucket'.owner = "none"
        /\ bucket'.group = None /\ ~bucket'.data
    <3>1. incs + 1 \in Nat
      BY DEF IInv, TypeOK
    <3>2. bucket' = [inc |-> incs + 1, owner |-> "none", group |-> None, data |-> FALSE]
      BY <1>4 DEF NoBucket
    <3> QED
      BY <3>1, <3>2 DEF Cloud
  <2>3. CloudTyped'
    BY <1>1, <1>4, <2>2 DEF IInv, TypeOK, CloudTyped
  <2>4. Incarnations'
    <3>1. /\ incs \in Nat /\ seen.bucket.inc \in Nat /\ seen.bucket.inc <= incs
          /\ seen.bucket.inc = 0 => seen.bucket.owner # "us"
      BY DEF IInv, TypeOK, Incarnations, Cloud
    <3> QED
      BY <1>4, <2>2, <3>1 DEF Incarnations
  <2>5. Adopted' /\ Resolved' /\ pc' \in ProvisioningSteps \cup {"fail"}
    BY <1>4, <2>1, <2>2 DEF Adopted, Untagged, Ours, Resolved, OwnedSteps, ServingSteps, ProvisioningSteps
  <2>6. Served'
    BY <1>1, <2>1, SamePlanKeeps DEF IInv, Served, LiveKeys, ObjectKept
  <2>7. (~Lag /\ lost = "never") => Recorded'
    <3>1. (~Lag /\ lost = "never") => LiveKeys' = {}
      BY <1>1, <1>4, UntaggedKeyless DEF LiveKeys
    <3> QED
      BY <2>2, <3>1 DEF Recorded
  <2> QED
    BY <1>1, <1>2, <2>1, <2>3, <2>4, <2>5, <2>6, <2>7, ProvisionStep
<1> QED
  BY <1>3, <1>4 DEF CreateBucket

\* The ownership tags replace whatever was there, on a bucket nobody tagged.
LEMMA TaggedStep ==
  ASSUME IInv, ObjectKept, bucket.inc # 0, bucket' = [bucket EXCEPT !.owner = "us", !.group = None],
         pc \in {"tagNew", "claim"}, SamePlan, pc' \in {"resolveGroup", "fail"}, err' \in Errors,
         UNCHANGED <<secret, stored, policy, groups, keyGroup, incs, wake, b, recreate, gid, made,
                     key, drain>>,
         fresh' \in BOOLEAN, reported' \in Nat, UNCHANGED seen \/ WaitBucketVisible
  PROVE  IInv'
<1>1. /\ bucket' \in Cloud /\ bucket'.inc = bucket.inc /\ bucket'.owner = "us"
      /\ bucket'.group = None
  BY DEF IInv, TypeOK, Cloud
<1>2. /\ seen' \in [bucket : Cloud, policy : Groups \cup {None}, groups : SUBSET Groups]
      /\ seen'.bucket.inc <= incs
      /\ seen'.bucket.inc = 0 => seen'.bucket.owner # "us"
  BY VisibleSeen DEF IInv, TypeOK, Incarnations
<1>3. CloudTyped' /\ LocalsTyped'
  BY <1>1, <1>2 DEF IInv, TypeOK, CloudTyped, LocalsTyped
<1>4. Incarnations'
  BY <1>1, <1>2 DEF IInv, Incarnations
<1>5. /\ Adopted' /\ Resolved'
      /\ pc \in ProvisioningSteps /\ pc' \in ProvisioningSteps \cup {"fail"}
  BY <1>1 DEF Adopted, Untagged, Ours, Resolved, OwnedSteps, ServingSteps, ProvisioningSteps
<1>6. Served'
  BY SamePlanKeeps DEF IInv, Served, LiveKeys, ObjectKept
<1>7. (~Lag /\ lost = "never") => Recorded'
  <2>1. (~Lag /\ lost = "never") => LiveKeys' = {}
    BY UntaggedKeyless DEF IInv, Adopted, Untagged, Ours, LiveKeys
  <2> QED
    BY <1>1, <2>1 DEF Recorded
<1> QED
  BY <1>3, <1>4, <1>5, <1>6, <1>7, ProvisionStep

LEMMA TagNewStep == ASSUME IInv, TagNew PROVE IInv'
<1>1. /\ pc = "tagNew" /\ bucket.inc # 0 /\ WaitBucketVisible
      /\ bucket' = [bucket EXCEPT !.owner = "us", !.group = None]
      /\ Applied("resolveGroup", "fail", "unreachable")
      /\ UNCHANGED <<cr, secret, stored, policy, groups, keyGroup, incs, readyInc, lost, behind, b,
                     recreate, gid, made, key, drain>>
      /\ fresh' \in BOOLEAN /\ reported' \in {bucket.inc, reported}
  BY DEF TagNew, apiVars, secretVars
<1>2. /\ SamePlan /\ pc' \in {"resolveGroup", "fail"} /\ err' \in Errors
      /\ UNCHANGED <<cache, wake, stale>>
  BY <1>1, AppliedPlan DEF Errors
<1>3. ObjectKept /\ reported' \in Nat
  BY <1>1, <1>2 DEF ObjectKept, IInv, TypeOK, Cloud
<1> QED
  BY <1>1, <1>2, <1>3, TaggedStep

LEMMA ClaimStep == ASSUME IInv, Claim PROVE IInv'
<1>1. /\ pc = "claim" /\ bucket.inc # 0
      /\ bucket' = [bucket EXCEPT !.owner = "us", !.group = None]
      /\ Applied("resolveGroup", "fail", "unreachable")
      /\ UNCHANGED <<cr, secret, stored, policy, groups, keyGroup, seen, incs, readyInc, reported,
                     lost, behind, b, fresh, recreate, gid, made, key, drain>>
  BY DEF Claim, apiVars, secretVars, histVars
<1>2. /\ SamePlan /\ pc' \in {"resolveGroup", "fail"} /\ err' \in Errors
      /\ UNCHANGED <<cache, wake, stale>>
  BY <1>1, AppliedPlan DEF Errors
<1>3. ObjectKept /\ reported' \in Nat /\ fresh' \in BOOLEAN
  BY <1>1, <1>2 DEF ObjectKept, IInv, TypeOK
<1> QED
  BY <1>1, <1>2, <1>3, TaggedStep

LEMMA CreateGroupStep == ASSUME IInv, CreateGroup PROVE IInv'
<1>1. /\ pc = "createGroup"
      /\ UNCHANGED <<cr, secret, stored, bucket, policy, keyGroup, seen, incs, readyInc, reported,
                     lost, behind, b, fresh, recreate, key, drain>>
  BY DEF CreateGroup, apiVars, secretVars, histVars
<1>2. PICK g \in Groups :
        /\ g \notin groups /\ g # bucket.group /\ g # policy /\ groups' = groups \cup {g}
        /\ Applied("stamp", "fail", "unreachable")
        /\ gid' = IF pc' = "stamp" THEN g ELSE gid
        /\ made' = (pc' = "stamp")
  BY DEF CreateGroup, FreshGroup
<1>3. /\ SamePlan /\ pc' \in {"stamp", "fail"} /\ err' \in Errors
      /\ UNCHANGED <<cache, wake, stale>>
  BY <1>2, AppliedPlan DEF Errors
<1>4. /\ UNCHANGED LiveKeys /\ ObjectKept /\ CloudTyped' /\ LocalsTyped'
  BY <1>1, <1>2, <1>3 DEF LiveKeys, ObjectKept, IInv, TypeOK, CloudTyped, LocalsTyped
<1>5. Incarnations'
  BY <1>1 DEF IInv, Incarnations
<1>6. Adopted'
  BY <1>1, <1>3 DEF IInv, Adopted, Untagged, Ours, OwnedSteps
<1>7. pc \in ProvisioningSteps /\ pc' \in ProvisioningSteps \cup {"fail"}
  BY <1>1, <1>3 DEF ProvisioningSteps
<1>8. Served'
  BY <1>1, <1>3, <1>4, SamePlanKeeps DEF IInv, Served
<1>9. (~Lag /\ lost = "never") => Recorded' /\ Resolved'
  <2> SUFFICES ASSUME ~Lag, lost = "never" PROVE Recorded' /\ Resolved'
    OBVIOUS
  <2>1. Recorded /\ bucket.group \notin groups /\ policy \notin groups
    BY <1>1 DEF IInv, Attributed, Resolved
  <2>2. LiveKeys = {}
    BY <2>1 DEF Recorded
  <2>3. Recorded'
    BY <1>1, <1>2, <1>4, <2>1, <2>2 DEF Recorded
  <2>4. Resolved'
    BY <1>1, <1>2, <1>3, <1>4, <2>1, <2>2, Constants DEF Resolved, ServingSteps
  <2> QED
    BY <2>3, <2>4
<1> QED
  BY <1>3, <1>4, <1>5, <1>6, <1>7, <1>8, <1>9, ProvisionStep

LEMMA StampStep == ASSUME IInv, Stamp PROVE IInv'
<1>1. /\ pc = "stamp" /\ bucket.inc # 0 /\ bucket' = [bucket EXCEPT !.owner = "us", !.group = gid]
      /\ Applied("ensurePolicy", StampError, "unreachable")
      /\ b' \in {b, [b EXCEPT !.status.group = gid]}
      /\ UNCHANGED <<cr, secret, stored, policy, groups, keyGroup, seen, incs, readyInc, reported,
                     lost, behind, fresh, recreate, gid, made, key, drain>>
  BY DEF Stamp, apiVars, secretVars, histVars
<1>2. /\ SamePlan /\ pc' \in {"ensurePolicy", StampError} /\ err' \in Errors
      /\ UNCHANGED <<cache, wake, stale>>
  BY <1>1, AppliedPlan DEF Errors
<1>3. pc' \in {"ensurePolicy", "fail"} \/ (pc' = "rollbackGroup" /\ made)
  BY <1>2 DEF StampError
<1>4. b' \in Resource
  BY <1>1, GroupPublished DEF IInv, TypeOK, Like
<1>5. /\ bucket' \in Cloud /\ bucket'.inc = bucket.inc /\ bucket'.owner = "us" /\ bucket'.group = gid
  BY <1>1 DEF IInv, TypeOK, Cloud
<1>6. /\ UNCHANGED LiveKeys /\ ObjectKept /\ CloudTyped' /\ LocalsTyped'
  BY <1>1, <1>2, <1>4, <1>5 DEF LiveKeys, ObjectKept, IInv, TypeOK, CloudTyped, LocalsTyped
<1>7. Incarnations'
  BY <1>1, <1>5 DEF IInv, Incarnations
<1>8. Adopted'
  BY <1>1, <1>3, <1>5 DEF Adopted, Untagged, Ours
<1>9. pc \in ProvisioningSteps /\ pc' \in ProvisioningSteps \cup {"fail"}
  BY <1>1, <1>3 DEF ProvisioningSteps
<1>10. Served'
  BY <1>1, <1>2, <1>3, <1>6, SamePlanKeeps DEF IInv, Served
<1>11. (~Lag /\ lost = "never") => Recorded' /\ Resolved'
  <2> SUFFICES ASSUME ~Lag, lost = "never" PROVE Recorded' /\ Resolved'
    OBVIOUS
  <2>1. /\ Recorded /\ bucket.group \notin groups /\ gid # None
        /\ made => LiveKeys = {} /\ policy \notin groups
        /\ ~made => gid = policy
    BY <1>1 DEF IInv, Attributed, Resolved
  <2>2. Recorded'
    <3>1. \A k \in LiveKeys : keyGroup[k] \in groups /\ keyGroup[k] = gid
      BY <2>1 DEF Recorded
    <3>2. policy \in groups => policy = gid
      BY <2>1
    <3> QED
      BY <1>1, <1>5, <1>6, <3>1, <3>2 DEF Recorded
  <2>3. Resolved'
    BY <1>1, <1>3, <1>5, <1>6, <2>1 DEF Resolved, ServingSteps
  <2> QED
    BY <2>2, <2>3
<1> QED
  BY <1>2, <1>6, <1>7, <1>8, <1>9, <1>10, <1>11, ProvisionStep

LEMMA RollbackGroupStep == ASSUME IInv, RollbackGroup PROVE IInv'
<1>1. /\ pc = "rollbackGroup" /\ pc' = "fail" /\ groups' = groups \ {gid}
      /\ UNCHANGED <<cr, secret, stored, bucket, policy, keyGroup, seen, incs, readyInc, reported,
                     lost, behind, b, fresh, recreate, gid, made, key, drain, err, cache, wake, stale, budget>>
  BY DEF RollbackGroup, Goto, apiVars, secretVars, histVars, passVars
<1>2. SamePlan /\ err' \in Errors
  BY <1>1, FaultPlan DEF IInv, TypeOK
<1>3. /\ UNCHANGED LiveKeys /\ ObjectKept /\ CloudTyped' /\ LocalsTyped'
  BY <1>1 DEF LiveKeys, ObjectKept, IInv, TypeOK, CloudTyped, LocalsTyped
<1>4. Incarnations'
  BY <1>1 DEF IInv, Incarnations
<1>5. Adopted' /\ Resolved' /\ pc \in ProvisioningSteps
  BY <1>1, SidesApart DEF Adopted, Untagged, Ours, Resolved, ServingSteps, ProvisioningSteps
<1>6. Served'
  BY <1>1, <1>2, <1>3, SamePlanKeeps DEF IInv, Served
<1>7. (~Lag /\ lost = "never") => Recorded'
  BY <1>1, <1>3 DEF IInv, Attributed, Recorded, Resolved
<1> QED
  BY <1>1, <1>2, <1>3, <1>4, <1>5, <1>6, <1>7, ProvisionStep

LEMMA EnsurePolicyStep == ASSUME IInv, EnsurePolicy PROVE IInv'
<1>1. /\ pc = "ensurePolicy" /\ bucket.inc # 0
      /\ UNCHANGED <<cr, secret, stored, bucket, groups, keyGroup, seen, incs, readyInc, reported,
                     lost, behind, b, fresh, recreate, gid, made, key, drain>>
  BY DEF EnsurePolicy, apiVars, secretVars, histVars
<1>2. PICK doc \in PolicyReads :
        \/ doc = gid /\ Goto("decideKey") /\ UNCHANGED policy
        \/ doc # gid /\ policy' = gid /\ Applied("decideKey", "fail", "unreachable")
        \/ Fault /\ policy' = gid /\ pc' = "decideKey" /\ UNCHANGED <<cache, wake, stale, err>>
  BY DEF EnsurePolicy
<1>3. /\ SamePlan /\ pc' \in {"decideKey", "fail"} /\ err' \in Errors
      /\ UNCHANGED <<cache, wake, stale>>
  <2>1. CASE Applied("decideKey", "fail", "unreachable")
    BY <2>1, AppliedPlan DEF Errors
  <2>2. CASE Fault /\ pc' = "decideKey" /\ UNCHANGED <<cache, wake, stale, err>>
    BY <2>2, FaultPlan DEF IInv, TypeOK
  <2> QED
    BY <1>2, <2>1, <2>2 DEF Applied
<1>4. policy' \in {policy, gid} /\ (~Lag => policy' = gid)
  BY <1>2 DEF PolicyReads
<1>5. /\ UNCHANGED LiveKeys /\ ObjectKept /\ CloudTyped' /\ LocalsTyped'
  BY <1>1, <1>3, <1>4 DEF LiveKeys, ObjectKept, IInv, TypeOK, CloudTyped, LocalsTyped
<1>6. (lost # "during" \/ ~behind) => bucket.owner = "us"
  BY <1>1 DEF IInv, Adopted, Ours, OwnedSteps
<1>7. Incarnations' /\ Adopted'
  BY <1>1, <1>3, <1>6, SidesApart DEF IInv, Incarnations, Adopted, Untagged, Ours
<1>8. pc \in ProvisioningSteps /\ pc' \in ProvisioningSteps \cup {"fail"}
  BY <1>1, <1>3 DEF ProvisioningSteps, ServingSteps
<1>9. Served'
  BY <1>1, <1>3, <1>5, SamePlanKeeps DEF IInv, Served
<1>10. (~Lag /\ lost = "never") => Recorded' /\ Resolved'
  <2> SUFFICES ASSUME ~Lag, lost = "never" PROVE Recorded' /\ Resolved'
    OBVIOUS
  <2>1. Recorded /\ bucket.group = gid /\ gid # None
    BY <1>1 DEF IInv, Attributed, Resolved
  <2>2. Recorded'
    BY <1>1, <1>4, <1>5, <2>1 DEF Recorded
  <2>3. Resolved'
    BY <1>1, <1>3, <1>4, <2>1 DEF Resolved
  <2> QED
    BY <2>2, <2>3
<1> QED
  BY <1>3, <1>5, <1>7, <1>8, <1>9, <1>10, ProvisionStep

LEMMA TeardownStep ==
  ASSUME IInv, SamePlan, ObjectKept, CloudTyped', LocalsTyped', err' \in Errors, UNCHANGED b,
         pc \in TeardownSteps, pc' \in TeardownSteps \cup {"fail"}, pc' # "wipe",
         Incarnations', Adopted', Served', Kept',
         (~Lag /\ lost = "never") => Recorded' /\ Released'
  PROVE  IInv'
<1>1. UNCHANGED <<cr, cache, stale, lost, behind>> /\ (Lag' <=> Lag)
  BY SamePlanKeeps DEF ObjectKept
<1>2. pc' \in Steps /\ SameSide /\ pc' \notin ProvisioningSteps
  BY SidesApart DEF SameSide, Steps
<1>3. TypeOK'
  BY <1>2, Typed
<1>4. Asked'
  BY DEF IInv, Asked
<1>5. Resolved'
  BY <1>2 DEF Resolved, ProvisioningSteps
<1>6. Objects'
  BY <1>1, <1>2, ObjectsKept DEF IInv, TypeOK, Like
<1>7. Attributed'
  BY <1>1, <1>5 DEF Attributed
<1> QED
  BY <1>3, <1>4, <1>6, <1>7 DEF IInv

LEMMA ClearKeysStep == ASSUME IInv, ClearKeys PROVE IInv'
<1>1. /\ pc \in {"clearKeys", "drainKeys"}
      /\ UNCHANGED <<cr, secret, stored, bucket, policy, groups, seen, incs, readyInc, reported,
                     lost, behind, b, fresh, recreate, gid, made, key>>
  BY DEF ClearKeys, apiVars, secretVars, histVars
<1>2. /\ SamePlan /\ err' \in Errors /\ UNCHANGED <<cache, wake, stale>>
      /\ keyGroup' \in [Keys -> Groups \cup {None}] /\ drain' \in SUBSET Keys
      /\ LiveKeys' \subseteq LiveKeys /\ \A k \in LiveKeys' : keyGroup'[k] = keyGroup[k]
      /\ LiveKeys \subseteq drain => LiveKeys' \subseteq drain'
      /\ \/ pc' \in {pc, "fail"}
         \/ drain = {} /\ pc = "clearKeys" /\ pc' = "createKey"
         \/ drain = {} /\ pc = "drainKeys" /\ pc' = "deleteGroup"
  <2>1. CASE /\ drain = {} /\ Goto(IF pc = "clearKeys" THEN "createKey" ELSE "deleteGroup")
             /\ UNCHANGED <<keyGroup, drain>>
    BY <1>1, <2>1, FaultPlan DEF Goto, IInv, TypeOK, LiveKeys
  <2>2. CASE \E k \in drain :
          /\ keyGroup' = [keyGroup EXCEPT ![k] = None]
          /\ drain' = drain \ {k}
          /\ Applied(pc, "fail", "unreachable")
    <3>1. PICK k \in drain :
            /\ keyGroup' = [keyGroup EXCEPT ![k] = None]
            /\ drain' = drain \ {k}
            /\ Applied(pc, "fail", "unreachable")
      BY <2>2
    <3>2. /\ SamePlan /\ err' \in Errors /\ UNCHANGED <<cache, wake, stale>> /\ pc' \in {pc, "fail"}
      BY <3>1, AppliedPlan DEF Errors
    <3>3. k \in Keys /\ keyGroup' \in [Keys -> Groups \cup {None}] /\ drain' \in SUBSET Keys
      BY <3>1 DEF IInv, TypeOK
    <3>4. LiveKeys' = LiveKeys \ {k} /\ \A j \in LiveKeys' : keyGroup'[j] = keyGroup[j]
      BY <3>1, <3>3 DEF IInv, TypeOK, LiveKeys
    <3> QED
      BY <3>1, <3>2, <3>3, <3>4
  <2> QED
    BY <2>1, <2>2 DEF ClearKeys
<1>3. ObjectKept /\ CloudTyped' /\ LocalsTyped'
  BY <1>1, <1>2 DEF ObjectKept, IInv, TypeOK, CloudTyped, LocalsTyped
<1>4. Incarnations'
  BY <1>1 DEF IInv, Incarnations
<1>5. Adopted'
  BY <1>1, <1>2 DEF IInv, Adopted, Untagged, Ours, OwnedSteps, ServingSteps
<1>6. Served'
  BY <1>1, <1>2, SamePlanKeeps DEF IInv, Served
<1>7. (~Lag /\ lost = "never") => Recorded' /\ Resolved' /\ Released'
  <2>1. Recorded => Recorded'
    BY <1>1, <1>2 DEF Recorded
  <2>2. Resolved => Resolved'
    BY <1>1, <1>2 DEF Resolved, ServingSteps
  <2>3. Released => Released'
    BY <1>1, <1>2 DEF Released
  <2> QED
    BY <2>1, <2>2, <2>3 DEF IInv, Attributed
<1>8. CASE pc = "clearKeys"
  <2>1. pc \in ProvisioningSteps /\ pc' \in ProvisioningSteps \cup {"fail"}
    BY <1>2, <1>8 DEF ProvisioningSteps, ServingSteps
  <2> QED
    BY <1>2, <1>3, <1>4, <1>5, <1>6, <1>7, <2>1, ProvisionStep
<1>9. CASE pc = "drainKeys"
  <2>1. pc \in TeardownSteps /\ pc' \in TeardownSteps \cup {"fail"} /\ pc' # "wipe"
    BY <1>2, <1>9 DEF TeardownSteps
  <2>2. Kept'
    BY <1>1, <1>2, <1>9, SamePlanKeeps DEF IInv, Kept, Ours
  <2> QED
    BY <1>1, <1>2, <1>3, <1>4, <1>5, <1>6, <1>7, <2>1, <2>2, TeardownStep
<1> QED
  BY <1>1, <1>8, <1>9

LEMMA CreateKeyStep == ASSUME IInv, CreateKey PROVE IInv'
<1>1. /\ pc = "createKey" /\ gid \in groups
      /\ UNCHANGED <<cr, secret, stored, bucket, policy, groups, seen, incs, readyInc, reported,
                     lost, behind, b, fresh, recreate, gid, made, drain>>
  BY DEF CreateKey, apiVars, secretVars, histVars
<1>2. PICK k \in Keys :
        /\ keyGroup' = [keyGroup EXCEPT ![k] = gid]
        /\ Applied("writeSecret", "fail", "destroyed")
        /\ key' = IF pc' = "writeSecret" THEN k ELSE key
  BY DEF CreateKey, FreshKey
<1>3. /\ SamePlan /\ err' \in Errors /\ UNCHANGED <<cache, wake, stale>>
      /\ pc' = "writeSecret" \/ (pc' = "fail" /\ ~Undisturbed)
  BY <1>2, AppliedPlan DEF Errors
<1>4. /\ keyGroup' \in [Keys -> Groups \cup {None}] /\ keyGroup'[k] = gid
      /\ LiveKeys' = LiveKeys \cup {k} /\ \A j \in LiveKeys' : j # k => keyGroup'[j] = keyGroup[j]
  BY <1>1, <1>2, Constants DEF IInv, TypeOK, LiveKeys
<1>5. ObjectKept /\ CloudTyped' /\ LocalsTyped'
  BY <1>1, <1>2, <1>3, <1>4 DEF ObjectKept, IInv, TypeOK, CloudTyped, LocalsTyped
<1>6. Incarnations'
  BY <1>1 DEF IInv, Incarnations
<1>7. Adopted'
  BY <1>1, <1>3 DEF IInv, Adopted, Untagged, Ours, OwnedSteps, ServingSteps
<1>8. pc \in ProvisioningSteps /\ pc' \in ProvisioningSteps \cup {"fail"}
  BY <1>1, <1>3 DEF ProvisioningSteps, ServingSteps
<1>9. Served'
  <2> SUFFICES ASSUME Undisturbed PROVE Served'
    BY <1>3, SamePlanKeeps DEF Served
  <2>1. pc' = "writeSecret" /\ key' = k /\ LiveKeys = {} /\ lost = "never"
    BY <1>1, <1>2, <1>3 DEF IInv, Served
  <2> QED
    BY <1>1, <1>4, <2>1 DEF Served, KeysOf
<1>10. (~Lag /\ lost = "never") => Recorded' /\ Resolved'
  <2> SUFFICES ASSUME ~Lag, lost = "never" PROVE Recorded' /\ Resolved'
    OBVIOUS
  <2>1. Recorded /\ bucket.group = gid /\ policy = gid
    BY <1>1 DEF IInv, Attributed, Resolved, ServingSteps
  <2>2. Recorded'
    BY <1>1, <1>4, <2>1 DEF Recorded
  <2>3. Resolved'
    BY <1>1, <1>3, <2>1 DEF Resolved
  <2> QED
    BY <2>2, <2>3
<1> QED
  BY <1>3, <1>5, <1>6, <1>7, <1>8, <1>9, <1>10, ProvisionStep

LEMMA WriteSecretStep == ASSUME IInv, WriteSecret PROVE IInv'
<1>1. /\ pc = "writeSecret"
      /\ UNCHANGED <<cr, bucket, policy, groups, keyGroup, seen, incs, cache, stale, readyInc,
                     reported, lost, behind, b, fresh, recreate, gid, made, key, drain>>
  BY DEF WriteSecret, provVars, histVars
<1>2. CASE pc' = "rollbackKey" /\ err' = "destroyed" /\ UNCHANGED <<secret, stored, wake, budget>>
  <2>1. OutsideKept
    BY <1>1, <1>2 DEF OutsideKept, IInv, TypeOK, Like
  <2> QED
    BY <1>1, <1>2, <2>1, FaultPlan, FailStep DEF IInv, Errors
<1>3. CASE /\ secret' = key /\ stored' \in {stored, key} /\ wake' = TRUE
           /\ \/ pc' = "markReady" /\ UNCHANGED <<err, budget>>
              \/ Fault /\ pc' = "rollbackKey" /\ err' = "destroyed"
  <2>1. /\ SamePlan /\ err' \in Errors /\ pc' \in {"markReady", "rollbackKey"}
    BY <1>3, FaultPlan DEF IInv, TypeOK, Errors
  <2>2. pc' = "rollbackKey" => ~Undisturbed
    BY <1>3 DEF Fault, Fails, Undisturbed
  <2>3. UNCHANGED LiveKeys /\ ObjectKept /\ CloudTyped' /\ LocalsTyped'
    BY <1>1, <1>3 DEF LiveKeys, ObjectKept, IInv, TypeOK, CloudTyped, LocalsTyped
  <2>4. Incarnations'
    BY <1>1 DEF IInv, Incarnations
  <2>5. Adopted'
    BY <1>1, <2>1 DEF IInv, Adopted, Untagged, Ours, OwnedSteps, ServingSteps
  <2>6. pc \in ProvisioningSteps /\ pc' \in ProvisioningSteps \cup {"fail"}
    BY <1>1, <2>1 DEF ProvisioningSteps, ServingSteps
  <2>7. Served'
    <3> SUFFICES ASSUME Undisturbed PROVE Served'
      BY <2>1, SamePlanKeeps DEF Served
    <3>1. pc' = "markReady"
      BY <2>1, <2>2
    <3> QED
      BY <1>1, <1>3, <2>3, <3>1 DEF IInv, Served, KeysOf
  <2>8. (~Lag /\ lost = "never") => Recorded' /\ Resolved'
    BY <1>1, <2>1, <2>3 DEF IInv, Attributed, Recorded, Resolved, ServingSteps
  <2> QED
    BY <2>1, <2>3, <2>4, <2>5, <2>6, <2>7, <2>8, ProvisionStep
<1> QED
  BY <1>2, <1>3 DEF WriteSecret, SecretWritten, secretVars

LEMMA RollbackKeyStep == ASSUME IInv, RollbackKey PROVE IInv'
<1>1. /\ pc = "rollbackKey" /\ pc' = "fail" /\ keyGroup' = [keyGroup EXCEPT ![key] = None]
      /\ UNCHANGED <<cr, secret, stored, bucket, policy, groups, seen, incs, readyInc, reported,
                     lost, behind, b, fresh, recreate, gid, made, key, drain, err, cache, wake, stale, budget>>
  BY DEF RollbackKey, Goto, apiVars, secretVars, histVars, passVars
<1>2. SamePlan /\ err' \in Errors
  BY <1>1, FaultPlan DEF IInv, TypeOK
<1>3. /\ keyGroup' \in [Keys -> Groups \cup {None}]
      /\ LiveKeys' = LiveKeys \ {key} /\ \A k \in LiveKeys' : keyGroup'[k] = keyGroup[k]
  BY <1>1 DEF IInv, TypeOK, LiveKeys
<1>4. ObjectKept /\ CloudTyped' /\ LocalsTyped'
  BY <1>1, <1>3 DEF ObjectKept, IInv, TypeOK, CloudTyped, LocalsTyped
<1>5. Incarnations'
  BY <1>1 DEF IInv, Incarnations
<1>6. Adopted' /\ Resolved' /\ pc \in ProvisioningSteps
  BY <1>1, SidesApart DEF Adopted, Untagged, Ours, Resolved, ServingSteps, ProvisioningSteps
<1>7. Served'
  BY <1>1, <1>2, <1>3, SamePlanKeeps DEF IInv, Served
<1>8. (~Lag /\ lost = "never") => Recorded'
  BY <1>1, <1>3 DEF IInv, Attributed, Recorded
<1> QED
  BY <1>1, <1>2, <1>4, <1>5, <1>6, <1>7, <1>8, ProvisionStep

----------------------------------------------------------------------------
(* The writes of a teardown. *)

LEMMA WipeBucketStep == ASSUME IInv, WipeBucket PROVE IInv'
<1>1. /\ pc = "wipe" /\ bucket' = [bucket EXCEPT !.data = FALSE]
      /\ Applied("releaseGroup", "fail", "unreachable")
      /\ UNCHANGED <<cr, secret, stored, policy, groups, keyGroup, seen, incs, readyInc, reported,
                     lost, behind, b, fresh, recreate, gid, made, key, drain>>
  BY DEF WipeBucket, apiVars, secretVars, histVars
<1>2. /\ SamePlan /\ pc' \in {"releaseGroup", "fail"} /\ err' \in Errors
      /\ UNCHANGED <<cache, wake, stale>>
  BY <1>1, AppliedPlan DEF Errors
<1>3. /\ bucket' \in Cloud /\ bucket'.inc = bucket.inc /\ bucket'.owner = bucket.owner
      /\ bucket'.group = bucket.group
  BY <1>1 DEF IInv, TypeOK, Cloud
<1>4. UNCHANGED LiveKeys /\ ObjectKept /\ CloudTyped' /\ LocalsTyped'
  BY <1>1, <1>2, <1>3 DEF LiveKeys, ObjectKept, IInv, TypeOK, CloudTyped, LocalsTyped
<1>5. Incarnations'
  <2>1. bucket.inc # 0
    BY DEF WipeBucket
  <2> QED
    BY <1>1, <1>3, <2>1 DEF IInv, Incarnations
<1>6. Adopted' /\ Released'
  BY <1>2 DEF Adopted, Untagged, Ours, Released, OwnedSteps, ServingSteps
<1>7. pc \in TeardownSteps /\ pc' \in TeardownSteps \cup {"fail"} /\ pc' # "wipe"
  BY <1>1, <1>2 DEF TeardownSteps
<1>8. Served'
  BY <1>1, <1>2, <1>4, SamePlanKeeps DEF IInv, Served
<1>9. Kept'
  BY <1>1, <1>2, <1>3, SamePlanKeeps DEF IInv, Kept, Ours
<1>10. (~Lag /\ lost = "never") => Recorded'
  BY <1>1, <1>3, <1>4 DEF IInv, Attributed, Recorded
<1> QED
  BY <1>1, <1>2, <1>4, <1>5, <1>6, <1>7, <1>8, <1>9, <1>10, TeardownStep

LEMMA ReleaseStampStep == ASSUME IInv, ReleaseStamp PROVE IInv'
<1>1. /\ pc = "releaseStamp" /\ bucket.inc # 0
      /\ bucket' = [bucket EXCEPT !.owner = "us", !.group = gid] /\ drain' = KeysOf(gid)
      /\ Applied("drainKeys", "fail", "unreachable")
      /\ UNCHANGED <<cr, secret, stored, policy, groups, keyGroup, seen, incs, readyInc, reported,
                     lost, behind, b, fresh, recreate, gid, made, key>>
  BY DEF ReleaseStamp, apiVars, secretVars, histVars
<1>2. /\ SamePlan /\ pc' \in {"drainKeys", "fail"} /\ err' \in Errors
      /\ UNCHANGED <<cache, wake, stale>>
  BY <1>1, AppliedPlan DEF Errors
<1>3. /\ bucket' \in Cloud /\ bucket'.inc = bucket.inc /\ bucket'.owner = "us"
      /\ bucket'.group = gid /\ drain' \in SUBSET Keys
  BY <1>1 DEF IInv, TypeOK, Cloud, KeysOf
<1>4. UNCHANGED LiveKeys /\ ObjectKept /\ CloudTyped' /\ LocalsTyped'
  BY <1>1, <1>2, <1>3 DEF LiveKeys, ObjectKept, IInv, TypeOK, CloudTyped, LocalsTyped
<1>5. Incarnations' /\ Adopted'
  BY <1>1, <1>2, <1>3 DEF IInv, Incarnations, Adopted, Untagged, Ours
<1>6. pc \in TeardownSteps /\ pc' \in TeardownSteps \cup {"fail"} /\ pc' # "wipe"
  BY <1>1, <1>2 DEF TeardownSteps
<1>7. Served'
  BY <1>1, <1>2, <1>4, SamePlanKeeps DEF IInv, Served
<1>8. Kept'
  BY <1>1, <1>2, <1>3, SamePlanKeeps DEF IInv, Kept, Ours
<1>9. (~Lag /\ lost = "never") => Recorded' /\ Released'
  <2> SUFFICES ASSUME ~Lag, lost = "never" PROVE Recorded' /\ Released'
    OBVIOUS
  <2>1. Recorded /\ bucket.group \notin groups /\ policy = gid
    BY <1>1 DEF IInv, Attributed, Released
  <2>2. \A k \in LiveKeys : keyGroup[k] \in groups /\ keyGroup[k] = gid
    BY <2>1 DEF Recorded
  <2>3. Recorded'
    BY <1>1, <1>3, <1>4, <2>1, <2>2 DEF Recorded
  <2>4. LiveKeys \subseteq KeysOf(gid)
    BY <2>2 DEF LiveKeys, KeysOf
  <2>5. Released'
    BY <1>1, <1>2, <1>4, <2>4 DEF Released
  <2> QED
    BY <2>3, <2>5
<1> QED
  BY <1>1, <1>2, <1>4, <1>5, <1>6, <1>7, <1>8, <1>9, TeardownStep

LEMMA DeleteGroupStep == ASSUME IInv, DeleteGroup PROVE IInv'
<1>1. /\ pc = "deleteGroup" /\ groups' = groups \ {gid}
      /\ Applied("checkOwner", "fail", "unreachable")
      /\ UNCHANGED <<cr, secret, stored, bucket, policy, keyGroup, seen, incs, readyInc, reported,
                     lost, behind, b, fresh, recreate, gid, made, key, drain>>
  BY DEF DeleteGroup, apiVars, secretVars, histVars
<1>2. /\ SamePlan /\ pc' \in {"checkOwner", "fail"} /\ err' \in Errors
      /\ UNCHANGED <<cache, wake, stale>>
  BY <1>1, AppliedPlan DEF Errors
<1>3. UNCHANGED LiveKeys /\ ObjectKept /\ CloudTyped' /\ LocalsTyped'
  BY <1>1, <1>2 DEF LiveKeys, ObjectKept, IInv, TypeOK, CloudTyped, LocalsTyped
<1>4. Incarnations'
  BY <1>1 DEF IInv, Incarnations
<1>5. Adopted'
  BY <1>2 DEF Adopted, Untagged, Ours, OwnedSteps, ServingSteps
<1>6. pc \in TeardownSteps /\ pc' \in TeardownSteps \cup {"fail"} /\ pc' # "wipe"
  BY <1>1, <1>2 DEF TeardownSteps
<1>7. Served'
  BY <1>1, <1>2, <1>3, SamePlanKeeps DEF IInv, Served
<1>8. Kept'
  BY <1>1, <1>2, SamePlanKeeps DEF IInv, Kept, Ours
<1>9. (~Lag /\ lost = "never") => Recorded' /\ Released'
  BY <1>1, <1>2, <1>3 DEF IInv, Attributed, Recorded, Released
<1> QED
  BY <1>1, <1>2, <1>3, <1>4, <1>5, <1>6, <1>7, <1>8, <1>9, TeardownStep

LEMMA DeleteBucketStep == ASSUME IInv, DeleteBucket PROVE IInv'
<1>1. /\ pc = "deleteBucket"
      /\ UNCHANGED <<cr, secret, stored, groups, keyGroup, seen, incs, readyInc, reported,
                     lost, behind, b, fresh, recreate, gid, made, key, drain>>
  BY DEF DeleteBucket, apiVars, secretVars, histVars
<1>2. CASE FailWith("unreachable") /\ UNCHANGED <<bucket, policy>>
  <2>1. OutsideKept
    BY <1>1, <1>2 DEF OutsideKept, FailWith, IInv, TypeOK, Like
  <2> QED
    BY <1>1, <1>2, <2>1, FaultPlan, FailStep DEF IInv, FailWith, Errors
<1>3. CASE bucket' = NoBucket /\ policy' = None /\ Applied("deleteSecret", "fail", "unreachable")
  <2>1. /\ SamePlan /\ pc' \in {"deleteSecret", "fail"} /\ err' \in Errors
        /\ UNCHANGED <<cache, wake, stale>>
    BY <1>3, AppliedPlan DEF Errors
  <2>2. bucket' \in Cloud /\ Incarnations' /\ Adopted' /\ ~Ours'
    BY <1>1, <1>3, <2>1, BucketGone DEF OwnedSteps, ServingSteps
  <2>3. UNCHANGED LiveKeys /\ ObjectKept /\ CloudTyped' /\ LocalsTyped'
    BY <1>1, <1>3, <2>1, <2>2 DEF LiveKeys, ObjectKept, IInv, TypeOK, CloudTyped, LocalsTyped
  <2>4. pc \in TeardownSteps /\ pc' \in TeardownSteps \cup {"fail"} /\ pc' # "wipe"
    BY <1>1, <2>1 DEF TeardownSteps
  <2>5. Served'
    BY <1>1, <2>1, <2>3, SamePlanKeeps DEF IInv, Served
  <2>6. Kept'
    BY <1>1, <2>1, <2>2 DEF IInv, Kept
  <2>7. (~Lag /\ lost = "never") => LiveKeys = {}
    <3>1. CASE bucket.inc = 0
      BY <3>1, UntaggedKeyless
    <3>2. CASE bucket.inc # 0
      BY <1>1, <3>2 DEF IInv, Adopted, Untagged, Ours, OwnedSteps, Attributed, Released
    <3> QED
      BY <3>1, <3>2
  <2>8. (~Lag /\ lost = "never") => Recorded' /\ Released'
    <3>1. bucket'.group = None
      BY <1>3 DEF NoBucket
    <3>2. Released'
      BY <2>1 DEF Released
    <3> QED
      BY <2>3, <2>7, <3>1, <3>2 DEF Recorded
  <2> QED
    BY <1>1, <2>1, <2>2, <2>3, <2>4, <2>5, <2>6, <2>8, TeardownStep
<1> QED
  BY <1>2, <1>3 DEF DeleteBucket

LEMMA DeleteSecretStep == ASSUME IInv, DeleteSecret PROVE IInv'
<1>1. /\ pc = "deleteSecret" /\ secret' = None
      /\ stored' \in Keys \cup {None} /\ wake' \in BOOLEAN
      /\ \/ pc' = "dropFinalizer" /\ UNCHANGED <<err, budget>>
         \/ Fault /\ pc' = "fail" /\ err' = "unreachable"
      /\ UNCHANGED <<cr, bucket, policy, groups, keyGroup, seen, incs, cache, stale, readyInc,
                     reported, lost, behind, b, fresh, recreate, gid, made, key, drain>>
  BY DEF DeleteSecret, SecretWritten, IInv, TypeOK, secretVars, provVars, histVars
<1>2. SamePlan /\ pc' \in {"dropFinalizer", "fail"} /\ err' \in Errors
  BY <1>1, FaultPlan DEF IInv, TypeOK, Errors
<1>3. UNCHANGED LiveKeys /\ ObjectKept /\ CloudTyped' /\ LocalsTyped'
  BY <1>1 DEF LiveKeys, ObjectKept, IInv, TypeOK, CloudTyped, LocalsTyped
<1>4. Incarnations'
  BY <1>1 DEF IInv, Incarnations
<1>5. Adopted' /\ Released'
  BY <1>2 DEF Adopted, Untagged, Ours, Released, OwnedSteps, ServingSteps
<1>6. pc \in TeardownSteps /\ pc' \in TeardownSteps \cup {"fail"} /\ pc' # "wipe"
  BY <1>1, <1>2 DEF TeardownSteps
<1>7. Served'
  BY <1>1, <1>2, <1>3, SamePlanKeeps DEF IInv, Served
<1>8. Kept'
  BY <1>1, <1>2, SamePlanKeeps DEF IInv, Kept, Ours
<1>9. (~Lag /\ lost = "never") => Recorded'
  BY <1>1, <1>3 DEF IInv, Attributed, Recorded
<1> QED
  BY <1>1, <1>2, <1>3, <1>4, <1>5, <1>6, <1>7, <1>8, <1>9, TeardownStep

----------------------------------------------------------------------------
(* The invariant. *)

LEMMA InitialObjects ==
  ASSUME NEW start \in StartKinds
  PROVE  LET r == InitialCR(start)
             c == InitialBucket(start)
         IN  /\ r \in Resource /\ r.exists /\ ~r.deleting
             /\ start \in {"new", "foreign"} => ~r.finalizer
             /\ start \in {"legacy", "recreatable"} => r.finalizer
             /\ c \in Cloud
             /\ start = "new" => c = NoBucket
             /\ start # "new" => c.inc = 1 /\ c.group \in {1, None}
             /\ start \in {"recreatable", "foreign"} => c.group = 1
             /\ start \in {"legacy", "recreatable"} => c.owner = "us"
             /\ start = "foreign" => c.owner = "other"
<1>1. /\ NewResource \in Resource /\ NewResource.exists /\ ~NewResource.deleting
      /\ ~NewResource.finalizer
  BY ResourcesTyped
<1>2. /\ ReadyResource \in Resource /\ ReadyResource.exists /\ ~ReadyResource.deleting
      /\ ReadyResource.finalizer
  <2> DEFINE st == [NewStatus EXCEPT !.phase = "Ready", !.ready = TRUE, !.observed = 1,
                                     !.resolved = TRUE, !.group = 1]
  <2>1. st \in Status
    BY ResourcesTyped, Constants DEF Status, Phases
  <2>2. ReadyResource = [NewResource EXCEPT !.finalizer = TRUE, !.named = TRUE, !.status = st]
    BY DEF ReadyResource
  <2> HIDE DEF st
  <2> QED
    BY <1>1, <2>1, <2>2 DEF Resource
<1>3. /\ [ReadyResource EXCEPT !.allowRecreate = TRUE] \in Resource
      /\ [ReadyResource EXCEPT !.allowRecreate = TRUE].exists
      /\ ~[ReadyResource EXCEPT !.allowRecreate = TRUE].deleting
      /\ [ReadyResource EXCEPT !.allowRecreate = TRUE].finalizer
  BY <1>2 DEF Resource
<1>4. start \in {"new", "recreatable", "legacy", "foreign"}
  BY DEF StartKinds
<1>5. CASE start = "new"
  BY <1>1, <1>5 DEF InitialCR, InitialBucket, NoBucket, Cloud
<1>6. CASE start = "recreatable"
  BY <1>3, <1>6, Constants DEF InitialCR, InitialBucket, Cloud
<1>7. CASE start = "legacy"
  BY <1>2, <1>7 DEF InitialCR, InitialBucket, Cloud
<1>8. CASE start = "foreign"
  BY <1>1, <1>8, Constants DEF InitialCR, InitialBucket, Cloud
<1> QED
  BY <1>4, <1>5, <1>6, <1>7, <1>8

LEMMA InitHolds == ASSUME Init PROVE IInv
<1>1. PICK plan \in DOMAIN Plans : \E start \in Plans[plan].starts :
        LET first == IF start = "new" THEN None ELSE 1
        IN  /\ cr = InitialCR(start) /\ cache = cr
            /\ secret = (IF start \in {"legacy", "recreatable"} THEN 1 ELSE None)
            /\ stored = secret /\ bucket = InitialBucket(start) /\ policy = first
            /\ groups = (IF start = "new" THEN {} ELSE {1})
            /\ keyGroup = [k \in Keys |-> IF k = 1 THEN first ELSE None]
            /\ budget = [plan |-> plan, fail |-> Plans[plan].maxFailures,
                         edit |-> Plans[plan].maxEdits, disturb |-> Plans[plan].maxDisturbances]
  BY DEF Init
<1>2. /\ seen = [bucket |-> bucket, policy |-> policy, groups |-> groups] /\ incs = bucket.inc
      /\ wake = TRUE /\ pc = "idle" /\ b = NoResource /\ stale = FALSE
      /\ fresh = FALSE /\ recreate = FALSE /\ gid = None /\ made = FALSE
      /\ key = None /\ drain = {} /\ err = "none"
      /\ readyInc \in {0, 1} /\ reported = 0 /\ lost = "never" /\ behind = FALSE
  BY DEF Init
<1>3. PICK start \in Plans[plan].starts :
        LET first == IF start = "new" THEN None ELSE 1
        IN  /\ cr = InitialCR(start) /\ cache = cr
            /\ secret = (IF start \in {"legacy", "recreatable"} THEN 1 ELSE None)
            /\ stored = secret /\ bucket = InitialBucket(start) /\ policy = first
            /\ groups = (IF start = "new" THEN {} ELSE {1})
            /\ keyGroup = [k \in Keys |-> IF k = 1 THEN first ELSE None]
            /\ budget = [plan |-> plan, fail |-> Plans[plan].maxFailures,
                         edit |-> Plans[plan].maxEdits, disturb |-> Plans[plan].maxDisturbances]
  BY <1>1
<1>4. start \in StartKinds /\ budget \in Budgets
  BY <1>3, ReconcilerAssumption DEF Plan, Budgets
<1>5. /\ cr \in Resource /\ cr.exists /\ ~cr.deleting
      /\ start \in {"new", "foreign"} => ~cr.finalizer
      /\ start \in {"legacy", "recreatable"} => cr.finalizer
      /\ bucket \in Cloud
      /\ start = "new" => bucket = NoBucket
      /\ start # "new" => bucket.inc = 1 /\ bucket.group \in {1, None}
      /\ start \in {"recreatable", "foreign"} => bucket.group = 1
      /\ start \in {"legacy", "recreatable"} => bucket.owner = "us"
      /\ start = "foreign" => bucket.owner = "other"
  BY <1>3, <1>4, InitialObjects
<1>6. /\ policy \in {1, None} /\ secret \in {1, None} /\ groups \in {{}, {1}}
      /\ keyGroup \in [Keys -> Groups \cup {None}]
      /\ start = "new" => LiveKeys = {} /\ policy = None
      /\ start # "new" => LiveKeys = {1} /\ keyGroup[1] = 1 /\ policy = 1 /\ groups = {1}
      /\ start \in {"new", "foreign"} => secret = None
      /\ start \in {"legacy", "recreatable"} => secret = 1
  BY <1>3, Constants DEF LiveKeys, None
<1>7. NoBucket.inc = 0 /\ NoBucket.owner = "none" /\ NoBucket.group = None
  BY DEF NoBucket
<1>8. TypeOK
  <2>1. /\ policy \in Groups \cup {None} /\ secret \in Keys \cup {None} /\ groups \in SUBSET Groups
        /\ stored \in Keys \cup {None} /\ cache \in Resource
    BY <1>3, <1>5, <1>6, Constants
  <2>2. incs \in Nat /\ readyInc \in Nat /\ pc \in Steps /\ err \in Errors
    BY <1>2, <1>5 DEF Cloud, Steps, Errors
  <2>3. seen \in [bucket : Cloud, policy : Groups \cup {None}, groups : SUBSET Groups]
    BY <1>2, <1>5, <2>1
  <2> QED
    BY <1>2, <1>4, <1>5, <1>6, <2>1, <2>2, <2>3, ResourcesTyped DEF TypeOK, Budgets
<1>9. Asked /\ Adopted /\ Resolved /\ Released
  BY <1>2 DEF Asked, Adopted, Untagged, Ours, Resolved, Released, TeardownSteps, OwnedSteps, ServingSteps
<1>10. Incarnations
  <2>1. bucket.inc \in Nat /\ seen.bucket = bucket
    BY <1>2, <1>5 DEF Cloud
  <2> QED
    BY <1>2, <1>4, <1>5, <1>6, <1>7, <2>1 DEF Incarnations, StartKinds
<1>11. Recorded
  BY <1>4, <1>5, <1>6, <1>7 DEF Recorded, StartKinds
<1>12. Objects
  BY <1>2, <1>3, <1>5, SidesApart DEF Objects
<1>13. Kept
  BY <1>2, <1>4, <1>5, <1>6, <1>7 DEF Kept, Ours, StartKinds
<1>14. Served
  BY <1>2, <1>4, <1>6 DEF Served, StartKinds
<1> QED
  BY <1>8, <1>9, <1>10, <1>11, <1>12, <1>13, <1>14 DEF IInv, Attributed

LEMMA ProvisionKeeps == ASSUME IInv, Provision PROVE IInv'
BY StartPassStep, AddFinalizerStep, PersistNameStep, MarkProvisioningStep, GuardBucketPresentStep,
   HasBucketStep, CreateBucketStep, TagNewStep, AdoptOrCollideStep, ClaimStep, ResolveGroupStep,
   CreateGroupStep, StampStep, RollbackGroupStep, EnsurePolicyStep, DecideKeyStep, ClearKeysStep,
   CreateKeyStep, WriteSecretStep, RollbackKeyStep, MarkReadyStep, FailPassStep
   DEF Provision

LEMMA TeardownKeeps == ASSUME IInv, Teardown PROVE IInv'
BY MarkDeletingStep, FindBucketStep, PrepareDeleteStep, WipeBucketStep, ReleaseGroupStep,
   ReleaseStampStep, DeleteGroupStep, CheckOwnerStep, DeleteBucketStep, DeleteSecretStep,
   DropFinalizerStep
   DEF Teardown

LEMMA EnvironmentKeeps == ASSUME IInv, Environment PROVE IInv'
BY CrashStep, CacheSyncStep, SecretSyncStep, UserRotatesStep, UserEditsSpecStep, UserAllowsWipeStep,
   UserDeletesStep, UsagePatchStep, UserDeletesSecretStep, KeyDeletedStep, GroupDeletedStep,
   BucketDeletedStep, ForeignCreatesStep, ForeignClaimsStep, RotationRetractedStep, WorkloadWritesStep, SettleStep
   DEF Environment

LEMMA StutterKeeps == ASSUME IInv, UNCHANGED vars PROVE IInv'
<1>1. /\ CloudKept /\ SamePlan /\ UNCHANGED <<cr, cache, stored, wake, seen, stale, budget>>
  BY FaultPlan DEF vars, CloudKept, IInv
<1>2. TypeOK'
  BY <1>1 DEF IInv, TypeOK, CloudKept
<1>3. Objects'
  BY <1>1 DEF IInv, Objects, CloudKept
<1>4. Kept'
  BY <1>1, SamePlanKeeps DEF IInv, Kept, CloudKept, Ours
<1> QED
  BY <1>1, <1>2, <1>3, <1>4, OutsideStep

LEMMA NextStep == ASSUME IInv, [Next]_vars PROVE IInv'
BY ProvisionKeeps, TeardownKeeps, EnvironmentKeeps, StutterKeeps, CallFailsStep,
   ObjectWriteFailsStep, TargetGoneStep
   DEF Next, Operator, Failing

THEOREM ReconcilerInvariance == Spec => []IInv
BY InitHolds, NextStep, PTL DEF Spec

----------------------------------------------------------------------------
(* One failure, or one crash, and what the later passes make of it. *)

\* Passes read what is there, at most one call fails or the operator dies once, and
\* nobody takes a key, a group, the bucket or the request for a rotation away.
OneFault ==
  /\ Lags = {} /\ Plans[budget.plan].maxFailures <= 1
  /\ Disturbances \subseteq {"foreign"}

\* The steps between giving up a credential and reporting the next one.
KeySteps == {"clearKeys", "createKey", "writeSecret", "rollbackKey", "markReady"}

Prompt ==
  /\ stored = secret /\ lost = "never" /\ budget.fail <= 1
  /\ pc = "rollbackKey" => budget.fail = 0
  /\ pc \in {"stamp", "ensurePolicy"} \cup ServingSteps => gid \in groups

\* A request for a rotation stands until the pass that served it is recorded.
Requested ==
  /\ cr.status.rotated <= cr.rotate
  /\ (pc # "idle" /\ cr.exists) =>
       /\ b.status.rotated = cr.status.rotated
       /\ b.status.rotated <= b.rotate /\ b.rotate <= cr.rotate
       /\ ~stale => b.rotate = cr.rotate

Cleared ==
  /\ pc = "clearKeys" => LiveKeys \subseteq drain
  /\ pc = "createKey" => LiveKeys = {}
  /\ pc \in {"writeSecret", "rollbackKey"} => LiveKeys \subseteq {key}
  /\ pc = "writeSecret" => key \in KeysOf(gid)
  /\ (pc = "markReady" /\ secret # None) => secret \in KeysOf(gid) /\ LiveKeys \subseteq {secret}

\* The next passes rotate as well.
Repeats == PendingRotation(cr) /\ (pc # "idle" => PendingRotation(b))

\* A live key beside the one in the Secret is what a failed rotation left, and the
\* rotation is still to be done; a dead key in the Secret has cost the one failure,
\* or is about to be replaced, or the Bucket is going away.
Spared ==
  secret # None =>
    /\ pc \notin {"writeSecret", "rollbackKey"} =>
         LiveKeys \subseteq {secret} \/ (budget.fail = 0 /\ Repeats)
    /\ \/ secret \in LiveKeys \/ budget.fail = 0
       \/ pc \in {"clearKeys", "createKey", "writeSecret"}
       \/ cr.deleting /\ pc \notin ProvisioningSteps \cup {"addFinalizer"}
    /\ (pc \in {"clearKeys", "createKey", "writeSecret"} /\ budget.fail > 0) => PendingRotation(b)

Mended == OneFault => Prompt /\ Requested /\ Cleared /\ Spared

----------------------------------------------------------------------------
LEMMA SameFault == ASSUME SamePlan PROVE OneFault' <=> OneFault
BY DEF SamePlan, OneFault, Lags, Disturbances

SameRotation(r, q) == q.rotate = r.rotate /\ q.status.rotated = r.status.rotated

LEMMA SamePending ==
  ASSUME NEW r \in Resource, NEW q \in Resource, SameRotation(r, q)
  PROVE  PendingRotation(q) <=> PendingRotation(r)
BY DEF SameRotation, PendingRotation

\* What a pass is asked to rotate is asked of the Bucket, too.
LEMMA StillPending ==
  ASSUME TypeOK, Requested, pc # "idle", cr.exists, PendingRotation(b)
  PROVE  PendingRotation(cr)
BY DEF TypeOK, Resource, Status, Requested, PendingRotation

LEMMA RotationWritten ==
  ASSUME NEW r \in Resource, NEW st \in Status
  PROVE  /\ st.rotated = r.status.rotated => SameRotation(r, [r EXCEPT !.status = st])
         /\ [r EXCEPT !.status = st].rotate = r.rotate
         /\ [r EXCEPT !.status = st].status = st
BY DEF SameRotation, Resource

LEMMA RotationPublished ==
  ASSUME NEW r \in Resource, NEW g \in Groups \cup {None}
  PROVE  SameRotation(r, [r EXCEPT !.status.group = g])
BY DEF SameRotation, Resource, Status

\* A Bucket with a Secret exists.
LEMMA SecretOwned == ASSUME IInv, secret # None PROVE cr.exists
BY DEF IInv, Kept

\* A step of a pass away from its keys.
LEMMA QuietStep ==
  ASSUME IInv, OneFault, Mended, IInv', SamePlan,
         UNCHANGED <<secret, stored, keyGroup, lost, stale>>,
         budget'.fail <= budget.fail, cr'.exists = cr.exists, cr'.deleting = cr.deleting,
         SameRotation(cr, cr'), SameRotation(b, b'),
         pc # "idle", pc' # "idle", pc \notin KeySteps, pc' \notin KeySteps,
         pc' \in ProvisioningSteps \cup {"addFinalizer"} => pc \in ProvisioningSteps \cup {"addFinalizer"},
         pc' \in {"stamp", "ensurePolicy", "decideKey"} => gid' \in groups'
  PROVE  Mended'
<1>0. OneFault' /\ Prompt /\ Requested /\ Cleared /\ Spared
  BY SameFault DEF Mended
<1>1. /\ cr \in Resource /\ cr' \in Resource /\ b \in Resource /\ b' \in Resource
      /\ budget.fail \in Nat /\ budget'.fail \in Nat
  BY DEF IInv, TypeOK
<1>2. Prompt'
  BY <1>0, <1>1 DEF Prompt, KeySteps, ServingSteps
<1>3. Requested'
  BY <1>0, <1>1 DEF Requested, SameRotation
<1>4. Cleared'
  BY DEF Cleared, KeySteps
<1>5. (PendingRotation(cr') <=> PendingRotation(cr)) /\ (PendingRotation(b') <=> PendingRotation(b))
  BY <1>1, SamePending
<1>6. (PendingRotation(cr)' <=> PendingRotation(cr)) /\ (PendingRotation(b)' <=> PendingRotation(b))
  BY <1>5 DEF PendingRotation
<1>7. LiveKeys' = LiveKeys
  BY DEF LiveKeys
<1>8. Spared'
  BY <1>0, <1>1, <1>6, <1>7 DEF Spared, Repeats, KeySteps
<1> QED
  BY <1>2, <1>3, <1>4, <1>8 DEF Mended

\* The one failure: the pass ends, or starts to undo what it did.
LEMMA FaultStep ==
  ASSUME IInv, OneFault, Mended, IInv', SamePlan,
         UNCHANGED <<cr, secret, stored, keyGroup, lost, stale, b, key, gid, groups>>,
         budget.fail > 0, budget'.fail = budget.fail - 1, pc # "idle",
         \/ pc' = "fail" /\ pc \notin {"writeSecret", "rollbackKey"}
         \/ pc' = "rollbackKey" /\ pc = "writeSecret"
         \/ pc' = "rollbackGroup"  /\ pc = "stamp"
  PROVE  Mended'
<1>0. OneFault' /\ Prompt /\ Requested /\ Cleared /\ Spared
  BY SameFault DEF Mended
<1>1. budget.fail \in Nat /\ budget'.fail = 0
  BY <1>0 DEF IInv, TypeOK, Prompt
<1>2. LiveKeys' = LiveKeys
  BY DEF LiveKeys
<1>3. Prompt'
  BY <1>0, <1>1 DEF Prompt, ServingSteps
<1>4. Requested'
  BY <1>0 DEF Requested
<1>5. Cleared'
  BY <1>0, <1>2 DEF Cleared
<1>6. Spared'
  BY <1>0, <1>1, <1>2 DEF Spared, Repeats, PendingRotation
<1> QED
  BY <1>3, <1>4, <1>5, <1>6 DEF Mended

\* The end of a pass: at rest only the record of a rotation has changed.
LEMMA RestStep ==
  ASSUME IInv, OneFault, Mended, IInv', SamePlan,
         UNCHANGED <<secret, keyGroup, lost>>, stored' \in {stored, secret},
         Like(cr, cr'), pc # "idle", pc' = "idle",
         cr'.rotate = cr.rotate, cr'.status.rotated <= cr'.rotate,
         cr'.status.rotated = cr.status.rotated \/ pc = "markReady",
         \/ UNCHANGED budget /\ pc \notin KeySteps \ {"markReady"}
         \/ budget.fail > 0 /\ budget'.fail = budget.fail - 1
  PROVE  Mended'
<1>0. OneFault' /\ Prompt /\ Requested /\ Cleared /\ Spared
  BY SameFault DEF Mended
<1>1. /\ budget.fail \in Nat /\ budget'.fail \in Nat /\ budget'.fail <= budget.fail
      /\ budget.fail > 0 => budget'.fail = 0 \/ (UNCHANGED budget /\ pc \notin KeySteps \ {"markReady"})
  BY <1>0 DEF IInv, TypeOK, Prompt
<1>2. LiveKeys' = LiveKeys
  BY DEF LiveKeys
<1>3. Prompt'
  BY <1>0, <1>1 DEF Prompt, ServingSteps
<1>4. Requested'
  BY <1>0 DEF Requested
<1>5. Cleared'
  BY DEF Cleared
<1>6. ASSUME secret # None PROVE cr.exists
  BY <1>6, SecretOwned
<1>7. cr \in Resource /\ cr' \in Resource
  BY DEF IInv, TypeOK
<1>8. CASE pc = "markReady"
  <2>1. secret # None => LiveKeys \subseteq {secret} /\ secret \in LiveKeys
    <3>1. gid # None
      BY <1>0, <1>8, Constants DEF IInv, TypeOK, Prompt, ServingSteps
    <3> QED
      BY <1>0, <1>8, <3>1 DEF Cleared, KeysOf, LiveKeys
  <2> QED
    BY <1>2, <1>3, <1>4, <1>5, <2>1 DEF Mended, Spared
<1>9. CASE pc # "markReady"
  <2>1. SameRotation(cr, cr')
    BY <1>9 DEF SameRotation
  <2>2. PendingRotation(cr)' <=> PendingRotation(cr)
    BY <1>7, <2>1, SamePending DEF PendingRotation
  <2>3. ASSUME secret # None, pc = "writeSecret", budget.fail > 0 PROVE PendingRotation(cr)
    BY <1>0, <1>6, <2>3, StillPending DEF Spared, IInv
  <2>4. ASSUME secret # None
        PROVE  LiveKeys \subseteq {secret} \/ (budget'.fail = 0 /\ PendingRotation(cr))
    BY <1>0, <1>1, <1>9, <2>3, <2>4 DEF Spared, Repeats, KeySteps, Prompt
  <2>5. ASSUME secret # None
        PROVE  secret \in LiveKeys \/ budget'.fail = 0 \/ cr.deleting
    BY <1>0, <1>1, <1>9, <2>5 DEF Spared, KeySteps
  <2>6. "idle" \notin ProvisioningSteps \cup {"addFinalizer"}
    BY SidesApart
  <2>7. Spared'
    BY <1>2, <2>2, <2>4, <2>5, <2>6 DEF Spared, Repeats, Like
  <2> QED
    BY <1>3, <1>4, <1>5, <2>7 DEF Mended
<1> QED
  BY <1>8, <1>9

\* What others do beside a pass.
LEMMA BesideStep ==
  ASSUME IInv, OneFault, Mended, IInv', SamePlan,
         UNCHANGED <<pc, b, key, gid, drain, keyGroup, lost, groups>>,
         \/ UNCHANGED <<secret, stored>>
         \/ secret' = None /\ stored' = None,
         budget'.fail = budget.fail,
         cr'.exists => /\ cr.exists /\ cr'.rotate >= cr.rotate /\ cr'.status = cr.status
                       /\ cr.deleting => cr'.deleting
                       /\ stale' \/ (cr' = cr /\ stale' = stale) \/ pc = "idle",
         ~cr'.exists => cr'.status.rotated <= cr'.rotate
  PROVE  Mended'
<1>0. OneFault' /\ Prompt /\ Requested /\ Cleared /\ Spared
  BY SameFault DEF Mended
<1>2. LiveKeys' = LiveKeys
  BY DEF LiveKeys
<1>3. Prompt'
  BY <1>0 DEF Prompt, ServingSteps
<1>4. Requested'
  BY <1>0 DEF Requested, IInv, TypeOK, Resource, Status
<1>5. Cleared'
  BY <1>0, <1>2 DEF Cleared, KeysOf
<1>6. ASSUME secret' # None PROVE cr'.exists /\ secret' = secret
  BY <1>6 DEF IInv, Kept
<1>7. ASSUME cr'.exists PROVE PendingRotation(cr) => PendingRotation(cr)'
  BY <1>0, <1>7 DEF Requested, PendingRotation, IInv, TypeOK, Resource, Status
<1>8. Spared'
  BY <1>0, <1>2, <1>6, <1>7 DEF Spared, Repeats, PendingRotation
<1> QED
  BY <1>3, <1>4, <1>5, <1>8 DEF Mended

LEMMA BudgetSpent ==
  ASSUME TypeOK
  PROVE  /\ UNCHANGED budget => SamePlan /\ budget'.fail = budget.fail /\ budget'.fail <= budget.fail
         /\ Fault \/ Fails("crash") =>
              /\ SamePlan /\ budget.fail > 0 /\ budget'.fail = budget.fail - 1
              /\ budget'.fail <= budget.fail
BY DEF TypeOK, SamePlan, Budgets, Fault, Fails

LEMMA SelfRotation == \A r : SameRotation(r, r)
BY DEF SameRotation

----------------------------------------------------------------------------
LEMMA StartPassOnce == ASSUME IInv, OneFault, Mended, IInv', StartPass PROVE Mended'
<1>0. Prompt /\ Requested /\ Cleared /\ Spared
  BY DEF Mended
<1>1. /\ UNCHANGED <<cr, secret, stored, keyGroup, gid, groups, lost, budget>>
      /\ pc = "idle" /\ cache = cr /\ b' = cr /\ stale' = FALSE
  BY DEF StartPass, NewLook, OneFault, apiVars, secretVars, provVars
<1>2. /\ pc' \in {"markDeleting", "persistName", "addFinalizer"}
      /\ cr.deleting => pc' = "markDeleting"
  <2>1. pc' = IF cr.deleting THEN "markDeleting"
              ELSE IF cr.finalizer THEN "persistName" ELSE "addFinalizer"
    BY <1>1 DEF StartPass
  <2> QED
    BY <2>1
<1>3. LiveKeys' = LiveKeys
  BY <1>1 DEF LiveKeys
<1>4. Prompt' /\ Cleared'
  BY <1>0, <1>1, <1>2 DEF Prompt, Cleared, ServingSteps
<1>5. Requested'
  BY <1>0, <1>1 DEF Requested, IInv, TypeOK, Resource
<1>6. PendingRotation(cr) => PendingRotation(cr)' /\ PendingRotation(b)'
  BY <1>1 DEF PendingRotation
<1>7. "markDeleting" \notin ProvisioningSteps \cup {"addFinalizer"}
  BY DEF ProvisioningSteps, ServingSteps
<1>8. Spared'
  BY <1>0, <1>1, <1>2, <1>3, <1>6, <1>7 DEF Spared, Repeats
<1> QED
  BY <1>4, <1>5, <1>8 DEF Mended

LEMMA AddFinalizerOnce == ASSUME IInv, OneFault, Mended, IInv', AddFinalizer PROVE Mended'
<1>0. /\ pc = "addFinalizer"
      /\ UNCHANGED <<secret, stored, keyGroup, groups, lost, budget>>
      /\ cr \in Resource /\ b \in Resource /\ SamePlan /\ budget.fail \in Nat
  BY BudgetSpent DEF AddFinalizer, Goto, EndPass, secretVars, provVars, histVars, IInv, TypeOK
<1>1. CASE stale
  <2>1. pc' = "idle" /\ UNCHANGED cr
    BY <1>1 DEF AddFinalizer, EndPass
  <2> QED
    BY <1>0, <2>1, RestStep DEF Mended, Requested, Like, KeySteps
<1>2. CASE ~stale
  <2>1. /\ cr' = [cr EXCEPT !.finalizer = TRUE] /\ b' = [b EXCEPT !.finalizer = TRUE]
        /\ pc' = "persistName" /\ UNCHANGED stale
    BY <1>2 DEF AddFinalizer, Goto
  <2>2. SameRotation(cr, cr') /\ SameRotation(b, b') /\ cr'.exists = cr.exists /\ cr'.deleting = cr.deleting
    BY <1>0, <2>1 DEF SameRotation, Resource
  <2> QED
    BY <1>0, <2>1, <2>2, QuietStep DEF KeySteps
<1> QED
  BY <1>1, <1>2 DEF IInv, TypeOK

\* Calls of a pass that leave the Bucket, the keys and the Secret alone.
LEMMA CallStep ==
  ASSUME IInv, OneFault, Mended, IInv',
         UNCHANGED <<cr, secret, stored, keyGroup, lost, stale>>, UNCHANGED budget \/ Fault,
         SameRotation(b, b'), pc # "idle", pc' # "idle", pc \notin KeySteps, pc' \notin KeySteps,
         SameSide, pc' \in {"stamp", "ensurePolicy", "decideKey"} => gid' \in groups'
  PROVE  Mended'
<1>1. SamePlan /\ budget'.fail <= budget.fail
  BY BudgetSpent DEF IInv
<1>2. pc' \in ProvisioningSteps \cup {"addFinalizer"} => pc \in ProvisioningSteps
  BY SidesApart DEF SameSide, TeardownSteps, ProvisioningSteps, ServingSteps
<1> QED
  BY <1>1, <1>2, QuietStep, SelfRotation

LEMMA PersistNameOnce == ASSUME IInv, OneFault, Mended, IInv', PersistName PROVE Mended'
<1>0. /\ pc = "persistName" /\ pc' \in {"fail", "markProvisioning"}
      /\ UNCHANGED <<secret, stored, keyGroup, lost, stale, budget>>
      /\ \/ UNCHANGED <<cr, b>>
         \/ cr' = [cr EXCEPT !.named = TRUE] /\ b' = [b EXCEPT !.named = TRUE]
  BY DEF PersistName, Goto, FailWith, secretVars, provVars, histVars
<1>1. /\ SameRotation(cr, cr') /\ SameRotation(b, b')
      /\ cr'.exists = cr.exists /\ cr'.deleting = cr.deleting
  BY <1>0 DEF SameRotation, IInv, TypeOK, Resource
<1>2. SamePlan /\ budget'.fail <= budget.fail
  BY <1>0, BudgetSpent DEF IInv
<1> QED
  BY <1>0, <1>1, <1>2, QuietStep DEF KeySteps, ProvisioningSteps

LEMMA StatusRewritten ==
  ASSUME IInv, Requested, pc # "idle", ~stale, NEW st \in Status, st.rotated = b.status.rotated
  PROVE  SameRotation(cr, [cr EXCEPT !.status = st])
<1>1. cr.exists /\ cr \in Resource
  BY DEF IInv, Objects, TypeOK
<1>2. st.rotated = cr.status.rotated
  BY <1>1 DEF Requested
<1> QED
  BY <1>1, <1>2, RotationWritten

LEMMA MarkProvisioningOnce == ASSUME IInv, OneFault, Mended, IInv', MarkProvisioning PROVE Mended'
<1> DEFINE st == [b.status EXCEPT !.phase = "Provisioning"]
<1>0. /\ pc = "markProvisioning" /\ pc' = "guardPresent"
      /\ UNCHANGED <<secret, stored, keyGroup, lost, stale>>
      /\ \/ UNCHANGED <<cr, b, budget>>
         \/ /\ b' = [b EXCEPT !.status = st]
            /\ \/ cr' = (IF stale THEN cr ELSE [cr EXCEPT !.status = st]) /\ UNCHANGED budget
               \/ Fault /\ UNCHANGED cr
  BY DEF MarkProvisioning, secretVars, provVars, histVars
<1>1. st \in Status /\ st.rotated = b.status.rotated
  BY DEF IInv, TypeOK, Resource, Status, Phases
<1>2. cr \in Resource /\ b \in Resource /\ stale \in BOOLEAN
  BY DEF IInv, TypeOK
<1> HIDE DEF st
<1>3. SameRotation(b, b')
  BY <1>0, <1>1, <1>2, RotationWritten, SelfRotation
<1>4. cr' = cr \/ (~stale /\ cr' = [cr EXCEPT !.status = st])
  BY <1>0, <1>2
<1>5. SameRotation(cr, cr')
  BY <1>0, <1>1, <1>4, StatusRewritten, SelfRotation DEF Mended
<1>6. cr'.exists = cr.exists /\ cr'.deleting = cr.deleting
  BY <1>1, <1>2, <1>4, StatusWritten DEF Like
<1>7. SamePlan /\ budget'.fail <= budget.fail
  BY <1>0, BudgetSpent DEF IInv
<1> QED
  BY <1>0, <1>3, <1>5, <1>6, <1>7, QuietStep DEF KeySteps, ProvisioningSteps

LEMMA BucketCallOnce ==
  ASSUME IInv, OneFault, Mended, IInv',
         \/ GuardBucketPresent \/ HasBucket \/ CreateBucket \/ TagNew \/ AdoptOrCollide
         \/ Claim \/ RollbackGroup
  PROVE  Mended'
<1>1. /\ UNCHANGED <<cr, secret, stored, keyGroup, lost, stale, b>>
      /\ UNCHANGED budget \/ Fault
  BY DEF GuardBucketPresent, HasBucket, CreateBucket, TagNew, AdoptOrCollide, Claim, RollbackGroup,
         NewLook, Goto, FailWith, Applied, apiVars, secretVars, provVars, histVars, passVars
<1>2. /\ pc \in {"guardPresent", "hasBucket", "createBucket", "tagNew", "adopt", "claim", "rollbackGroup"}
      /\ pc' \in {"hasBucket", "createBucket", "tagNew", "adopt", "claim", "resolveGroup", "fail"}
  BY DEF GuardBucketPresent, HasBucket, CreateBucket, TagNew, AdoptOrCollide, Claim, RollbackGroup,
         Goto, FailWith, Applied
<1>3. SameSide
  BY <1>2 DEF SameSide, ProvisioningSteps
<1> QED
  BY <1>1, <1>2, <1>3, CallStep, SelfRotation DEF KeySteps

LEMMA ResolveGroupOnce == ASSUME IInv, OneFault, Mended, IInv', ResolveGroup PROVE Mended'
<1>1. /\ UNCHANGED <<cr, secret, stored, keyGroup, lost, stale, budget, groups>>
      /\ pc = "resolveGroup"
  BY DEF ResolveGroup, NewLook, PublishGroup, Goto, FailWith, apiVars, secretVars, provVars
<1>2. GroupListings = {groups}
  BY DEF OneFault, GroupListings, Lag
<1>3. \/ pc' \in {"fail", "createGroup"} /\ b' = b
      \/ /\ pc' \in {"ensurePolicy", "stamp"} /\ gid' \in groups /\ gid' # None
         /\ b' = b \/ \E g \in Groups : b' = [b EXCEPT !.status.group = g]
  <2>1. groups \subseteq Groups
    BY DEF IInv, TypeOK
  <2> QED
    BY <1>2, <2>1 DEF ResolveGroup, PublishGroup, Goto, FailWith, FromTags, FromPolicy
<1>4. SameRotation(b, b')
  BY <1>3, RotationPublished, SelfRotation DEF IInv, TypeOK
<1>5. SameSide
  BY <1>1, <1>3 DEF SameSide, ProvisioningSteps
<1> QED
  BY <1>1, <1>3, <1>4, <1>5, CallStep DEF KeySteps

LEMMA CreateGroupOnce == ASSUME IInv, OneFault, Mended, IInv', CreateGroup PROVE Mended'
<1>1. /\ UNCHANGED <<cr, secret, stored, keyGroup, lost, stale, b>> /\ (UNCHANGED budget \/ Fault)
      /\ pc = "createGroup" /\ pc' \in {"stamp", "fail"}
      /\ pc' = "stamp" => gid' \in groups'
  BY DEF CreateGroup, Goto, Applied, apiVars, secretVars, histVars
<1>2. SameSide
  BY <1>1 DEF SameSide, ProvisioningSteps
<1> QED
  BY <1>1, <1>2, CallStep, SelfRotation DEF KeySteps

LEMMA StampOnce == ASSUME IInv, OneFault, Mended, IInv', Stamp \/ EnsurePolicy PROVE Mended'
<1>1. /\ UNCHANGED <<cr, secret, stored, keyGroup, lost, stale, gid, groups>>
      /\ UNCHANGED budget \/ Fault
      /\ pc \in {"stamp", "ensurePolicy"} /\ pc' \in {"ensurePolicy", "decideKey", "fail", "rollbackGroup"}
      /\ b' = b \/ b' = [b EXCEPT !.status.group = gid]
  BY DEF Stamp, EnsurePolicy, StampError, Goto, Applied, apiVars, secretVars, histVars
<1>2. SameRotation(b, b')
  BY <1>1, RotationPublished, SelfRotation DEF IInv, TypeOK
<1>3. SameSide
  BY <1>1 DEF SameSide, ProvisioningSteps, ServingSteps
<1>4. gid' \in groups'
  BY <1>1 DEF Mended, Prompt
<1> QED
  BY <1>1, <1>2, <1>3, <1>4, CallStep DEF KeySteps

----------------------------------------------------------------------------
(* The keys. *)

\* The live keys are those of the group the pass works with.
LEMMA ServingKeys ==
  ASSUME IInv, OneFault, Prompt, pc \in ServingSteps
  PROVE  LiveKeys = KeysOf(gid) /\ gid \in Groups /\ gid # None
<1>1. ~Lag /\ lost = "never" /\ gid \in groups
  BY DEF OneFault, Lag, Prompt
<1>2. gid \in Groups /\ gid # None
  BY <1>1, Constants DEF IInv, TypeOK
<1>3. \A k \in LiveKeys : keyGroup[k] = gid
  BY <1>1 DEF IInv, Attributed, Recorded, Resolved
<1> QED
  BY <1>2, <1>3 DEF LiveKeys, KeysOf

LEMMA DecideKeyOnce == ASSUME IInv, OneFault, Mended, IInv', DecideKey PROVE Mended'
<1>0. OneFault' /\ Prompt /\ Requested /\ Cleared /\ Spared
  <2>1. SamePlan
    BY BudgetSpent DEF DecideKey, Goto, IInv
  <2> QED
    BY <2>1, SameFault DEF Mended
<1>1. /\ UNCHANGED <<cr, secret, stored, keyGroup, groups, lost, b, gid, key, stale, budget>>
      /\ pc = "decideKey"
      /\ \/ KeepCredential /\ pc' = "markReady"
         \/ ~KeepCredential /\ drain' = KeysOf(gid) /\ pc' = "clearKeys"
  BY DEF DecideKey, Goto, apiVars, secretVars, provVars, histVars
<1>2. LiveKeys = KeysOf(gid)
  BY <1>0, <1>1, ServingKeys DEF ServingSteps
<1>3. /\ LiveKeys' = LiveKeys /\ KeysOf(gid)' = KeysOf(gid)
      /\ (PendingRotation(b)' <=> PendingRotation(b)) /\ (PendingRotation(cr)' <=> PendingRotation(cr))
  BY <1>1 DEF LiveKeys, KeysOf, PendingRotation
<1>4. Prompt'
  BY <1>0, <1>1 DEF Prompt, ServingSteps
<1>5. Requested'
  BY <1>0, <1>1 DEF Requested
<1>6. ASSUME pc' = "markReady", secret # None
      PROVE  secret \in LiveKeys /\ LiveKeys \subseteq {secret}
  <2>1. ~PendingRotation(b) /\ KeysOf(gid) # {}
    BY <1>1, <1>6 DEF KeepCredential
  <2> QED
    BY <1>0, <1>1, <1>2, <1>6, <2>1 DEF Spared, Repeats
<1>7. Cleared'
  BY <1>0, <1>1, <1>2, <1>3, <1>6 DEF Cleared
<1>8. ASSUME pc' = "clearKeys", secret # None, budget.fail > 0 PROVE PendingRotation(b)
  <2>1. SUFFICES ASSUME ~PendingRotation(b) PROVE FALSE
    BY DEF PendingRotation
  <2>2. LiveKeys = {}
    BY <1>0, <1>1, <1>2, <1>8, <2>1 DEF KeepCredential, Prompt
  <2>3. pc \in ProvisioningSteps
    BY <1>1 DEF ProvisioningSteps, ServingSteps
  <2> QED
    BY <1>0, <1>1, <1>8, <2>2, <2>3 DEF Spared, IInv, TypeOK
<1>9. Spared'
  BY <1>0, <1>1, <1>3, <1>6, <1>8 DEF Spared, Repeats
<1> QED
  BY <1>4, <1>5, <1>7, <1>9 DEF Mended

\* Fewer keys: what a pass or a teardown takes away.
LEMMA DrainStep ==
  ASSUME IInv, OneFault, Mended, IInv', SamePlan,
         UNCHANGED <<cr, secret, stored, groups, lost, b, gid, stale>>,
         budget'.fail <= budget.fail,
         LiveKeys' \subseteq LiveKeys,
         \/ /\ pc = "clearKeys" /\ LiveKeys' \subseteq drain'
            /\ \/ pc' = "clearKeys"
               \/ pc' = "createKey" /\ LiveKeys' = {}
               \/ pc' = "fail" /\ budget'.fail = 0
         \/ pc = "drainKeys" /\ pc' \in {"drainKeys", "deleteGroup", "fail"}
         \/ pc = "rollbackKey" /\ pc' = "fail" /\ LiveKeys' = {}
  PROVE  Mended'
<1>0. OneFault' /\ Prompt /\ Requested /\ Cleared /\ Spared
  BY SameFault DEF Mended
<1>1. /\ (PendingRotation(b)' <=> PendingRotation(b)) /\ (PendingRotation(cr)' <=> PendingRotation(cr))
      /\ budget.fail \in Nat /\ budget'.fail \in Nat
  BY DEF PendingRotation, IInv, TypeOK
<1>2. Prompt'
  BY <1>0, <1>1 DEF Prompt, ServingSteps
<1>3. Requested'
  BY <1>0 DEF Requested
<1>4. Cleared'
  BY DEF Cleared
<1>5. ASSUME secret # None, pc = "drainKeys" PROVE cr.deleting
  BY <1>5, SecretOwned DEF IInv, Objects, TeardownSteps
<1>6. /\ "drainKeys" \notin ProvisioningSteps \cup {"addFinalizer"}
      /\ "deleteGroup" \notin ProvisioningSteps \cup {"addFinalizer"}
      /\ "fail" \notin ProvisioningSteps \cup {"addFinalizer"}
  BY DEF ProvisioningSteps, ServingSteps
<1>7. CASE pc = "clearKeys"
  BY <1>0, <1>1, <1>2, <1>3, <1>4, <1>7 DEF Spared, Repeats, Mended
<1>8. CASE pc = "drainKeys"
  BY <1>0, <1>1, <1>2, <1>3, <1>4, <1>5, <1>6, <1>8 DEF Spared, Repeats, Mended
<1>9. CASE pc = "rollbackKey"
  BY <1>0, <1>1, <1>2, <1>3, <1>4, <1>9 DEF Spared, Prompt, Mended
<1> QED
  BY <1>7, <1>8, <1>9

LEMMA ClearKeysOnce == ASSUME IInv, OneFault, Mended, IInv', ClearKeys PROVE Mended'
<1>0. Prompt /\ Requested /\ Cleared /\ Spared
  BY DEF Mended
<1>1. /\ UNCHANGED <<cr, secret, stored, groups, lost, b, gid, stale>> /\ pc \in {"clearKeys", "drainKeys"}
      /\ UNCHANGED budget \/ Fault
  BY DEF ClearKeys, Goto, Applied, apiVars, secretVars, histVars
<1>2. SamePlan /\ budget'.fail <= budget.fail /\ budget.fail \in Nat
  BY <1>1, BudgetSpent DEF IInv, TypeOK
<1>3. CASE drain = {} /\ UNCHANGED <<keyGroup, drain>>
           /\ pc' = (IF pc = "clearKeys" THEN "createKey" ELSE "deleteGroup")
  <2>1. LiveKeys' = LiveKeys
    BY <1>3 DEF LiveKeys
  <2> QED
    BY <1>0, <1>1, <1>2, <1>3, <2>1, DrainStep DEF Cleared
<1>4. ASSUME NEW k \in drain, keyGroup' = [keyGroup EXCEPT ![k] = None], drain' = drain \ {k},
             Applied(pc, "fail", "unreachable")
      PROVE  Mended'
  <2>1. LiveKeys' = LiveKeys \ {k}
    BY <1>4 DEF IInv, TypeOK, LiveKeys
  <2>2. pc' = pc \/ (pc' = "fail" /\ budget.fail > 0 /\ budget'.fail = budget.fail - 1)
    BY <1>4, BudgetSpent DEF Applied, Goto, IInv
  <2>3. pc' = pc \/ (pc' = "fail" /\ budget'.fail = 0)
    BY <1>0, <1>2, <2>2 DEF Prompt
  <2> QED
    BY <1>0, <1>1, <1>2, <1>4, <2>1, <2>3, DrainStep DEF Cleared
<1> QED
  BY <1>3, <1>4 DEF ClearKeys, Goto

LEMMA RollbackKeyOnce == ASSUME IInv, OneFault, Mended, IInv', RollbackKey PROVE Mended'
<1>1. /\ UNCHANGED <<cr, secret, stored, groups, lost, b, gid, stale, budget>>
      /\ pc = "rollbackKey" /\ pc' = "fail" /\ keyGroup' = [keyGroup EXCEPT ![key] = None]
  BY DEF RollbackKey, Goto, apiVars, secretVars, histVars, passVars
<1>2. LiveKeys \subseteq {key}
  BY <1>1 DEF Mended, Cleared
<1>3. LiveKeys' = {}
  BY <1>1, <1>2 DEF LiveKeys, IInv, TypeOK
<1>4. SamePlan /\ budget'.fail <= budget.fail
  BY <1>1, BudgetSpent DEF IInv
<1> QED
  BY <1>1, <1>3, <1>4, DrainStep

LEMMA CreateKeyOnce == ASSUME IInv, OneFault, Mended, IInv', CreateKey PROVE Mended'
<1>1. /\ UNCHANGED <<cr, secret, stored, groups, lost, b, gid, stale>> /\ pc = "createKey"
      /\ UNCHANGED budget \/ Fault
  BY DEF CreateKey, Goto, Applied, apiVars, secretVars, histVars
<1>2. PICK k \in Keys : /\ keyGroup' = [keyGroup EXCEPT ![k] = gid]
                        /\ Applied("writeSecret", "fail", "destroyed")
                        /\ key' = IF pc' = "writeSecret" THEN k ELSE key
  BY DEF CreateKey
<1>a. SamePlan /\ budget.fail \in Nat /\ budget'.fail \in Nat /\ budget'.fail <= budget.fail
  BY <1>1, BudgetSpent DEF IInv, TypeOK
<1>0. OneFault' /\ Prompt /\ Requested /\ Cleared /\ Spared
  BY <1>a, SameFault DEF Mended
<1>3. \/ pc' = "writeSecret" /\ UNCHANGED budget
      \/ pc' = "fail" /\ budget.fail > 0 /\ budget'.fail = 0
  <2>1. \/ pc' = "writeSecret" /\ UNCHANGED budget
        \/ pc' = "fail" /\ budget.fail > 0 /\ budget'.fail = budget.fail - 1
    BY <1>2, BudgetSpent DEF Applied, Goto, IInv
  <2> QED
    BY <1>0, <1>a, <2>1 DEF Prompt
<1>4. gid # None /\ gid \in groups
  BY <1>0, <1>1, ServingKeys DEF ServingSteps, Prompt
<1>5. LiveKeys' = {k} /\ keyGroup'[k] = gid
  BY <1>0, <1>1, <1>2, <1>4 DEF Cleared, LiveKeys, IInv, TypeOK
<1>6. /\ (PendingRotation(b)' <=> PendingRotation(b)) /\ (PendingRotation(cr)' <=> PendingRotation(cr))
  BY <1>1 DEF PendingRotation
<1>7. Prompt'
  BY <1>0, <1>1, <1>3, <1>4 DEF Prompt, ServingSteps
<1>8. Requested'
  BY <1>0, <1>1 DEF Requested
<1>9. Cleared'
  BY <1>1, <1>2, <1>3, <1>5 DEF Cleared, KeysOf
<1>10. ASSUME secret # None, budget.fail > 0 PROVE PendingRotation(b) /\ PendingRotation(cr)
  BY <1>0, <1>1, <1>10, StillPending, SecretOwned DEF Spared, IInv
<1>11. Spared'
  BY <1>0, <1>1, <1>3, <1>5, <1>6, <1>10 DEF Spared, Repeats
<1> QED
  BY <1>7, <1>8, <1>9, <1>11 DEF Mended

LEMMA WriteSecretOnce == ASSUME IInv, OneFault, Mended, IInv', WriteSecret PROVE Mended'
<1>a. /\ UNCHANGED <<cr, keyGroup, groups, lost, b, gid, key, stale>> /\ pc = "writeSecret"
      /\ UNCHANGED budget \/ Fault
  BY DEF WriteSecret, provVars, histVars
<1>b. SamePlan /\ budget.fail \in Nat /\ budget'.fail \in Nat
  BY <1>a, BudgetSpent DEF IInv, TypeOK
<1>0. OneFault' /\ Prompt /\ Requested /\ Cleared /\ Spared
  BY <1>b, SameFault DEF Mended
<1>1. /\ secret' = key /\ stored' = key
      /\ \/ pc' = "markReady" /\ UNCHANGED budget
         \/ pc' = "rollbackKey" /\ budget.fail > 0 /\ budget'.fail = budget.fail - 1
  BY <1>0, BudgetSpent DEF WriteSecret, SecretWritten, OneFault, Prompt, IInv
<1>2. pc' = "rollbackKey" => budget'.fail = 0
  BY <1>0, <1>b, <1>1 DEF Prompt
<1>3. LiveKeys' = LiveKeys /\ KeysOf(gid)' = KeysOf(gid)
  BY <1>a DEF LiveKeys, KeysOf
<1>4. LiveKeys = KeysOf(gid) /\ key \in KeysOf(gid) /\ LiveKeys \subseteq {key}
  BY <1>0, <1>a, ServingKeys DEF ServingSteps, Cleared
<1>5. Prompt'
  BY <1>0, <1>a, <1>b, <1>1, <1>2 DEF Prompt, ServingSteps
<1>6. Requested'
  BY <1>0, <1>a, <1>1 DEF Requested
<1>7. Cleared'
  BY <1>a, <1>1, <1>3, <1>4 DEF Cleared
<1>8. Spared'
  BY <1>1, <1>3, <1>4 DEF Spared
<1> QED
  BY <1>5, <1>6, <1>7, <1>8 DEF Mended

----------------------------------------------------------------------------
(* The ends of a pass. *)

LEMMA UnwrittenEnd ==
  ASSUME IInv, OneFault, Mended, IInv', pc # "idle", pc' = "idle",
         UNCHANGED <<cr, secret, keyGroup, lost>>, stored' \in {stored, secret},
         \/ UNCHANGED budget /\ pc \notin KeySteps \ {"markReady"}
         \/ Fault \/ Fails("crash")
  PROVE  Mended'
<1>1. /\ SamePlan
      /\ \/ UNCHANGED budget /\ pc \notin KeySteps \ {"markReady"}
         \/ budget.fail > 0 /\ budget'.fail = budget.fail - 1
  BY BudgetSpent DEF IInv
<1>2. Like(cr, cr') /\ cr.status.rotated <= cr.rotate
  BY DEF Like, IInv, TypeOK, Mended, Requested
<1> QED
  BY <1>1, <1>2, RestStep

LEMMA CrashOnce == ASSUME IInv, OneFault, Mended, IInv', Crash \/ ObjectWriteFails PROVE Mended'
<1>1. /\ pc # "idle" /\ pc' = "idle" /\ UNCHANGED <<cr, secret, keyGroup, lost>>
      /\ stored' \in {stored, secret} /\ (Fault \/ Fails("crash"))
  BY DEF Crash, ObjectWriteFails, EndPass, apiVars, secretVars, provVars, histVars
<1> QED
  BY <1>1, UnwrittenEnd

LEMMA MarkReadyOnce == ASSUME IInv, OneFault, Mended, IInv', MarkReady PROVE Mended'
<1>0. Prompt /\ Requested /\ Cleared /\ Spared
  BY DEF Mended
<1>1. /\ pc = "markReady" /\ pc' = "idle" /\ UNCHANGED <<secret, stored, keyGroup, lost, budget>>
      /\ \/ stale /\ UNCHANGED cr
         \/ ~stale /\ cr' = [cr EXCEPT !.status = ReadyStatus]
  BY DEF MarkReady, EndPass, secretVars, provVars
<1>2. CASE UNCHANGED cr
  BY <1>1, <1>2, UnwrittenEnd DEF KeySteps
<1>3. CASE ~stale /\ cr' = [cr EXCEPT !.status = ReadyStatus]
  <2>1. /\ cr.exists /\ cr \in Resource /\ b \in Resource /\ gid \in Groups \cup {None}
        /\ b.status \in Status /\ b.rotate \in 0..MaxRotations
    BY <1>1, <1>3 DEF IInv, TypeOK, Objects, Resource
  <2>2. /\ b.rotate = cr.rotate /\ b.status.rotated <= b.rotate
    BY <1>0, <1>1, <1>3, <2>1 DEF Requested
  <2>3. /\ ReadyStatus \in Status /\ ReadyStatus.rotated \in {b.rotate, b.status.rotated}
    BY <2>1, ReconcilerAssumption DEF ReadyStatus, Status, Phases, Resource
  <2>4. /\ Like(cr, cr') /\ cr'.rotate = cr.rotate /\ cr'.status = ReadyStatus
    BY <1>3, <2>1, <2>3, StatusWritten, RotationWritten
  <2>5. cr'.status.rotated <= cr'.rotate
    BY <2>1, <2>2, <2>3, <2>4 DEF Resource, Status
  <2>6. SamePlan
    BY <1>1, BudgetSpent DEF IInv
  <2> QED
    BY <1>1, <2>4, <2>5, <2>6, RestStep DEF KeySteps
<1> QED
  BY <1>1, <1>2, <1>3

LEMMA FailPassOnce == ASSUME IInv, OneFault, Mended, IInv', FailPass PROVE Mended'
<1>0. Prompt /\ Requested /\ Cleared /\ Spared
  BY DEF Mended
<1>1. PICK st \in FailureStatuses :
        \/ cr' = (IF stale THEN cr ELSE [cr EXCEPT !.status = st]) /\ UNCHANGED budget
        \/ Fault /\ UNCHANGED cr
  BY DEF FailPass
<1>2. /\ pc = "fail" /\ pc' = "idle" /\ UNCHANGED <<secret, stored, keyGroup, lost>>
  BY DEF FailPass, EndPass, secretVars, provVars, histVars
<1>3. st \in Status /\ st.rotated = b.status.rotated
  <2>1. b.status \in Status /\ b.generation \in Nat
    BY DEF IInv, TypeOK, Resource
  <2>2. FailedStatus \in Status /\ FailedStatus.rotated = b.status.rotated
    BY <2>1 DEF FailedStatus, Status, Phases
  <2>3. /\ [b.status EXCEPT !.degraded = TRUE] \in Status
        /\ [b.status EXCEPT !.degraded = TRUE].rotated = b.status.rotated
    BY <2>1 DEF Status
  <2>4. st = FailedStatus \/ st = [b.status EXCEPT !.degraded = TRUE]
    BY <1>1 DEF FailureStatuses
  <2> QED
    BY <2>2, <2>3, <2>4
<1>4. CASE UNCHANGED cr
  BY <1>1, <1>2, <1>4, UnwrittenEnd DEF KeySteps
<1>5. CASE ~stale /\ cr' = [cr EXCEPT !.status = st] /\ UNCHANGED budget
  <2>1. SameRotation(cr, cr')
    BY <1>0, <1>2, <1>3, <1>5, StatusRewritten
  <2>2. Like(cr, cr')
    BY <1>3, <1>5, StatusWritten DEF IInv, TypeOK
  <2>3. cr'.status.rotated <= cr'.rotate
    BY <1>0, <2>1 DEF Requested, SameRotation
  <2>4. SamePlan
    BY <1>5, BudgetSpent DEF IInv
  <2> QED
    BY <1>2, <1>5, <2>1, <2>2, <2>3, <2>4, RestStep DEF SameRotation, KeySteps
<1> QED
  BY <1>1, <1>4, <1>5 DEF IInv, TypeOK

----------------------------------------------------------------------------
(* Teardown and failing calls. *)

LEMMA MarkDeletingOnce == ASSUME IInv, OneFault, Mended, IInv', MarkDeleting PROVE Mended'
<1>0. Prompt /\ Requested /\ Cleared /\ Spared
  BY DEF Mended
<1>1. /\ pc = "markDeleting" /\ UNCHANGED <<secret, stored, keyGroup, lost, budget>>
  BY DEF MarkDeleting, Goto, secretVars, provVars, histVars
<1>2. CASE pc' = "findBucket" /\ UNCHANGED <<cr, b, stale>>
  <2>1. SameSide
    BY <1>1, <1>2 DEF SameSide, TeardownSteps
  <2> QED
    BY <1>1, <1>2, <2>1, CallStep, SelfRotation DEF KeySteps
<1>3. CASE pc' = "idle" /\ UNCHANGED cr
  BY <1>1, <1>3, UnwrittenEnd DEF KeySteps
<1>4. CASE /\ ~stale /\ pc' = "findBucket" /\ UNCHANGED stale
           /\ b' = [b EXCEPT !.status.phase = "Deleting"]
           /\ cr' = [cr EXCEPT !.status = b'.status]
  <2> DEFINE st == [b.status EXCEPT !.phase = "Deleting"]
  <2>1. /\ st \in Status /\ st.rotated = b.status.rotated /\ b'.status = st
        /\ SameRotation(b, b') /\ cr \in Resource
    BY <1>4 DEF IInv, TypeOK, Resource, Status, Phases, SameRotation
  <2> HIDE DEF st
  <2>2. SameRotation(cr, cr') /\ Like(cr, cr')
    BY <1>0, <1>1, <1>4, <2>1, StatusRewritten, StatusWritten
  <2>3. SamePlan /\ budget'.fail <= budget.fail
    BY <1>1, BudgetSpent DEF IInv
  <2>4. "findBucket" \notin ProvisioningSteps \cup {"addFinalizer"}
    BY DEF ProvisioningSteps, ServingSteps
  <2> QED
    BY <1>1, <1>4, <2>1, <2>2, <2>3, <2>4, QuietStep DEF KeySteps, Like
<1> QED
  BY <1>2, <1>3, <1>4 DEF MarkDeleting, Goto, EndPass, passVars

LEMMA TeardownCallOnce ==
  ASSUME IInv, OneFault, Mended, IInv',
         \/ FindBucket \/ PrepareDelete \/ WipeBucket \/ ReleaseGroup \/ ReleaseStamp
         \/ DeleteGroup \/ CheckOwner \/ DeleteBucket
  PROVE  Mended'
<1>1. /\ UNCHANGED <<cr, secret, stored, keyGroup, lost, stale, b>>
      /\ UNCHANGED budget \/ Fault
  BY DEF FindBucket, PrepareDelete, WipeBucket, ReleaseGroup, ReleaseStamp, DeleteGroup, CheckOwner,
         DeleteBucket, NewLook, Goto, FailWith, Applied, apiVars, secretVars, provVars, histVars
<1>2. /\ pc \in {"findBucket", "prepareDelete", "wipe", "releaseGroup", "releaseStamp",
                  "deleteGroup", "checkOwner", "deleteBucket"}
      /\ pc' \in {"prepareDelete", "wipe", "releaseGroup", "releaseStamp", "drainKeys",
                  "checkOwner", "deleteBucket", "deleteSecret", "fail"}
  BY DEF FindBucket, PrepareDelete, WipeBucket, ReleaseGroup, ReleaseStamp, DeleteGroup, CheckOwner,
         DeleteBucket, Goto, FailWith, Applied
<1>3. SameSide
  BY <1>2 DEF SameSide, TeardownSteps
<1> QED
  BY <1>1, <1>2, <1>3, CallStep, SelfRotation DEF KeySteps

LEMMA DeleteSecretOnce == ASSUME IInv, OneFault, Mended, IInv', DeleteSecret PROVE Mended'
<1>1. /\ pc = "deleteSecret" /\ pc' \in {"dropFinalizer", "fail"}
      /\ UNCHANGED <<cr, keyGroup, lost, b, stale>>
      /\ UNCHANGED budget \/ Fault
  BY DEF DeleteSecret, provVars, histVars
<1>2. SamePlan /\ budget.fail \in Nat /\ budget'.fail \in Nat /\ budget'.fail <= budget.fail
  BY <1>1, BudgetSpent DEF IInv, TypeOK
<1>0. OneFault' /\ Prompt /\ Requested /\ Cleared /\ Spared
  BY <1>2, SameFault DEF Mended
<1>3. secret' = None /\ stored' = None
  BY <1>0 DEF DeleteSecret, SecretWritten, secretVars, OneFault, Prompt
<1>4. Prompt'
  BY <1>0, <1>1, <1>2, <1>3 DEF Prompt, ServingSteps
<1>5. Requested'
  BY <1>0, <1>1 DEF Requested
<1>6. Cleared' /\ Spared'
  BY <1>1, <1>3 DEF Cleared, Spared
<1> QED
  BY <1>4, <1>5, <1>6 DEF Mended

LEMMA DropFinalizerOnce == ASSUME IInv, OneFault, Mended, IInv', DropFinalizer PROVE Mended'
<1>1. /\ pc = "dropFinalizer" /\ pc' = "idle"
      /\ UNCHANGED <<secret, stored, keyGroup, lost, budget>>
      /\ UNCHANGED cr \/ cr' = NoResource
  BY DEF DropFinalizer, EndPass, secretVars, provVars, histVars
<1>2. secret = None
  BY <1>1 DEF IInv, Kept
<1>3. CASE UNCHANGED cr
  BY <1>1, <1>3, UnwrittenEnd DEF KeySteps
<1>4. CASE cr' = NoResource
  <2>1. Requested'
    BY <1>1, <1>4 DEF Requested, NoResource, NewResource, NewStatus
  <2>2. Prompt'
    BY <1>1 DEF Mended, Prompt, ServingSteps
  <2>3. Cleared' /\ Spared'
    BY <1>1, <1>2 DEF Cleared, Spared
  <2> QED
    BY <2>1, <2>2, <2>3 DEF Mended
<1> QED
  BY <1>1, <1>3, <1>4

LEMMA CallFailsOnce == ASSUME IInv, OneFault, Mended, IInv', CallFails PROVE Mended'
<1>1. /\ UNCHANGED <<cr, secret, stored, keyGroup, lost, stale, b, key, gid, groups>>
      /\ Fault /\ pc' = ErrorPath /\ pc # "idle"
  BY DEF CallFails, ProviderCalls, apiVars, secretVars, provVars, histVars
<1>2. SamePlan /\ budget.fail > 0 /\ budget'.fail = budget.fail - 1
  BY <1>1, BudgetSpent DEF IInv
<1>3. pc # "rollbackKey"
  BY <1>2 DEF Mended, Prompt
<1>4. \/ pc' = "fail" /\ pc \notin {"writeSecret", "rollbackKey"}
      \/ pc' = "rollbackKey" /\ pc = "writeSecret"
      \/ pc' = "rollbackGroup" /\ pc = "stamp"
  BY <1>1, <1>3 DEF ErrorPath, StampError
<1> QED
  BY <1>1, <1>2, <1>4, FaultStep

LEMMA TargetGoneOnce == ASSUME IInv, OneFault, Mended, IInv', TargetGone PROVE Mended'
<1>1. /\ UNCHANGED <<cr, secret, stored, keyGroup, lost, stale, b, budget>> /\ pc' = ErrorPath
  BY DEF TargetGone, apiVars, secretVars, provVars, histVars
<1>2. pc \in BucketCalls
  BY DEF TargetGone, Mended, Prompt, ServingSteps
<1>3. pc' = "fail" \/ (pc' = "rollbackGroup" /\ pc = "stamp")
  BY <1>1, <1>2 DEF ErrorPath, StampError, BucketCalls
<1>4. SameSide
  BY <1>2, <1>3 DEF SameSide, BucketCalls, ProvisioningSteps
<1> QED
  BY <1>1, <1>2, <1>3, <1>4, CallStep, SelfRotation DEF KeySteps, BucketCalls

----------------------------------------------------------------------------
\* An edit of the Bucket, beside a pass or between two.
LEMMA EditOnce ==
  ASSUME IInv, OneFault, Mended, IInv', NEW kind, NEW new, Edit(kind, new),
         \/ /\ new.exists /\ new.rotate >= cr.rotate /\ new.status = cr.status
            /\ cr.deleting => new.deleting
         \/ new = NoResource
  PROVE  Mended'
<1>1. /\ CloudKept /\ SamePlan /\ UNCHANGED stored /\ cr.exists /\ cr' = new
      /\ stale' = (pc # "idle")
  BY EditFrame
<1>2. budget'.fail = budget.fail
  BY DEF Edit, IInv, TypeOK
<1>3. ~NoResource.exists /\ NoResource.status.rotated <= NoResource.rotate
  BY DEF NoResource, NewResource, NewStatus
<1>4. /\ UNCHANGED <<pc, b, key, gid, drain, keyGroup, lost, groups, secret, stored>>
      /\ stale' \/ pc = "idle"
  BY <1>1 DEF CloudKept
<1>5. /\ cr'.exists => /\ cr.exists /\ cr'.rotate >= cr.rotate /\ cr'.status = cr.status
                       /\ cr.deleting => cr'.deleting
      /\ ~cr'.exists => cr'.status.rotated <= cr'.rotate
  BY <1>1, <1>3
<1> QED
  BY <1>1, <1>2, <1>4, <1>5, BesideStep

LEMMA UserOnce ==
  ASSUME IInv, OneFault, Mended, IInv',
         UserRotates \/ UserEditsSpec \/ UserAllowsWipe \/ UserDeletes \/ UsagePatch
  PROVE  Mended'
<1>1. cr \in Resource
  BY DEF IInv, TypeOK
<1>2. CASE UserRotates
  <2>1. Edit("rotate", [cr EXCEPT !.rotate = @ + 1]) /\ cr.exists
    BY <1>2 DEF UserRotates, Edit
  <2>2. LET new == [cr EXCEPT !.rotate = @ + 1]
        IN  new.exists /\ new.rotate >= cr.rotate /\ new.status = cr.status /\ new.deleting = cr.deleting
    BY <1>1, <2>1 DEF Resource
  <2> QED
    BY <2>1, <2>2, EditOnce
<1>3. CASE UserEditsSpec
  <2>1. PICK allow \in BOOLEAN, faulty \in BOOLEAN :
          Edit("spec", [cr EXCEPT !.allowRecreate = allow, !.faulty = faulty, !.generation = @ + 1])
    BY <1>3 DEF UserEditsSpec
  <2>2. LET new == [cr EXCEPT !.allowRecreate = allow, !.faulty = faulty, !.generation = @ + 1]
        IN  new.exists /\ new.rotate >= cr.rotate /\ new.status = cr.status /\ new.deleting = cr.deleting
    BY <1>1, <2>1 DEF Resource, Edit
  <2> QED
    BY <2>1, <2>2, EditOnce
<1>4. CASE UserAllowsWipe
  <2>1. Edit("wipe", [cr EXCEPT !.wipe = TRUE, !.generation = @ + 1]) /\ cr.exists
    BY <1>4 DEF UserAllowsWipe, Edit
  <2>2. LET new == [cr EXCEPT !.wipe = TRUE, !.generation = @ + 1]
        IN  new.exists /\ new.rotate >= cr.rotate /\ new.status = cr.status /\ new.deleting = cr.deleting
    BY <1>1, <2>1 DEF Resource
  <2> QED
    BY <2>1, <2>2, EditOnce
<1>5. CASE UserDeletes
  <2>1. PICK new \in {[cr EXCEPT !.deleting = TRUE, !.generation = @ + 1], NoResource} : Edit("delete", new)
    BY <1>5 DEF UserDeletes
  <2>2. CASE new = [cr EXCEPT !.deleting = TRUE, !.generation = @ + 1]
    <3>1. new.exists /\ new.rotate >= cr.rotate /\ new.status = cr.status /\ new.deleting
      BY <1>1, <2>1, <2>2 DEF Resource, Edit
    <3> QED
      BY <2>1, <3>1, EditOnce
  <2>3. CASE new = NoResource
    BY <2>1, <2>3, EditOnce
  <2> QED
    BY <2>1, <2>2, <2>3
<1>6. CASE UsagePatch
  <2>1. Edit("usage", cr) /\ cr.exists
    BY <1>6 DEF UsagePatch, Edit
  <2>2. cr.rotate >= cr.rotate
    BY <1>1 DEF Resource
  <2> QED
    BY <2>1, <2>2, EditOnce
<1> QED
  BY <1>2, <1>3, <1>4, <1>5, <1>6

\* The other steps beside the passes: with no lag and nothing but a foreign bucket
\* to disturb, they touch neither the keys nor the Bucket.
LEMMA OthersOnce ==
  ASSUME IInv, OneFault, Mended, IInv',
         \/ CacheSync \/ SecretSync \/ UserDeletesSecret \/ KeyDeleted \/ GroupDeleted
         \/ BucketDeleted \/ ForeignCreates \/ ForeignClaims \/ RotationRetracted
         \/ WorkloadWrites \/ Settle \/ UNCHANGED vars
  PROVE  Mended'
<1>0. Requested /\ stored = secret /\ Lags = {}
  BY DEF Mended, Prompt, OneFault
<1>1. \A kind : kind # "foreign" => ~Disturb(kind)
  BY DEF Disturb, OneFault
<1>2. ~(SecretSync \/ KeyDeleted \/ GroupDeleted \/ BucketDeleted \/ RotationRetracted)
  BY <1>0, <1>1 DEF SecretSync, KeyDeleted, GroupDeleted, BucketDeleted, RotationRetracted
<1>3. /\ UNCHANGED <<pc, b, key, gid, drain, keyGroup, lost, groups, cr, stale>>
      /\ \/ UNCHANGED <<secret, stored>>
         \/ secret' = None /\ stored' = None
  <2>1. CASE CacheSync \/ WorkloadWrites \/ Settle \/ UNCHANGED vars
    BY <2>1 DEF CacheSync, WorkloadWrites, ComesBehind, Settle, vars, apiVars, secretVars, provVars,
                passVars, histVars
  <2>2. CASE ForeignCreates \/ ForeignClaims
    BY <2>2 DEF ForeignCreates, ForeignClaims, ComesBehind, apiVars, secretVars, passVars
  <2>3. CASE UserDeletesSecret
    BY <1>0, <2>3 DEF UserDeletesSecret, SecretWritten, provVars, passVars, histVars
  <2> QED
    BY <1>2, <2>1, <2>2, <2>3
<1>4. SamePlan /\ budget'.fail = budget.fail
  <2>1. \/ UNCHANGED budget
        \/ budget' = [budget EXCEPT !.edit = @ - 1] /\ budget.edit > 0
        \/ budget' = [budget EXCEPT !.disturb = @ - 1] /\ budget.disturb > 0
    BY <1>2 DEF CacheSync, WorkloadWrites, Settle, vars, ForeignCreates, ForeignClaims, Disturb,
                UserDeletesSecret
  <2> QED
    BY <2>1 DEF IInv, TypeOK, SamePlan, Budgets
<1>5. /\ cr'.exists => /\ cr.exists /\ cr'.rotate >= cr.rotate /\ cr'.status = cr.status
                       /\ cr.deleting => cr'.deleting
                       /\ stale' \/ (cr' = cr /\ stale' = stale) \/ pc = "idle"
      /\ ~cr'.exists => cr'.status.rotated <= cr'.rotate
  BY <1>0, <1>3 DEF Requested, IInv, TypeOK, Resource
<1> QED
  BY <1>3, <1>4, <1>5, BesideStep

----------------------------------------------------------------------------
\* Every step of the system stays within the plan of its behaviour.
LEMMA PlanKept == ASSUME IInv, [Next]_vars PROVE SamePlan
<1> DEFINE Moved == \/ UNCHANGED budget \/ Fault \/ Fails("crash")
                    \/ budget' = [budget EXCEPT !.edit = @ - 1] /\ budget.edit > 0
                    \/ budget' = [budget EXCEPT !.disturb = @ - 1] /\ budget.disturb > 0
<1>1. ASSUME StartPass \/ AddFinalizer \/ PersistName \/ MarkProvisioning \/ GuardBucketPresent
             \/ HasBucket \/ CreateBucket \/ TagNew \/ AdoptOrCollide \/ Claim
      PROVE  Moved
  BY <1>1 DEF StartPass, AddFinalizer, PersistName, MarkProvisioning, GuardBucketPresent, HasBucket,
              CreateBucket, TagNew, AdoptOrCollide, Claim, Goto, FailWith, Applied, EndPass
<1>2. ASSUME ResolveGroup \/ CreateGroup \/ Stamp \/ RollbackGroup \/ EnsurePolicy \/ DecideKey
             \/ ClearKeys \/ CreateKey \/ WriteSecret \/ RollbackKey \/ MarkReady \/ FailPass
      PROVE  Moved
  BY <1>2 DEF ResolveGroup, CreateGroup, Stamp, RollbackGroup, EnsurePolicy, DecideKey, ClearKeys,
              CreateKey, WriteSecret, RollbackKey, MarkReady, FailPass,
              PublishGroup, Goto, FailWith, Applied, EndPass
<1>3. ASSUME Teardown PROVE Moved
  BY <1>3 DEF Teardown, MarkDeleting, FindBucket, PrepareDelete, WipeBucket, ReleaseGroup, ReleaseStamp,
              DeleteGroup, CheckOwner, DeleteBucket, DeleteSecret, DropFinalizer,
              Goto, FailWith, Applied, EndPass
<1>4. ASSUME Failing \/ Environment \/ UNCHANGED vars PROVE Moved
  BY <1>4 DEF Failing, CallFails, ObjectWriteFails, TargetGone, Environment, Crash, CacheSync, SecretSync,
              UserRotates, UserEditsSpec, UserAllowsWipe, UserDeletes, UsagePatch, UserDeletesSecret, Edit,
              KeyDeleted, GroupDeleted, BucketDeleted, ForeignCreates, ForeignClaims,
              RotationRetracted, WorkloadWrites, Settle, Disturb, vars
<1>5. Moved
  BY <1>1, <1>2, <1>3, <1>4 DEF Next, Operator, Provision
<1> QED
  BY <1>5, BudgetSpent DEF IInv, TypeOK, SamePlan, Budgets

LEMMA OperatorOnce == ASSUME IInv, OneFault, Mended, IInv', Operator PROVE Mended'
<1>1. ASSUME Provision PROVE Mended'
  BY <1>1, StartPassOnce, AddFinalizerOnce, PersistNameOnce, MarkProvisioningOnce, BucketCallOnce,
     ResolveGroupOnce, CreateGroupOnce, StampOnce, DecideKeyOnce, ClearKeysOnce, CreateKeyOnce,
     WriteSecretOnce, RollbackKeyOnce, MarkReadyOnce, FailPassOnce
     DEF Provision
<1>2. ASSUME Teardown PROVE Mended'
  BY <1>2, MarkDeletingOnce, TeardownCallOnce, DeleteSecretOnce, DropFinalizerOnce DEF Teardown
<1> QED
  BY <1>1, <1>2, CallFailsOnce, TargetGoneOnce, CrashOnce DEF Operator, Failing

LEMMA MendedStep == ASSUME IInv, Mended, [Next]_vars PROVE Mended'
<1>1. IInv' /\ (OneFault' <=> OneFault)
  BY NextStep, PlanKept, SameFault
<1>2. CASE OneFault
  BY <1>1, <1>2, OperatorOnce, CrashOnce, UserOnce, OthersOnce DEF Next, Environment
<1>3. CASE ~OneFault
  BY <1>1, <1>3 DEF Mended
<1> QED
  BY <1>2, <1>3

LEMMA InitMended == ASSUME Init PROVE Mended
<1>1. PICK plan \in DOMAIN Plans : \E start \in Plans[plan].starts :
        LET first == IF start = "new" THEN None ELSE 1
        IN  /\ cr = InitialCR(start)
            /\ secret = (IF start \in {"legacy", "recreatable"} THEN 1 ELSE None)
            /\ keyGroup = [k \in Keys |-> IF k = 1 THEN first ELSE None]
            /\ budget = [plan |-> plan, fail |-> Plans[plan].maxFailures,
                         edit |-> Plans[plan].maxEdits, disturb |-> Plans[plan].maxDisturbances]
  BY DEF Init
<1>2. PICK start \in Plans[plan].starts :
        LET first == IF start = "new" THEN None ELSE 1
        IN  /\ cr = InitialCR(start)
            /\ secret = (IF start \in {"legacy", "recreatable"} THEN 1 ELSE None)
            /\ keyGroup = [k \in Keys |-> IF k = 1 THEN first ELSE None]
            /\ budget = [plan |-> plan, fail |-> Plans[plan].maxFailures,
                         edit |-> Plans[plan].maxEdits, disturb |-> Plans[plan].maxDisturbances]
  BY <1>1
<1>3. stored = secret /\ lost = "never" /\ pc = "idle"
  BY DEF Init
<1>4. start \in StartKinds
  BY ReconcilerAssumption DEF Plan
<1>5. cr.status.rotated = 0 /\ cr.rotate = 0
  BY <1>2, <1>4 DEF InitialCR, ReadyResource, NewResource, NewStatus, StartKinds
<1>6. secret # None => LiveKeys = {1} /\ secret = 1
  BY <1>2, Constants DEF LiveKeys, None
<1>7. OneFault => Prompt
  BY <1>2, <1>3 DEF OneFault, Prompt, ServingSteps
<1>8. Requested /\ Cleared
  BY <1>3, <1>5 DEF Requested, Cleared
<1>9. Spared
  BY <1>3, <1>6 DEF Spared
<1> QED
  BY <1>7, <1>8, <1>9 DEF Mended

----------------------------------------------------------------------------
(* A bucket that vanished, and what the status remembers of it. *)

\* Nobody deletes a group by hand, the provider's reads do not lag, and a Bucket whose
\* informer may be behind was Ready when the operator started.
Remembering ==
  /\ ~Lag /\ "group" \notin Disturbances
  /\ "buckets" \notin Lags \/ Plans[budget.plan].starts \cap {"new", "foreign"} = {}

\* The status knows that the bucket was there, and names a group that still is.
Remembers(r) == r.status.resolved /\ r.status.group \in groups

\* A Bucket that was Ready remembers, in every copy a provisioning pass works from.
Remembered ==
  readyInc # 0 =>
    /\ (cr.exists /\ ~cr.deleting) => Remembers(cr)
    /\ ("buckets" \in Lags /\ cache.exists /\ ~cache.deleting) => Remembers(cache)
    /\ (pc # "idle" /\ ~b.deleting) => Remembers(b)

\* A group this pass made and may roll back is in no status.
NewGroup ==
  (pc = "rollbackGroup" \/ (pc = "stamp" /\ made)) =>
    gid \notin {None, b.status.group, cr.status.group, cache.status.group}

GroupSteps == {"stamp", "ensurePolicy"} \cup ServingSteps

\* The copy a pass works from says what kind of pass it is, and asked for what the
\* guard let through.
Directed ==
  /\ pc \in ProvisioningSteps \cup {"addFinalizer"} => ~b.deleting
  /\ (pc # "idle" /\ b.deleting) => (cr.exists => cr.deleting) /\ (cache.exists => cache.deleting)
  /\ recreate => b.allowRecreate
  /\ pc = "idle" => ~recreate

\* A bucket of ours that is neither the one last Ready nor reported as re-created.
Unreported == Ours /\ bucket.inc \notin {readyInc, reported}

AttributingSteps == {"createGroup", "rollbackGroup", "releaseStamp"} \cup GroupSteps

\* The steps before a pass tags a bucket of its own.
UntaggedSteps ==
  {"idle", "addFinalizer", "persistName", "markProvisioning", "guardPresent", "hasBucket",
   "createBucket", "tagNew", "adopt", "claim"}

\* The guard has seen the loss before the bucket is made, and an unreported bucket
\* gets no group: a pass that finds it finds the group of its status alive, too.
Noticed ==
  /\ pc \in UntaggedSteps => ~fresh
  /\ (readyInc # 0 /\ lost # "during") =>
       /\ (pc \in {"hasBucket", "createBucket"} /\ bucket.inc = 0) => recreate
       /\ pc = "tagNew" => recreate
       /\ fresh => ~Unreported
       /\ Unreported => bucket.group = None /\ policy = None /\ pc \notin AttributingSteps

Traced ==
  Remembering =>
    /\ "buckets" \in Lags => readyInc # 0
    /\ pc \in GroupSteps => gid \in groups
    /\ Remembered /\ NewGroup /\ Directed /\ Noticed

----------------------------------------------------------------------------
LEMMA SameMemory ==
  ASSUME SamePlan
  PROVE  (Remembering' <=> Remembering) /\ Lags' = Lags
BY SamePlanKeeps DEF SamePlan, Remembering, Lags, Lag, Disturbances

\* A step that leaves the bucket and what is known of it alone.
LEMMA NoticedStep ==
  ASSUME Noticed, UNCHANGED <<readyInc, reported, lost, policy, fresh>>,
         bucket'.inc = bucket.inc, bucket'.owner = bucket.owner, bucket'.group = bucket.group,
         pc' # "tagNew" \/ pc = "tagNew",
         pc' \in {"hasBucket", "createBucket"} => pc \in {"hasBucket", "createBucket"},
         recreate' = recreate \/ pc' = "idle",
         pc' \in AttributingSteps => pc \in AttributingSteps,
         pc' \in UntaggedSteps => pc \in UntaggedSteps
  PROVE  Noticed'
<1>1. Unreported' <=> Unreported
  BY DEF Unreported, Ours
<1> QED
  BY <1>1 DEF Noticed, AttributingSteps, GroupSteps, ServingSteps

\* A call of a pass, which leaves the Bucket alone.
LEMMA CallTraced ==
  ASSUME IInv, Remembering, Traced, SamePlan, Noticed',
         UNCHANGED <<cr, cache, readyInc, b, recreate>>,
         groups \subseteq groups', pc # "idle", pc' # "idle", SameSide,
         pc' \in GroupSteps => gid' \in groups',
         (pc' = "rollbackGroup" \/ (pc' = "stamp" /\ made')) =>
           gid' \notin {None, b.status.group, cr.status.group, cache.status.group}
  PROVE  Traced'
<1>0. /\ Remembering' /\ Lags' = Lags
      /\ "buckets" \in Lags => readyInc # 0
      /\ Remembered /\ Directed
  BY SameMemory DEF Traced
<1>1. pc' \in ProvisioningSteps \cup {"addFinalizer"} => pc \in ProvisioningSteps
  BY DEF SameSide, ProvisioningSteps, TeardownSteps, ServingSteps
<1>2. Remembered'
  BY <1>0 DEF Remembered, Remembers
<1>3. NewGroup'
  BY DEF NewGroup
<1>4. Directed'
  BY <1>0, <1>1 DEF Directed
<1> QED
  BY <1>0, <1>2, <1>3, <1>4 DEF Traced

\* The pass ends.
LEMMA EndTraced ==
  ASSUME IInv, Remembering, Traced, SamePlan, NEW requeue, EndPass(requeue),
         UNCHANGED <<groups, bucket, policy, reported, lost>>, cache' \in {cache, cr},
         \/ UNCHANGED readyInc
         \/ readyInc' = bucket.inc /\ bucket.inc # 0,
         (readyInc' # 0 /\ cr'.exists /\ ~cr'.deleting) => Remembers(cr)'
  PROVE  Traced'
<1>0. /\ Remembering' /\ Lags' = Lags
      /\ "buckets" \in Lags => readyInc # 0
      /\ Remembered /\ Directed /\ Noticed
  BY SameMemory DEF Traced
<1>1. /\ pc' = "idle" /\ recreate' = FALSE /\ fresh' = FALSE
  BY DEF EndPass
<1>2. bucket.inc \in Nat /\ readyInc \in Nat
  BY DEF IInv, TypeOK, Cloud
<1>3. Remembered'
  <2>1. ASSUME cache'.exists, ~cache'.deleting, "buckets" \in Lags PROVE Remembers(cache)'
    <3>1. readyInc # 0
      BY <1>0, <2>1
    <3>2. CASE cache' = cache
      BY <1>0, <2>1, <3>1, <3>2 DEF Remembered, Remembers
    <3>3. CASE cache' = cr
      BY <1>0, <2>1, <3>1, <3>3 DEF Remembered, Remembers
    <3> QED
      BY <3>2, <3>3
  <2> QED
    BY <1>0, <1>1, <2>1 DEF Remembered
<1>4. NewGroup'
  BY <1>1 DEF NewGroup
<1>5. Directed'
  BY <1>1 DEF Directed, ProvisioningSteps, ServingSteps
<1>6. Noticed'
  <2>1. Unreported' => (Unreported /\ (readyInc # 0 => UNCHANGED readyInc))
    BY <1>2 DEF Unreported, Ours
  <2>2. Unreported' => UNCHANGED readyInc
    BY <1>2 DEF Unreported, Ours
  <2> QED
    BY <1>0, <1>1, <2>1, <2>2 DEF Noticed, AttributingSteps, GroupSteps, ServingSteps
<1>7. pc' \notin GroupSteps /\ ("buckets" \in Lags' => readyInc' # 0)
  BY <1>0, <1>1 DEF GroupSteps, ServingSteps
<1> QED
  BY <1>0, <1>3, <1>4, <1>5, <1>6, <1>7 DEF Traced

\* The pass ends without writing the Bucket.
LEMMA EndUnwritten ==
  ASSUME IInv, Remembering, Traced, SamePlan, NEW requeue, EndPass(requeue),
         UNCHANGED <<cr, groups, bucket, policy, readyInc, reported, lost>>, cache' \in {cache, cr}
  PROVE  Traced'
<1>1. (readyInc' # 0 /\ cr'.exists /\ ~cr'.deleting) => Remembers(cr)'
  BY DEF Traced, Remembered, Remembers
<1> QED
  BY <1>1, EndTraced

\* What others do beside a pass.
LEMMA BesideTraced ==
  ASSUME IInv, Remembering, Traced, SamePlan, Noticed',
         UNCHANGED <<groups, readyInc, pc, b, recreate, gid, made>>,
         cache' \in {cache, cr},
         \/ UNCHANGED cr \/ cr' = NoResource
         \/ cr.exists /\ cr'.status = cr.status /\ (cr.deleting => cr'.deleting)
  PROVE  Traced'
<1>0. /\ Remembering' /\ Lags' = Lags
      /\ "buckets" \in Lags => readyInc # 0
      /\ pc \in GroupSteps => gid \in groups
      /\ Remembered /\ Directed /\ NewGroup
  BY SameMemory DEF Traced
<1>1. ~NoResource.exists /\ NoResource.status.group = None
  BY DEF NoResource, NewResource, NewStatus
<1>2. /\ cr'.exists /\ ~cr'.deleting => cr.exists /\ ~cr.deleting /\ cr'.status = cr.status
      /\ cr'.exists => cr.exists /\ (cr.deleting => cr'.deleting)
      /\ cr'.status.group \in {None, cr.status.group}
  BY <1>1 DEF IInv, TypeOK, Resource
<1>3. Remembered'
  BY <1>0, <1>2 DEF Remembered, Remembers
<1>4. NewGroup'
  BY <1>0, <1>2 DEF NewGroup
<1>5. Directed'
  BY <1>0, <1>2 DEF Directed
<1> QED
  BY <1>0, <1>3, <1>4, <1>5 DEF Traced

\* A step of a pass that may write the Bucket or its own copy, and stamps nothing next.
LEMMA WriteTraced ==
  ASSUME IInv, Remembering, Traced, SamePlan, Noticed',
         UNCHANGED <<cache, readyInc, recreate, groups>>,
         pc # "idle", pc' # "idle", pc' \notin {"stamp", "rollbackGroup"},
         pc' \in ProvisioningSteps \cup {"addFinalizer"} => pc \in ProvisioningSteps \cup {"addFinalizer"},
         pc' \in GroupSteps => gid' \in groups',
         b'.deleting = b.deleting, b'.allowRecreate = b.allowRecreate,
         b'.status.resolved = b.status.resolved,
         b'.status.group = b.status.group \/ b'.status.group \in groups,
         cr'.exists = cr.exists, cr'.deleting = cr.deleting,
         \/ cr'.status = cr.status
         \/ cr'.status.resolved = b'.status.resolved /\ cr'.status.group = b'.status.group
  PROVE  Traced'
<1>0. /\ Remembering' /\ Lags' = Lags
      /\ "buckets" \in Lags => readyInc # 0
      /\ Remembered /\ Directed
  BY SameMemory DEF Traced
<1>1. Remembered'
  <2>1. ASSUME readyInc # 0, ~b.deleting PROVE Remembers(b)'
    BY <1>0, <2>1 DEF Remembered, Remembers
  <2>2. ASSUME readyInc # 0, cr.exists, ~cr.deleting PROVE Remembers(cr)'
    <3>1. ~b.deleting
      BY <1>0, <2>2 DEF Directed
    <3> QED
      BY <1>0, <2>1, <2>2, <3>1 DEF Remembered, Remembers
  <2>3. ASSUME readyInc # 0, "buckets" \in Lags, cache.exists, ~cache.deleting PROVE Remembers(cache)'
    BY <1>0, <2>3 DEF Remembered, Remembers
  <2> QED
    BY <1>0, <2>1, <2>2, <2>3 DEF Remembered
<1>2. NewGroup'
  BY DEF NewGroup
<1>3. Directed'
  BY <1>0 DEF Directed
<1> QED
  BY <1>0, <1>1, <1>2, <1>3 DEF Traced

----------------------------------------------------------------------------
LEMMA PublishedStatus ==
  ASSUME NEW r \in Resource, NEW g \in Groups \cup {None}
  PROVE  LET new == [r EXCEPT !.status.group = g]
         IN  /\ new.deleting = r.deleting /\ new.allowRecreate = r.allowRecreate
             /\ new.status.resolved = r.status.resolved /\ new.status.group = g
BY DEF Resource, Status

LEMMA StartPassTraced == ASSUME IInv, Remembering, Traced, StartPass PROVE Traced'
<1>1. /\ UNCHANGED <<cr, cache, groups, bucket, policy, readyInc, reported, lost, fresh, recreate, made,
                     gid, budget>>
      /\ pc = "idle" /\ b' = cache /\ cache.exists
      /\ "buckets" \in Lags \/ cache = cr
      /\ pc' = IF cache.deleting THEN "markDeleting"
               ELSE IF cache.finalizer THEN "persistName" ELSE "addFinalizer"
  BY DEF StartPass, NewLook, apiVars, provVars
<1>2. SamePlan
  BY <1>1, BudgetSpent DEF IInv
<1>0. /\ Remembering' /\ Lags' = Lags
      /\ "buckets" \in Lags => readyInc # 0
      /\ Remembered /\ Directed /\ Noticed
  BY <1>2, SameMemory DEF Traced
<1>3. /\ pc' \in {"markDeleting", "persistName", "addFinalizer"}
      /\ pc' \in ProvisioningSteps \cup {"addFinalizer"} => ~cache.deleting
  BY <1>1 DEF ProvisioningSteps, ServingSteps
<1>4. Remembered'
  BY <1>0, <1>1 DEF Remembered, Remembers
<1>5. NewGroup' /\ pc' \notin GroupSteps
  BY <1>3 DEF NewGroup, GroupSteps, ServingSteps
<1>6. Directed'
  <2>1. cache.deleting => (cr.exists => cr.deleting)
    BY DEF IInv, Objects
  <2> QED
    BY <1>0, <1>1, <1>3, <2>1 DEF Directed
<1>7. Noticed'
  <2>1. pc' \notin AttributingSteps /\ pc \in UntaggedSteps
    BY <1>1, <1>3 DEF AttributingSteps, GroupSteps, ServingSteps, UntaggedSteps
  <2> QED
    BY <1>0, <1>1, <1>3, <2>1, NoticedStep
<1> QED
  BY <1>0, <1>1, <1>4, <1>5, <1>6, <1>7 DEF Traced

LEMMA AddFinalizerTraced == ASSUME IInv, Remembering, Traced, AddFinalizer PROVE Traced'
<1>1. /\ UNCHANGED <<groups, bucket, policy, readyInc, reported, lost, cache, budget>>
      /\ pc = "addFinalizer"
  BY DEF AddFinalizer, Goto, EndPass, provVars, histVars
<1>2. SamePlan /\ Noticed
  BY <1>1, BudgetSpent DEF IInv, Traced
<1>3. CASE stale
  <2>1. EndPass(TRUE) /\ UNCHANGED cr
    BY <1>3 DEF AddFinalizer
  <2> QED
    BY <1>1, <1>2, <2>1, EndUnwritten
<1>4. CASE ~stale
  <2>1. /\ cr' = [cr EXCEPT !.finalizer = TRUE] /\ b' = [b EXCEPT !.finalizer = TRUE]
        /\ pc' = "persistName" /\ UNCHANGED <<fresh, recreate>>
    BY <1>4 DEF AddFinalizer, Goto
  <2>2. /\ b'.deleting = b.deleting /\ b'.allowRecreate = b.allowRecreate /\ b'.status = b.status
        /\ cr'.exists = cr.exists /\ cr'.deleting = cr.deleting /\ cr'.status = cr.status
    BY <2>1 DEF IInv, TypeOK, Resource
  <2>3. pc' \notin AttributingSteps /\ pc' \notin GroupSteps /\ pc \in UntaggedSteps
    BY <1>1, <2>1 DEF AttributingSteps, GroupSteps, ServingSteps, UntaggedSteps
  <2>4. Noticed'
    BY <1>1, <1>2, <2>1, <2>3, NoticedStep
  <2> QED
    BY <1>1, <1>2, <2>1, <2>2, <2>3, <2>4, WriteTraced
<1> QED
  BY <1>3, <1>4

LEMMA PersistNameTraced == ASSUME IInv, Remembering, Traced, PersistName PROVE Traced'
<1>1. /\ UNCHANGED <<groups, bucket, policy, readyInc, reported, lost, cache, budget, fresh, recreate>>
      /\ pc = "persistName" /\ pc' \in {"fail", "markProvisioning"}
      /\ \/ UNCHANGED <<cr, b>>
         \/ cr' = [cr EXCEPT !.named = TRUE] /\ b' = [b EXCEPT !.named = TRUE]
  BY DEF PersistName, Goto, FailWith, provVars, histVars
<1>2. SamePlan /\ Noticed
  BY <1>1, BudgetSpent DEF IInv, Traced
<1>3. /\ b'.deleting = b.deleting /\ b'.allowRecreate = b.allowRecreate /\ b'.status = b.status
      /\ cr'.exists = cr.exists /\ cr'.deleting = cr.deleting /\ cr'.status = cr.status
  BY <1>1 DEF IInv, TypeOK, Resource
<1>4. /\ pc' \notin AttributingSteps /\ pc' \notin GroupSteps
      /\ pc \in ProvisioningSteps /\ pc \in UntaggedSteps
  BY <1>1 DEF AttributingSteps, GroupSteps, ServingSteps, ProvisioningSteps, UntaggedSteps
<1>5. Noticed'
  BY <1>1, <1>2, <1>4, NoticedStep
<1> QED
  BY <1>1, <1>2, <1>3, <1>4, <1>5, WriteTraced

LEMMA MarkProvisioningTraced == ASSUME IInv, Remembering, Traced, MarkProvisioning PROVE Traced'
<1> DEFINE st == [b.status EXCEPT !.phase = "Provisioning"]
<1>1. /\ UNCHANGED <<groups, bucket, policy, readyInc, reported, lost, cache, fresh, recreate>>
      /\ pc = "markProvisioning" /\ pc' = "guardPresent"
      /\ UNCHANGED budget \/ Fault
      /\ \/ UNCHANGED <<cr, b>>
         \/ b' = [b EXCEPT !.status = st] /\ cr' \in {cr, [cr EXCEPT !.status = st]}
  BY DEF MarkProvisioning, provVars, histVars
<1>2. SamePlan /\ Noticed
  BY <1>1, BudgetSpent DEF IInv, Traced
<1>3. b \in Resource /\ cr \in Resource /\ b.status \in Status
  BY DEF IInv, TypeOK, Resource
<1>4. st.resolved = b.status.resolved /\ st.group = b.status.group
  BY <1>3 DEF Status
<1>5. /\ b'.deleting = b.deleting /\ b'.allowRecreate = b.allowRecreate
      /\ b'.status.resolved = b.status.resolved /\ b'.status.group = b.status.group
      /\ cr'.exists = cr.exists /\ cr'.deleting = cr.deleting
      /\ \/ cr'.status = cr.status
         \/ cr'.status.resolved = b'.status.resolved /\ cr'.status.group = b'.status.group
  <2> HIDE DEF st
  <2> QED
    BY <1>1, <1>3, <1>4 DEF Resource
<1>6. /\ pc' \notin AttributingSteps /\ pc' \notin GroupSteps
      /\ pc \in ProvisioningSteps /\ pc \in UntaggedSteps
  BY <1>1 DEF AttributingSteps, GroupSteps, ServingSteps, ProvisioningSteps, UntaggedSteps
<1>7. Noticed'
  BY <1>1, <1>2, <1>6, NoticedStep
<1> QED
  BY <1>1, <1>2, <1>5, <1>6, <1>7, WriteTraced

LEMMA GuardBucketPresentTraced == ASSUME IInv, Remembering, Traced, GuardBucketPresent PROVE Traced'
<1>1. /\ UNCHANGED <<cr, cache, groups, bucket, policy, readyInc, reported, lost, b, fresh, gid, made, budget>>
      /\ pc = "guardPresent"
      /\ \/ pc' = "fail" /\ UNCHANGED recreate
         \/ pc' = "hasBucket" /\ ~(b.status.resolved /\ bucket.inc = 0) /\ recreate' = FALSE
         \/ pc' = "hasBucket" /\ b.allowRecreate /\ recreate' = TRUE
  BY DEF GuardBucketPresent, Goto, FailWith, apiVars, provVars, histVars
<1>2. SamePlan
  BY <1>1, BudgetSpent DEF IInv
<1>0. /\ Remembering' /\ Lags' = Lags
      /\ "buckets" \in Lags => readyInc # 0
      /\ Remembered /\ Directed /\ Noticed
  BY <1>2, SameMemory DEF Traced
<1>3. ~b.deleting /\ (readyInc # 0 => b.status.resolved)
  BY <1>0, <1>1 DEF Directed, Remembered, Remembers, ProvisioningSteps
<1>4. /\ pc' \in {"fail", "hasBucket"} /\ pc' \notin AttributingSteps /\ pc' \notin GroupSteps
      /\ pc \in UntaggedSteps
  BY <1>1 DEF AttributingSteps, GroupSteps, ServingSteps, UntaggedSteps
<1>5. Remembered'
  BY <1>0, <1>1 DEF Remembered, Remembers
<1>6. NewGroup'
  BY <1>4 DEF NewGroup
<1>7. Directed'
  BY <1>0, <1>1, <1>3, <1>4 DEF Directed
<1>8. Noticed'
  <2>1. Unreported' <=> Unreported
    BY <1>1 DEF Unreported, Ours
  <2> QED
    BY <1>0, <1>1, <1>3, <1>4, <2>1 DEF Noticed
<1> QED
  BY <1>0, <1>1, <1>4, <1>5, <1>6, <1>7, <1>8 DEF Traced

LEMMA HasBucketTraced == ASSUME IInv, Remembering, Traced, HasBucket \/ AdoptOrCollide PROVE Traced'
<1>1. /\ UNCHANGED <<cr, cache, groups, bucket, policy, readyInc, reported, lost, b, fresh, recreate, budget>>
      /\ pc \in {"hasBucket", "adopt"}
      /\ pc' \in {"adopt", "createBucket", "resolveGroup", "claim", "fail"}
      /\ pc' = "createBucket" => pc = "hasBucket"
  BY DEF HasBucket, AdoptOrCollide, NewLook, Goto, FailWith, apiVars, provVars, histVars
<1>2. SamePlan /\ Noticed
  BY <1>1, BudgetSpent DEF IInv, Traced
<1>3. pc' \notin AttributingSteps /\ pc' \notin GroupSteps /\ SameSide /\ pc \in UntaggedSteps
  BY <1>1 DEF AttributingSteps, GroupSteps, ServingSteps, SameSide, ProvisioningSteps, UntaggedSteps
<1>4. Noticed'
  BY <1>1, <1>2, <1>3, NoticedStep
<1> QED
  BY <1>1, <1>2, <1>3, <1>4, CallTraced

LEMMA CreateBucketTraced == ASSUME IInv, Remembering, Traced, CreateBucket PROVE Traced'
<1>1. /\ UNCHANGED <<cr, cache, groups, readyInc, reported, lost, b, fresh, recreate>>
      /\ pc = "createBucket" /\ pc' \in {"adopt", "tagNew", "fail"}
      /\ UNCHANGED budget \/ Fault
      /\ \/ bucket.inc # 0 /\ pc' = "adopt" /\ UNCHANGED <<bucket, policy>>
         \/ bucket.inc = 0 /\ bucket' = [NoBucket EXCEPT !.inc = incs']
  BY DEF CreateBucket, Goto, Applied, apiVars, histVars
<1>2. SamePlan /\ Noticed
  BY <1>1, BudgetSpent DEF IInv, Traced
<1>3. pc' \notin AttributingSteps /\ pc' \notin GroupSteps /\ SameSide /\ pc \in UntaggedSteps
  BY <1>1 DEF AttributingSteps, GroupSteps, ServingSteps, SameSide, ProvisioningSteps, UntaggedSteps
<1>4. CASE bucket.inc # 0 /\ pc' = "adopt" /\ UNCHANGED <<bucket, policy>>
  <2>1. Noticed'
    BY <1>1, <1>2, <1>3, <1>4, NoticedStep
  <2> QED
    BY <1>1, <1>2, <1>3, <1>4, <2>1, CallTraced
<1>5. CASE bucket.inc = 0 /\ bucket' = [NoBucket EXCEPT !.inc = incs']
  <2>1. ~Unreported'
    BY <1>5 DEF Unreported, Ours, NoBucket
  <2>2. Noticed'
    BY <1>1, <1>2, <1>3, <1>5, <2>1 DEF Noticed
  <2> QED
    BY <1>1, <1>2, <1>3, <2>2, CallTraced
<1> QED
  BY <1>1, <1>4, <1>5

LEMMA TaggedTraced == ASSUME IInv, Remembering, Traced, TagNew \/ Claim PROVE Traced'
<1>1. /\ UNCHANGED <<cr, cache, groups, readyInc, lost, b, recreate, policy>>
      /\ pc \in {"tagNew", "claim"} /\ pc' \in {"resolveGroup", "fail"} /\ bucket.inc # 0
      /\ UNCHANGED budget \/ Fault
      /\ bucket' = [bucket EXCEPT !.owner = "us", !.group = None]
      /\ \/ UNCHANGED <<fresh, reported>>
         \/ /\ pc = "tagNew" /\ fresh' = (pc' = "resolveGroup")
            /\ reported' = IF recreate /\ pc' = "resolveGroup" THEN bucket.inc ELSE reported
  BY DEF TagNew, Claim, Goto, Applied, apiVars, histVars
<1>2. SamePlan /\ Noticed
  BY <1>1, BudgetSpent DEF IInv, Traced
<1>3. pc' \notin AttributingSteps /\ pc' \notin GroupSteps /\ SameSide /\ pc \in UntaggedSteps
  BY <1>1 DEF AttributingSteps, GroupSteps, ServingSteps, SameSide, ProvisioningSteps, UntaggedSteps
<1>4. lost # "during" => policy = None
  BY <1>1 DEF IInv, Adopted, Untagged, Remembering
<1>5. bucket'.inc = bucket.inc /\ bucket'.group = None /\ bucket \in Cloud
  BY <1>1 DEF IInv, TypeOK, Cloud
<1>6. Noticed'
  <2>0. ~fresh /\ pc' \notin UntaggedSteps
    BY <1>1, <1>2, <1>3 DEF Noticed, UntaggedSteps
  <2>1. CASE UNCHANGED <<fresh, reported>>
    BY <1>1, <1>2, <1>3, <1>4, <1>5, <2>0, <2>1 DEF Noticed
  <2>2. CASE pc = "tagNew" /\ fresh' = (pc' = "resolveGroup")
              /\ reported' = IF recreate /\ pc' = "resolveGroup" THEN bucket.inc ELSE reported
    BY <1>1, <1>2, <1>3, <1>4, <1>5, <2>0, <2>2 DEF Noticed, Unreported
  <2> QED
    BY <1>1, <2>1, <2>2
<1> QED
  BY <1>1, <1>2, <1>3, <1>6, CallTraced

LEMMA ResolveGroupTraced == ASSUME IInv, Remembering, Traced, ResolveGroup PROVE Traced'
<1>1. /\ UNCHANGED <<cr, cache, groups, bucket, policy, readyInc, reported, lost, fresh, recreate, budget>>
      /\ pc = "resolveGroup" /\ bucket.inc # 0
  BY DEF ResolveGroup, NewLook, Goto, FailWith, apiVars, provVars
<1>2. SamePlan /\ Noticed /\ Remembered /\ Directed
  BY <1>1, BudgetSpent DEF IInv, Traced
<1>3. TagReads = {bucket} /\ PolicyReads = {policy} /\ GroupListings = {groups}
  BY DEF TagReads, PolicyReads, GroupListings, Remembering
<1>4. \/ pc' \in {"fail", "createGroup"} /\ b' = b
      \/ pc' = "ensurePolicy" /\ gid' \in groups /\ gid' # None /\ b' = [b EXCEPT !.status.group = gid']
      \/ pc' = "stamp" /\ gid' \in groups /\ gid' # None /\ b' = b /\ ~made'
  BY <1>3 DEF ResolveGroup, PublishGroup, Goto, FailWith, FromTags, FromPolicy
<1>5. b \in Resource /\ groups \subseteq Groups /\ None \notin Groups
  BY Constants DEF IInv, TypeOK
<1>6. ASSUME Unreported, readyInc # 0, lost # "during" PROVE pc' = "fail"
  <2>1. bucket.group = None /\ policy = None /\ ~fresh
    BY <1>2, <1>6 DEF Noticed
  <2>2. FromTags(bucket) = None /\ FromPolicy(policy, groups) = None
    BY <2>1 DEF FromTags, FromPolicy
  <2>3. b.status.group \in groups
    BY <1>1, <1>2, <1>6 DEF Remembered, Remembers, Directed, ProvisioningSteps
  <2>4. AttributionLagging
    BY <2>1, <2>3 DEF AttributionLagging
  <2> QED
    BY <1>3, <2>2, <2>4 DEF ResolveGroup, FailWith
<1>7. pc' \in {"fail", "createGroup", "ensurePolicy", "stamp"} /\ SameSide
  BY <1>1, <1>4 DEF SameSide, ProvisioningSteps
<1>8. Noticed'
  <2>1. Unreported' <=> Unreported
    BY <1>1 DEF Unreported, Ours
  <2>2. pc' = "fail" => pc' \notin AttributingSteps
    BY DEF AttributingSteps, GroupSteps, ServingSteps
  <2>3. pc' \notin UntaggedSteps
    BY <1>7 DEF UntaggedSteps
  <2> QED
    BY <1>1, <1>2, <1>6, <1>7, <2>1, <2>2, <2>3 DEF Noticed
<1>9. pc' \in GroupSteps => gid' \in groups'
  BY <1>1, <1>4 DEF GroupSteps, ServingSteps
<1>10. CASE pc' # "ensurePolicy"
  BY <1>1, <1>2, <1>4, <1>7, <1>8, <1>9, <1>10, CallTraced
<1>11. CASE pc' = "ensurePolicy"
  <2>1. gid' \in groups /\ gid' \in Groups \cup {None} /\ b' = [b EXCEPT !.status.group = gid']
    BY <1>4, <1>5, <1>11
  <2>2. /\ b'.deleting = b.deleting /\ b'.allowRecreate = b.allowRecreate
        /\ b'.status.resolved = b.status.resolved /\ b'.status.group \in groups
    BY <1>5, <2>1, PublishedStatus
  <2>3. pc \in ProvisioningSteps
    BY <1>1 DEF ProvisioningSteps
  <2> QED
    BY <1>1, <1>2, <1>8, <1>9, <1>11, <2>2, <2>3, WriteTraced
<1> QED
  BY <1>10, <1>11

LEMMA CreateGroupTraced == ASSUME IInv, Remembering, Traced, CreateGroup PROVE Traced'
<1>1. /\ UNCHANGED <<cr, cache, bucket, policy, readyInc, reported, lost, b, fresh, recreate>>
      /\ pc = "createGroup" /\ pc' \in {"stamp", "fail"}
      /\ UNCHANGED budget \/ Fault
  BY DEF CreateGroup, Goto, Applied, apiVars, histVars
<1>2. PICK g \in Groups : /\ FreshGroup(g) /\ groups' = groups \cup {g}
                          /\ pc' = "stamp" => gid' = g
  BY DEF CreateGroup
<1>3. g \notin {b.status.group, cr.status.group, cache.status.group} /\ g # None
  BY <1>2, Constants DEF FreshGroup
<1>4. SamePlan /\ Noticed
  BY <1>1, BudgetSpent DEF IInv, Traced
<1>5. /\ pc \in AttributingSteps /\ pc' \notin UntaggedSteps /\ SameSide
      /\ pc' \in GroupSteps => pc' = "stamp"
  BY <1>1 DEF AttributingSteps, UntaggedSteps, SameSide, ProvisioningSteps, GroupSteps, ServingSteps
<1>6. Noticed'
  BY <1>1, <1>4, <1>5, NoticedStep
<1> QED
  BY <1>1, <1>2, <1>3, <1>4, <1>5, <1>6, CallTraced

LEMMA StampTraced == ASSUME IInv, Remembering, Traced, Stamp PROVE Traced'
<1>1. /\ UNCHANGED <<cr, cache, groups, policy, readyInc, reported, lost, fresh, recreate, gid, made>>
      /\ pc = "stamp" /\ pc' \in {"ensurePolicy", StampError} /\ bucket.inc # 0
      /\ UNCHANGED budget \/ Fault
      /\ bucket' = [bucket EXCEPT !.owner = "us", !.group = gid]
      /\ b' = IF pc' = "ensurePolicy" THEN [b EXCEPT !.status.group = gid] ELSE b
  BY DEF Stamp, Goto, Applied, apiVars, histVars
<1>2. SamePlan /\ Noticed /\ NewGroup /\ gid \in groups
  BY <1>1, BudgetSpent DEF IInv, Traced, GroupSteps
<1>3. /\ pc' \in {"ensurePolicy", "rollbackGroup", "fail"} /\ (pc' = "rollbackGroup" => made)
      /\ pc \in AttributingSteps /\ pc' \notin UntaggedSteps /\ SameSide
      /\ pc' \in GroupSteps => pc' = "ensurePolicy"
  BY <1>1 DEF StampError, AttributingSteps, UntaggedSteps, SameSide, ProvisioningSteps, GroupSteps, ServingSteps
<1>4. bucket \in Cloud /\ b \in Resource /\ gid \in Groups \cup {None}
  BY DEF IInv, TypeOK
<1>5. lost # "during" => bucket.owner = "us"
  BY <1>1 DEF IInv, Adopted, Ours, OwnedSteps
<1>6. Noticed'
  <2>1. bucket'.inc = bucket.inc /\ bucket'.owner = "us"
    BY <1>1, <1>4 DEF Cloud
  <2>2. lost # "during" => (Unreported' <=> Unreported)
    BY <1>1, <1>5, <2>1 DEF Unreported, Ours
  <2> QED
    BY <1>1, <1>2, <1>3, <2>2 DEF Noticed
<1>7. CASE pc' = "ensurePolicy"
  <2>1. /\ b'.deleting = b.deleting /\ b'.allowRecreate = b.allowRecreate
        /\ b'.status.resolved = b.status.resolved /\ b'.status.group \in groups
    BY <1>1, <1>2, <1>4, <1>7, PublishedStatus
  <2>2. pc \in ProvisioningSteps
    BY <1>1 DEF ProvisioningSteps
  <2> QED
    BY <1>1, <1>2, <1>3, <1>6, <1>7, <2>1, <2>2, WriteTraced
<1>8. CASE pc' # "ensurePolicy"
  BY <1>1, <1>2, <1>3, <1>6, <1>8, CallTraced DEF NewGroup
<1> QED
  BY <1>7, <1>8

LEMMA RollbackGroupTraced == ASSUME IInv, Remembering, Traced, RollbackGroup PROVE Traced'
<1>1. /\ UNCHANGED <<cr, cache, bucket, policy, readyInc, reported, lost, b, fresh, recreate, gid, budget>>
      /\ pc = "rollbackGroup" /\ pc' = "fail" /\ groups' = groups \ {gid}
  BY DEF RollbackGroup, Goto, apiVars, histVars, passVars
<1>2. SamePlan
  BY <1>1, BudgetSpent DEF IInv
<1>0. /\ Remembering' /\ Lags' = Lags
      /\ "buckets" \in Lags => readyInc # 0
      /\ Remembered /\ Directed /\ Noticed /\ NewGroup
  BY <1>2, SameMemory DEF Traced
<1>3. /\ pc' \notin ProvisioningSteps \cup {"addFinalizer"} /\ pc' \notin GroupSteps
      /\ pc' \notin UntaggedSteps /\ pc' \notin AttributingSteps
  BY <1>1 DEF ProvisioningSteps, ServingSteps, GroupSteps, UntaggedSteps, AttributingSteps
<1>4. gid \notin {b.status.group, cr.status.group, cache.status.group}
  BY <1>0, <1>1 DEF NewGroup
<1>5. Remembered'
  BY <1>0, <1>1, <1>4 DEF Remembered, Remembers
<1>6. NewGroup'
  BY <1>1 DEF NewGroup
<1>7. Directed'
  BY <1>0, <1>1, <1>3 DEF Directed
<1>8. Noticed'
  BY <1>0, <1>1, <1>3, NoticedStep
<1> QED
  BY <1>0, <1>1, <1>3, <1>5, <1>6, <1>7, <1>8 DEF Traced

LEMMA ServingTraced ==
  ASSUME IInv, Remembering, Traced,
         EnsurePolicy \/ DecideKey \/ CreateKey \/ WriteSecret \/ RollbackKey
         \/ (ClearKeys /\ pc = "clearKeys")
  PROVE  Traced'
<1>1. /\ UNCHANGED <<cr, cache, groups, readyInc, reported, lost, b, fresh, recreate, gid, bucket>>
      /\ pc \in {"ensurePolicy"} \cup ServingSteps /\ pc' \in ServingSteps \cup {"fail"}
      /\ UNCHANGED budget \/ Fault
  <2>1. CASE EnsurePolicy \/ DecideKey \/ RollbackKey
    BY <2>1 DEF EnsurePolicy, DecideKey, RollbackKey, Goto, Applied, apiVars, provVars, histVars, passVars,
                ServingSteps
  <2>2. CASE CreateKey \/ WriteSecret
    BY <2>2 DEF CreateKey, WriteSecret, Goto, Applied, apiVars, provVars, histVars, ServingSteps
  <2>3. CASE ClearKeys /\ pc = "clearKeys"
    BY <2>3 DEF ClearKeys, Goto, Applied, apiVars, histVars, ServingSteps
  <2> QED
    BY <2>1, <2>2, <2>3
<1>2. /\ pc \in AttributingSteps /\ pc' \notin UntaggedSteps /\ SameSide /\ pc \in GroupSteps
      /\ pc' \notin {"idle", "tagNew", "hasBucket", "createBucket", "stamp", "rollbackGroup"}
      /\ pc # "idle"
  BY <1>1 DEF AttributingSteps, UntaggedSteps, SameSide, ProvisioningSteps, GroupSteps, ServingSteps
<1>3. SamePlan /\ Noticed /\ gid \in groups
  BY <1>1, <1>2, BudgetSpent DEF IInv, Traced
<1>4. Noticed'
  <2>1. Unreported' <=> Unreported
    BY <1>1 DEF Unreported, Ours
  <2> QED
    BY <1>1, <1>2, <1>3, <2>1 DEF Noticed
<1> QED
  BY <1>1, <1>2, <1>3, <1>4, CallTraced

LEMMA MarkReadyTraced == ASSUME IInv, Remembering, Traced, MarkReady PROVE Traced'
<1>1. /\ UNCHANGED <<groups, bucket, policy, reported, lost, cache, budget>> /\ pc = "markReady"
      /\ \/ stale /\ EndPass(TRUE) /\ UNCHANGED <<cr, readyInc>>
         \/ /\ ~stale /\ EndPass(Resync) /\ cr' = [cr EXCEPT !.status = ReadyStatus]
            /\ readyInc' = IF bucket.inc # 0 THEN bucket.inc ELSE readyInc
  BY DEF MarkReady, provVars
<1>2. SamePlan /\ gid \in groups
  BY <1>1, BudgetSpent DEF IInv, Traced, GroupSteps, ServingSteps
<1>3. CASE stale
  BY <1>1, <1>2, <1>3, EndUnwritten
<1>4. CASE ~stale
  <2>1. cr'.exists = cr.exists /\ cr'.deleting = cr.deleting /\ cr'.status = ReadyStatus
    BY <1>1, <1>4 DEF IInv, TypeOK, Resource
  <2>2. Remembers(cr)'
    BY <1>1, <1>2, <2>1 DEF Remembers, ReadyStatus
  <2> QED
    BY <1>1, <1>2, <1>4, <2>1, <2>2, EndTraced
<1> QED
  BY <1>3, <1>4

LEMMA FailPassTraced == ASSUME IInv, Remembering, Traced, FailPass PROVE Traced'
<1>1. PICK st \in FailureStatuses :
        \/ cr' = (IF stale THEN cr ELSE [cr EXCEPT !.status = st]) /\ UNCHANGED budget
        \/ Fault /\ UNCHANGED cr
  BY DEF FailPass
<1>2. /\ UNCHANGED <<groups, bucket, policy, readyInc, reported, lost, cache>> /\ pc = "fail"
      /\ EndPass(err # "definitive")
  BY DEF FailPass, provVars, histVars
<1>3. SamePlan /\ Directed /\ Remembered
  BY <1>1, BudgetSpent DEF IInv, Traced
<1>4. CASE UNCHANGED cr
  BY <1>2, <1>3, <1>4, EndUnwritten
<1>5. CASE cr' = [cr EXCEPT !.status = st]
  <2>1. cr'.exists = cr.exists /\ cr'.deleting = cr.deleting /\ cr'.status = st
    BY <1>5 DEF IInv, TypeOK, Resource
  <2>2. st.resolved = b.status.resolved /\ st.group = b.status.group
    <3>1. b.status \in Status
      BY DEF IInv, TypeOK, Resource
    <3>2. st \in {FailedStatus, [b.status EXCEPT !.degraded = TRUE]}
      BY DEF FailureStatuses
    <3> QED
      BY <3>1, <3>2 DEF FailedStatus, Status
  <2>3. ASSUME readyInc # 0, cr.exists, ~cr.deleting PROVE Remembers(cr)'
    <3>1. Remembers(b)
      BY <1>2, <1>3, <2>3 DEF Directed, Remembered
    <3> QED
      BY <1>2, <2>1, <2>2, <3>1 DEF Remembers
  <2> QED
    BY <1>2, <1>3, <2>1, <2>3, EndTraced
<1> QED
  BY <1>1, <1>4, <1>5

----------------------------------------------------------------------------
\* A step of a teardown: no copy that a provisioning pass could work from is left.
LEMMA TeardownTraced ==
  ASSUME IInv, Remembering, Traced, SamePlan, Noticed',
         pc \in TeardownSteps, pc' \in TeardownSteps \cup {"fail"},
         UNCHANGED <<cache, readyInc, recreate>>,
         b'.deleting = b.deleting, b'.allowRecreate = b.allowRecreate,
         cr'.exists = cr.exists, cr'.deleting = cr.deleting
  PROVE  Traced'
<1>0. /\ Remembering' /\ Lags' = Lags
      /\ "buckets" \in Lags => readyInc # 0
      /\ Remembered /\ Directed
  BY SameMemory DEF Traced
<1>1. /\ pc # "idle" /\ pc' # "idle" /\ pc' \notin ProvisioningSteps \cup {"addFinalizer"}
      /\ pc' \notin GroupSteps /\ pc' \notin {"stamp", "rollbackGroup"}
  BY DEF TeardownSteps, ProvisioningSteps, GroupSteps, ServingSteps
<1>2. b.deleting /\ (cr.exists => cr.deleting) /\ (cache.exists => cache.deleting)
  BY <1>0, <1>1 DEF Directed, IInv, Asked
<1>3. Remembered'
  BY <1>2 DEF Remembered
<1>4. NewGroup'
  BY <1>1 DEF NewGroup
<1>5. Directed'
  BY <1>0, <1>1, <1>2 DEF Directed
<1> QED
  BY <1>0, <1>1, <1>3, <1>4, <1>5 DEF Traced

LEMMA TeardownApart ==
  \A p \in TeardownSteps \cup {"fail"} :
    /\ p \notin UntaggedSteps /\ p \notin {"tagNew", "hasBucket", "createBucket"}
    /\ p \in AttributingSteps => p = "releaseStamp"
BY DEF TeardownSteps, UntaggedSteps, AttributingSteps, GroupSteps, ServingSteps

LEMMA MarkDeletingTraced == ASSUME IInv, Remembering, Traced, MarkDeleting PROVE Traced'
<1>1. /\ UNCHANGED <<groups, bucket, policy, readyInc, reported, lost, cache, budget>>
      /\ pc = "markDeleting"
      /\ \/ pc' = "findBucket" /\ UNCHANGED <<cr, b, fresh, recreate>>
         \/ /\ pc' = "findBucket" /\ UNCHANGED <<fresh, recreate>>
            /\ b' = [b EXCEPT !.status.phase = "Deleting"] /\ cr' = [cr EXCEPT !.status = b'.status]
         \/ EndPass(TRUE) /\ UNCHANGED cr
  BY DEF MarkDeleting, Goto, provVars, histVars, passVars
<1>2. SamePlan /\ Noticed
  BY <1>1, BudgetSpent DEF IInv, Traced
<1>3. CASE EndPass(TRUE) /\ UNCHANGED cr
  BY <1>1, <1>2, <1>3, EndUnwritten
<1>4. CASE pc' = "findBucket" /\ UNCHANGED <<fresh, recreate>>
  <2>1. /\ b'.deleting = b.deleting /\ b'.allowRecreate = b.allowRecreate
        /\ cr'.exists = cr.exists /\ cr'.deleting = cr.deleting
    BY <1>1, <1>4 DEF IInv, TypeOK, Resource, EndPass
  <2>2. pc \in TeardownSteps /\ pc' \in TeardownSteps
    BY <1>1, <1>4 DEF TeardownSteps
  <2>3. Noticed'
    BY <1>1, <1>2, <1>4, <2>2, NoticedStep, TeardownApart
  <2> QED
    BY <1>1, <1>2, <1>4, <2>1, <2>2, <2>3, TeardownTraced
<1> QED
  BY <1>1, <1>3, <1>4

LEMMA TeardownCallTraced ==
  ASSUME IInv, Remembering, Traced,
         \/ FindBucket \/ PrepareDelete \/ WipeBucket \/ ReleaseGroup \/ ReleaseStamp
         \/ DeleteGroup \/ CheckOwner \/ DeleteBucket \/ DeleteSecret \/ (ClearKeys /\ pc = "drainKeys")
  PROVE  Traced'
<1>1. /\ UNCHANGED <<cr, cache, readyInc, reported, lost, b, fresh, recreate>>
      /\ UNCHANGED budget \/ Fault
      /\ pc \in TeardownSteps /\ pc' \in TeardownSteps \cup {"fail"}
  <2>1. CASE FindBucket \/ PrepareDelete \/ WipeBucket \/ ReleaseGroup \/ CheckOwner
    BY <2>1 DEF FindBucket, PrepareDelete, WipeBucket, ReleaseGroup, CheckOwner, NewLook, Goto, FailWith,
                Applied, apiVars, histVars, TeardownSteps
  <2>2. CASE ReleaseStamp \/ DeleteGroup \/ DeleteBucket \/ DeleteSecret
    BY <2>2 DEF ReleaseStamp, DeleteGroup, DeleteBucket, DeleteSecret, Goto, FailWith, Applied, apiVars,
                histVars, TeardownSteps
  <2>3. CASE ClearKeys /\ pc = "drainKeys"
    BY <2>3 DEF ClearKeys, Goto, Applied, apiVars, histVars, TeardownSteps
  <2> QED
    BY <2>1, <2>2, <2>3
<1>2. SamePlan /\ Noticed
  BY <1>1, BudgetSpent DEF IInv, Traced
<1>3. bucket \in Cloud
  BY DEF IInv, TypeOK
<1>4. Noticed'
  <2>1. CASE ReleaseGroup
    <3>1. UNCHANGED <<bucket, policy>> /\ bucket.inc # 0
      BY <2>1 DEF ReleaseGroup, provVars
    <3>2. Unreported' <=> Unreported
      BY <1>1, <3>1 DEF Unreported, Ours
    <3>3. policy = None => pc' # "releaseStamp"
      <4>1. PolicyReads = {policy} /\ GroupListings = {groups} /\ None \notin groups
        BY Constants DEF PolicyReads, GroupListings, Remembering, IInv, TypeOK
      <4> QED
        BY <2>1, <4>1 DEF ReleaseGroup, FromPolicy, Goto
    <3> QED
      BY <1>1, <1>2, <3>1, <3>2, <3>3, TeardownApart DEF Noticed
  <2>2. CASE ReleaseStamp
    <3>1. /\ bucket' = [bucket EXCEPT !.owner = "us", !.group = gid] /\ pc = "releaseStamp" /\ bucket.inc # 0
          /\ pc' # "releaseStamp"
      BY <2>2 DEF ReleaseStamp, Applied, Goto
    <3>2. (lost # "during" => bucket.owner = "us") /\ pc \in AttributingSteps
      BY <3>1 DEF IInv, Adopted, Ours, OwnedSteps, AttributingSteps
    <3>3. lost # "during" => (Unreported' <=> Unreported)
      BY <1>1, <1>3, <3>1, <3>2 DEF Unreported, Ours, Cloud
    <3> QED
      BY <1>1, <1>2, <3>1, <3>2, <3>3, TeardownApart DEF Noticed
  <2>3. CASE DeleteBucket /\ bucket' = NoBucket
    <3>1. ~Unreported'
      BY <2>3 DEF Unreported, Ours, NoBucket
    <3> QED
      BY <1>1, <3>1, TeardownApart DEF Noticed
  <2>4. CASE /\ \/ FindBucket \/ PrepareDelete \/ WipeBucket \/ DeleteGroup \/ CheckOwner \/ DeleteSecret
                \/ (ClearKeys /\ pc = "drainKeys")
                \/ (DeleteBucket /\ UNCHANGED <<bucket, policy>>)
    <3>1. /\ UNCHANGED policy
          /\ bucket'.inc = bucket.inc /\ bucket'.owner = bucket.owner /\ bucket'.group = bucket.group
      BY <1>3, <2>4 DEF FindBucket, PrepareDelete, WipeBucket, DeleteGroup, CheckOwner, DeleteSecret, ClearKeys,
                        provVars, Cloud
    <3>2. pc' # "releaseStamp"
      BY <2>4 DEF FindBucket, PrepareDelete, WipeBucket, DeleteGroup, CheckOwner, DeleteSecret, ClearKeys,
                  DeleteBucket, Goto, FailWith, Applied
    <3> QED
      BY <1>1, <1>2, <3>1, <3>2, TeardownApart, NoticedStep
  <2>5. DeleteBucket => bucket' = NoBucket \/ UNCHANGED <<bucket, policy>>
    BY DEF DeleteBucket
  <2> QED
    BY <2>1, <2>2, <2>3, <2>4, <2>5
<1> QED
  BY <1>1, <1>2, <1>4, TeardownTraced

LEMMA DropFinalizerTraced == ASSUME IInv, Remembering, Traced, DropFinalizer PROVE Traced'
<1>1. /\ UNCHANGED <<groups, bucket, policy, readyInc, reported, lost, cache, budget>>
      /\ pc = "dropFinalizer"
      /\ \/ EndPass(FALSE) /\ cr' = NoResource
         \/ EndPass(TRUE) /\ UNCHANGED cr
  BY DEF DropFinalizer, provVars, histVars
<1>2. SamePlan
  BY <1>1, BudgetSpent DEF IInv
<1>3. CASE EndPass(TRUE) /\ UNCHANGED cr
  BY <1>1, <1>2, <1>3, EndUnwritten
<1>4. CASE EndPass(FALSE) /\ cr' = NoResource
  BY <1>1, <1>2, <1>4, EndTraced, ResourcesTyped
<1> QED
  BY <1>1, <1>3, <1>4

LEMMA FailingTraced == ASSUME IInv, Remembering, Traced, Failing \/ Crash PROVE Traced'
<1>1. CASE ObjectWriteFails \/ Crash
  <2>1. /\ UNCHANGED <<cr, groups, bucket, policy, readyInc, reported, lost>> /\ cache' \in {cache, cr}
        /\ EndPass(TRUE) /\ (Fault \/ Fails("crash"))
    BY <1>1 DEF ObjectWriteFails, Crash, apiVars, provVars, histVars
  <2>2. SamePlan
    BY <2>1, BudgetSpent DEF IInv
  <2> QED
    BY <2>1, <2>2, EndUnwritten
<1>2. CASE CallFails \/ TargetGone
  <2>1. /\ UNCHANGED <<cr, cache, groups, bucket, policy, readyInc, reported, lost, b, fresh, recreate, gid, made>>
        /\ UNCHANGED budget \/ Fault
        /\ pc' = ErrorPath /\ pc # "idle"
    BY <1>2 DEF CallFails, TargetGone, ProviderCalls, BucketCalls, apiVars, provVars, histVars
  <2>2. \/ pc' = "fail"
        \/ pc' = "rollbackKey" /\ pc = "writeSecret"
        \/ pc' = "rollbackGroup" /\ pc = "stamp" /\ made
    BY <2>1 DEF ErrorPath, StampError
  <2>3. SamePlan /\ Noticed /\ NewGroup /\ (pc \in GroupSteps => gid \in groups)
    BY <2>1, BudgetSpent DEF IInv, Traced
  <2>4. /\ SameSide /\ pc' \notin UntaggedSteps /\ pc' \notin {"idle", "tagNew", "hasBucket", "createBucket", "stamp"}
        /\ pc' \in AttributingSteps => pc \in AttributingSteps
        /\ pc' \in GroupSteps => pc \in GroupSteps
    BY <2>1, <2>2 DEF SameSide, UntaggedSteps, AttributingSteps, GroupSteps, ServingSteps, ProvisioningSteps
  <2>5. Noticed'
    BY <2>1, <2>3, <2>4, NoticedStep
  <2>6. (pc' = "rollbackGroup" \/ (pc' = "stamp" /\ made')) =>
          gid' \notin {None, b.status.group, cr.status.group, cache.status.group}
    BY <2>1, <2>2, <2>3, <2>4 DEF NewGroup
  <2> QED
    BY <2>1, <2>3, <2>4, <2>5, <2>6, CallTraced
<1> QED
  BY <1>1, <1>2 DEF Failing

LEMMA EditTraced ==
  ASSUME IInv, Remembering, Traced, NEW kind, NEW new, Edit(kind, new),
         \/ new.status = cr.status /\ (cr.deleting => new.deleting)
         \/ new = NoResource
  PROVE  Traced'
<1>1. CloudKept /\ SamePlan /\ UNCHANGED cache /\ cr.exists /\ cr' = new
  BY EditFrame
<1>2. Noticed'
  BY <1>1, NoticedStep DEF CloudKept, Traced
<1> QED
  BY <1>1, <1>2, BesideTraced DEF CloudKept

LEMMA UserTraced ==
  ASSUME IInv, Remembering, Traced,
         UserRotates \/ UserEditsSpec \/ UserAllowsWipe \/ UserDeletes \/ UsagePatch
  PROVE  Traced'
<1>1. cr \in Resource
  BY DEF IInv, TypeOK
<1>2. CASE UserRotates
  <2>1. Edit("rotate", [cr EXCEPT !.rotate = @ + 1])
    BY <1>2 DEF UserRotates
  <2>2. LET new == [cr EXCEPT !.rotate = @ + 1] IN new.status = cr.status /\ new.deleting = cr.deleting
    BY <1>1 DEF Resource
  <2> QED
    BY <2>1, <2>2, EditTraced
<1>3. CASE UserEditsSpec
  <2>1. PICK allow \in BOOLEAN, faulty \in BOOLEAN :
          Edit("spec", [cr EXCEPT !.allowRecreate = allow, !.faulty = faulty, !.generation = @ + 1])
    BY <1>3 DEF UserEditsSpec
  <2>2. LET new == [cr EXCEPT !.allowRecreate = allow, !.faulty = faulty, !.generation = @ + 1]
        IN  new.status = cr.status /\ new.deleting = cr.deleting
    BY <1>1 DEF Resource
  <2> QED
    BY <2>1, <2>2, EditTraced
<1>4. CASE UserAllowsWipe
  <2>1. Edit("wipe", [cr EXCEPT !.wipe = TRUE, !.generation = @ + 1])
    BY <1>4 DEF UserAllowsWipe
  <2>2. LET new == [cr EXCEPT !.wipe = TRUE, !.generation = @ + 1]
        IN  new.status = cr.status /\ new.deleting = cr.deleting
    BY <1>1 DEF Resource
  <2> QED
    BY <2>1, <2>2, EditTraced
<1>5. CASE UserDeletes
  <2>1. PICK new \in {[cr EXCEPT !.deleting = TRUE, !.generation = @ + 1], NoResource} : Edit("delete", new)
    BY <1>5 DEF UserDeletes
  <2>2. new = NoResource \/ (new.status = cr.status /\ new.deleting)
    BY <1>1, <2>1 DEF Resource
  <2> QED
    BY <2>1, <2>2, EditTraced
<1>6. CASE UsagePatch
  <2>1. Edit("usage", cr)
    BY <1>6 DEF UsagePatch
  <2> QED
    BY <2>1, EditTraced
<1> QED
  BY <1>2, <1>3, <1>4, <1>5, <1>6

LEMMA OthersTraced ==
  ASSUME IInv, Remembering, Traced,
         \/ CacheSync \/ SecretSync \/ UserDeletesSecret \/ KeyDeleted \/ GroupDeleted
         \/ BucketDeleted \/ ForeignCreates \/ ForeignClaims \/ RotationRetracted
         \/ WorkloadWrites \/ Settle \/ UNCHANGED vars
  PROVE  Traced'
<1>1. ~GroupDeleted
  BY DEF GroupDeleted, Disturb, Remembering
<1>2. /\ UNCHANGED <<groups, readyInc, reported, pc, b, fresh, recreate, gid, made>>
      /\ cache' \in {cache, cr}
      /\ UNCHANGED cr \/ (cr.exists /\ cr' = [cr EXCEPT !.rotate = 0])
  <2>1. CASE CacheSync \/ SecretSync \/ WorkloadWrites \/ Settle \/ UNCHANGED vars
    BY <2>1 DEF CacheSync, SecretSync, WorkloadWrites, ComesBehind, Settle, vars, apiVars, secretVars,
                provVars, passVars, histVars
  <2>2. CASE UserDeletesSecret \/ KeyDeleted \/ BucketDeleted \/ RotationRetracted
    BY <2>2 DEF UserDeletesSecret, KeyDeleted, BucketDeleted, RotationRetracted, apiVars, secretVars,
                provVars, passVars, histVars
  <2>3. CASE ForeignCreates \/ ForeignClaims
    BY <2>3 DEF ForeignCreates, ForeignClaims, ComesBehind, apiVars, secretVars, passVars
  <2> QED
    BY <1>1, <2>1, <2>2, <2>3
<1>3. \/ UNCHANGED cr
      \/ cr.exists /\ cr'.status = cr.status /\ (cr.deleting => cr'.deleting)
  BY <1>2 DEF IInv, TypeOK, Resource
<1>4. Noticed /\ bucket \in Cloud
  BY DEF Traced, IInv, TypeOK
<1>5. Noticed'
  <2>1. CASE BucketDeleted
    <3>1. bucket' = NoBucket /\ (pc = "idle" \/ lost' = "during")
      BY <2>1 DEF BucketDeleted
    <3>2. ~Unreported'
      BY <3>1 DEF Unreported, Ours, NoBucket
    <3> QED
      BY <1>2, <1>4, <3>1, <3>2 DEF Noticed
  <2>2. CASE ForeignCreates \/ ForeignClaims
    <3>1. bucket'.owner # "us" /\ bucket'.inc # 0 /\ UNCHANGED lost
      <4>1. CASE ForeignCreates
        <5>1. incs + 1 # 0
          BY DEF IInv, TypeOK
        <5> QED
          BY <4>1, <5>1 DEF ForeignCreates, ComesBehind
      <4>2. CASE ForeignClaims
        BY <1>4, <4>2 DEF ForeignClaims, ComesBehind, Cloud
      <4> QED
        BY <2>2, <4>1, <4>2
    <3>2. ~Unreported'
      BY <3>1 DEF Unreported, Ours
    <3> QED
      BY <1>2, <1>4, <3>1, <3>2 DEF Noticed
  <2>3. CASE CacheSync \/ SecretSync \/ UserDeletesSecret \/ KeyDeleted \/ RotationRetracted
             \/ WorkloadWrites \/ Settle \/ UNCHANGED vars
    <3>1. /\ UNCHANGED <<policy, lost>>
          /\ bucket'.inc = bucket.inc /\ bucket'.owner = bucket.owner /\ bucket'.group = bucket.group
      BY <1>4, <2>3 DEF CacheSync, SecretSync, UserDeletesSecret, KeyDeleted, RotationRetracted, WorkloadWrites,
                        ComesBehind, Settle, vars, provVars, histVars, Cloud
    <3> QED
      BY <1>2, <1>4, <3>1, NoticedStep
  <2> QED
    BY <1>1, <2>1, <2>2, <2>3
<1>6. SamePlan
  BY PlanKept DEF Next, Environment
<1> QED
  BY <1>2, <1>3, <1>5, <1>6, BesideTraced

LEMMA TracedStep == ASSUME IInv, Traced, [Next]_vars PROVE Traced'
<1>1. Remembering' <=> Remembering
  BY PlanKept, SameMemory
<1>2. CASE ~Remembering
  BY <1>1, <1>2 DEF Traced
<1>3. CASE Remembering
  <2>1. ASSUME Provision PROVE Traced'
    <3>1. ClearKeys => pc = "clearKeys" \/ pc = "drainKeys"
      BY DEF ClearKeys
    <3> QED
      BY <1>3, <2>1, <3>1, StartPassTraced, AddFinalizerTraced, PersistNameTraced, MarkProvisioningTraced,
         GuardBucketPresentTraced, HasBucketTraced, CreateBucketTraced, TaggedTraced, ResolveGroupTraced,
         CreateGroupTraced, StampTraced, RollbackGroupTraced, ServingTraced, MarkReadyTraced,
         FailPassTraced, TeardownCallTraced
         DEF Provision
  <2>2. ASSUME Teardown PROVE Traced'
    BY <1>3, <2>2, MarkDeletingTraced, TeardownCallTraced, DropFinalizerTraced DEF Teardown
  <2>3. ASSUME Environment \/ UNCHANGED vars PROVE Traced'
    BY <1>3, <2>3, FailingTraced, UserTraced, OthersTraced DEF Environment
  <2> QED
    BY <1>3, <2>1, <2>2, <2>3, FailingTraced DEF Next, Operator
<1> QED
  BY <1>2, <1>3

LEMMA InitTraced == ASSUME Init PROVE Traced
<1>1. PICK plan \in DOMAIN Plans : \E start \in Plans[plan].starts :
        /\ cr = InitialCR(start) /\ cache = cr /\ bucket = InitialBucket(start)
        /\ groups = (IF start = "new" THEN {} ELSE {1})
        /\ budget = [plan |-> plan, fail |-> Plans[plan].maxFailures,
                     edit |-> Plans[plan].maxEdits, disturb |-> Plans[plan].maxDisturbances]
  BY DEF Init
<1>2. PICK start \in Plans[plan].starts :
        /\ cr = InitialCR(start) /\ cache = cr /\ bucket = InitialBucket(start)
        /\ groups = (IF start = "new" THEN {} ELSE {1})
        /\ budget = [plan |-> plan, fail |-> Plans[plan].maxFailures,
                     edit |-> Plans[plan].maxEdits, disturb |-> Plans[plan].maxDisturbances]
  BY <1>1
<1>3. /\ pc = "idle" /\ recreate = FALSE /\ fresh = FALSE /\ reported = 0
      /\ readyInc = IF cr.status.ready THEN 1 ELSE 0
  BY DEF Init
<1>4. start \in StartKinds
  BY ReconcilerAssumption DEF Plan
<1>5. /\ start \in {"legacy", "recreatable"} =>
           cr.status.ready /\ cr.status.resolved /\ cr.status.group = 1 /\ groups = {1} /\ bucket.inc = 1
      /\ start \in {"new", "foreign"} => ~cr.status.ready
  BY <1>2 DEF InitialCR, ReadyResource, NewResource, NewStatus, InitialBucket
<1>6. readyInc # 0 => Remembers(cr) /\ bucket.inc = 1 /\ readyInc = 1
  BY <1>3, <1>4, <1>5 DEF Remembers, StartKinds
<1>7. (Remembering /\ "buckets" \in Lags) => readyInc # 0
  <2>1. Plans[budget.plan].starts = Plans[plan].starts
    BY <1>2
  <2> QED
    BY <1>2, <1>3, <1>4, <1>5, <2>1 DEF Remembering, StartKinds
<1>8. Remembered
  BY <1>2, <1>3, <1>6 DEF Remembered, Remembers
<1>9. NewGroup /\ Directed /\ pc \notin GroupSteps
  BY <1>3 DEF NewGroup, Directed, ProvisioningSteps, ServingSteps, GroupSteps
<1>10. Noticed
  BY <1>3, <1>6 DEF Noticed, Unreported
<1> QED
  BY <1>7, <1>8, <1>9, <1>10 DEF Traced

\* Only a recorded Ready says which incarnation was Ready.
LEMMA ReadyWritten ==
  ASSUME [Next]_vars, readyInc' # readyInc
  PROVE  pc = "markReady" /\ readyInc' = bucket.inc /\ bucket.inc # 0
<1>1. ASSUME StartPass \/ AddFinalizer \/ PersistName \/ MarkProvisioning \/ GuardBucketPresent
             \/ HasBucket \/ CreateBucket \/ TagNew \/ AdoptOrCollide \/ Claim \/ ResolveGroup
             \/ CreateGroup \/ Stamp \/ RollbackGroup \/ EnsurePolicy \/ DecideKey
             \/ ClearKeys \/ CreateKey \/ WriteSecret \/ RollbackKey \/ FailPass
      PROVE  UNCHANGED readyInc
  BY <1>1 DEF StartPass, AddFinalizer, PersistName, MarkProvisioning, GuardBucketPresent, HasBucket,
              CreateBucket, TagNew, AdoptOrCollide, Claim, ResolveGroup, CreateGroup, Stamp, RollbackGroup,
              EnsurePolicy, DecideKey, ClearKeys, CreateKey, WriteSecret, RollbackKey, FailPass, NewLook, histVars
<1>2. ASSUME Teardown \/ Failing PROVE UNCHANGED readyInc
  BY <1>2 DEF Teardown, MarkDeleting, FindBucket, PrepareDelete, WipeBucket, ReleaseGroup, ReleaseStamp,
              DeleteGroup, CheckOwner, DeleteBucket, DeleteSecret, DropFinalizer,
              Failing, CallFails, ObjectWriteFails, TargetGone, NewLook, histVars
<1>3. ASSUME Environment \/ UNCHANGED vars PROVE UNCHANGED readyInc
  BY <1>3 DEF Environment, Crash, CacheSync, SecretSync,
              UserRotates, UserEditsSpec, UserAllowsWipe, UserDeletes, UsagePatch, UserDeletesSecret, Edit,
              KeyDeleted, GroupDeleted, BucketDeleted, ForeignCreates, ForeignClaims, ComesBehind,
              RotationRetracted, WorkloadWrites, Settle, histVars, vars
<1>4. MarkReady
  BY <1>1, <1>2, <1>3 DEF Next, Operator, Provision
<1> QED
  BY <1>4 DEF MarkReady

----------------------------------------------------------------------------
(* What it says about the system. *)

\* Every variable of the reconciler keeps its type, however many passes, crashes
\* and edits: no call of bucket_controller.go leaves a status, a tag set or a group
\* outside what the CRD and the provider know.
THEOREM ReconcilerTyped == Spec => []TypeOK
<1>1. IInv => TypeOK
  BY DEF IInv
<1> QED
  BY <1>1, ReconcilerInvariance, PTL

\* When the provider's reads do not lag, no crash, failure, deletion or teardown
\* leaves a live key in a group that neither tags nor policy name.
THEOREM KeysAttributed == Spec => [](~Lag => KeyedGroupAttributed)
<1>1. IInv => (~Lag => KeyedGroupAttributed)
  BY DEF IInv, Attributed, Recorded, LiveKeys, KeyedGroupAttributed
<1> QED
  BY <1>1, ReconcilerInvariance, PTL

\* When the provider's reads do not lag, a Bucket that is gone has left no bucket of
\* ours, no Secret and no key behind, whatever failed on the way.
THEOREM TeardownClean == Spec => [](~Lag => FinalizedClean)
<1>1. ASSUME IInv, ~Lag, ~cr.exists PROVE FinalizedClean
  <2>1. secret = None /\ ~Ours
    BY <1>1 DEF IInv, Kept
  <2>2. ASSUME lost = "never", NEW k \in Keys, keyGroup[k] # None
        PROVE  bucket.owner = "other" /\ keyGroup[k] = bucket.group
    <3>1. /\ keyGroup[k] \in {bucket.group, policy}
          /\ bucket.inc # 0 /\ bucket.owner # "none"
      BY <1>1, <2>2, UntaggedKeyless DEF IInv, Attributed, Recorded, LiveKeys
    <3>2. bucket.owner = "other"
      BY <1>1, <2>1, <3>1 DEF IInv, TypeOK, Cloud, Ours
    <3> QED
      BY <1>1, <2>2, <3>1, <3>2 DEF IInv, Incarnations
  <2> QED
    BY <2>1, <2>2 DEF FinalizedClean, Ours
<1>2. IInv => (~Lag => FinalizedClean)
  BY <1>1 DEF FinalizedClean
<1> QED
  BY <1>2, ReconcilerInvariance, PTL

\* A pass about to report Ready has published the only key of the group its bucket
\* admits (ensureAccessKeyAndSecret, decideKey): when passes run to their end and
\* nobody takes a key or the bucket away, however often Secrets and groups vanish;
\* and when one call of a behaviour fails or the operator dies once, after whichever
\* step, if only a foreign bucket disturbs it.
THEOREM ReadyIsServed == Spec => [](Undisturbed \/ OneFault => ReadyMeansServed)
<1>1. ASSUME IInv, Mended, Undisturbed \/ OneFault, pc = "markReady", secret # None, gid \in groups
      PROVE  ReadyMeansServed
  <2>1. /\ secret \in KeysOf(gid) /\ LiveKeys \subseteq {secret} /\ lost = "never" /\ ~Lag
    BY <1>1 DEF IInv, Served, Mended, Cleared, Prompt, Undisturbed, OneFault, Lag
  <2>2. bucket.group = gid /\ policy = gid /\ gid # None
    BY <1>1, <2>1, Constants DEF IInv, TypeOK, Attributed, Resolved, ServingSteps
  <2>3. bucket.owner = "us"
    BY <1>1, <2>1 DEF IInv, Adopted, Ours, OwnedSteps, ServingSteps
  <2>4. KeysOf(gid) \subseteq LiveKeys
    BY <2>2 DEF KeysOf, LiveKeys
  <2> QED
    BY <2>1, <2>2, <2>3, <2>4 DEF ReadyMeansServed
<1>2. IInv /\ Mended => (Undisturbed \/ OneFault => ReadyMeansServed)
  BY <1>1 DEF ReadyMeansServed
<1> QED
  BY <1>2, ReconcilerInvariance, InitMended, MendedStep, PTL DEF Spec

\* A bucket that vanished between two passes is made again only where the spec asks
\* for it, and a Bucket that is Ready again on another bucket has reported the loss,
\* whatever call fails and wherever the operator dies: a bucket made by a pass that
\* did not live to report it gets no group while the recorded one exists
\* (guardBucketPresent, guardGroupCreate).
THEOREM RecreationSafe == Spec /\ []Remembering => RecreationAuthorised
<1> DEFINE Act == (readyInc # 0 /\ lost # "during") =>
        /\ (bucket.inc = 0 /\ bucket'.inc # 0 /\ pc = "createBucket" /\ pc' # pc) => b.allowRecreate
        /\ readyInc' # readyInc => reported = readyInc'
<1>1. ASSUME IInv, Traced, Remembering, [Next]_vars PROVE Act
  <2>0. Noticed /\ Directed
    BY <1>1 DEF Traced
  <2>1. (readyInc # 0 /\ lost # "during" /\ bucket.inc = 0 /\ pc = "createBucket") => b.allowRecreate
    BY <2>0 DEF Noticed, Directed
  <2>2. ASSUME readyInc' # readyInc
        PROVE  pc = "markReady" /\ readyInc' = bucket.inc /\ bucket.inc # 0
    BY <1>1, <2>2, ReadyWritten
  <2>3. ASSUME readyInc # 0, lost # "during", readyInc' # readyInc PROVE reported = readyInc'
    <3>1. Ours /\ pc \in AttributingSteps
      BY <1>1, <2>2, <2>3 DEF IInv, Adopted, Untagged, Ours, OwnedSteps, ServingSteps, AttributingSteps, GroupSteps
    <3> QED
      BY <2>0, <2>2, <2>3, <3>1 DEF Noticed, Unreported
  <2> QED
    BY <2>1, <2>3
<1>2. IInv /\ Traced /\ Remembering /\ [Next]_vars => [Act]_vars
  BY <1>1
<1>3. RecreationAuthorised <=> [][Act]_vars
  BY DEF RecreationAuthorised
<1> HIDE DEF Act
<1> QED
  BY <1>2, <1>3, ReconcilerInvariance, InitTraced, TracedStep, PTL DEF Spec

\* Which steps of the operator write to the cloud.
LEMMA OperatorWrites ==
  ASSUME Operator
  PROVE  \/ UNCHANGED <<bucket, policy, groups, keyGroup>>
         \/ pc = "createBucket" /\ bucket.inc = 0
         \/ pc \in {"tagNew", "claim"} \cup (OwnedSteps \ {"resolveGroup"})
<1>1. CASE Provision
  BY <1>1 DEF Provision, StartPass, AddFinalizer, PersistName, MarkProvisioning, GuardBucketPresent,
       HasBucket, CreateBucket, TagNew, AdoptOrCollide, Claim, ResolveGroup, CreateGroup, Stamp,
       RollbackGroup, EnsurePolicy, DecideKey, ClearKeys, CreateKey, WriteSecret, RollbackKey,
       MarkReady, FailPass, provVars, OwnedSteps, ServingSteps
<1>2. CASE Teardown
  BY <1>2 DEF Teardown, MarkDeleting, FindBucket, PrepareDelete, WipeBucket, ReleaseGroup,
       ReleaseStamp, DeleteGroup, CheckOwner, DeleteBucket, DeleteSecret, DropFinalizer,
       provVars, OwnedSteps
<1>3. CASE Failing
  BY <1>3 DEF Failing, CallFails, ObjectWriteFails, TargetGone, provVars
<1> QED
  BY <1>1, <1>2, <1>3 DEF Operator

\* Only the operator and its death move a pass; its death writes nothing.
LEMMA OthersMoveNoPass ==
  ASSUME [Next]_vars, PassMoves, ~Operator
  PROVE  UNCHANGED <<bucket, policy, groups, keyGroup>>
<1>1. CASE Crash
  BY <1>1 DEF Crash, provVars
<1>2. ASSUME Environment \/ UNCHANGED vars, ~Crash PROVE ~PassMoves
  BY <1>2 DEF Environment, CacheSync, SecretSync, UserRotates, UserEditsSpec, UserAllowsWipe,
       UserDeletes, UsagePatch, Edit, UserDeletesSecret, KeyDeleted, GroupDeleted, BucketDeleted,
       ForeignCreates, ForeignClaims, RotationRetracted, WorkloadWrites, Settle, PassMoves, passVars,
       vars
<1> QED
  BY <1>1, <1>2 DEF Next

\* When the provider's reads do not lag, no pass changes a bucket of somebody else, its
\* policy, or the group and the keys it names, unless the bucket came into those hands
\* after the last look of the pass at its tags and before a write that relies on that
\* look (behind): between the adoption check and the tagging, between the create and
\* the tagging, between the owner check and the delete. Every other arrival, before
\* a pass or during one, at a create the provider refuses included, is met by a look.
THEOREM ForeignSafe == Spec => ForeignUntouched
<1> DEFINE Theirs == bucket.inc # 0 /\ (bucket.owner = "other" \/ (bucket.owner = "none" /\ bucket.data))
<1>1. ASSUME IInv, Theirs, ~Lag, ~behind, [Next]_vars, PassMoves
      PROVE  UNCHANGED <<bucket, policy, groups, keyGroup>>
  <2>1. pc \notin {"tagNew", "claim"} \cup (OwnedSteps \ {"resolveGroup"})
    BY <1>1 DEF IInv, Adopted, Untagged
  <2> QED
    BY <1>1, <2>1, OperatorWrites, OthersMoveNoPass
<1>2. ASSUME IInv, [Next]_vars
      PROVE  (/\ bucket.inc # 0 /\ (bucket.owner = "other" \/ (bucket.owner = "none" /\ bucket.data))
              /\ ~Lag /\ ~behind /\ PassMoves) =>
                /\ bucket' = bucket /\ policy' = policy
                /\ bucket.group \in groups => bucket.group \in groups'
                /\ bucket.group # None => \A k \in KeysOf(bucket.group) : keyGroup'[k] = keyGroup[k]
  BY <1>1, <1>2
<1> QED
  BY <1>2, ReconcilerInvariance, PTL DEF Spec, ForeignUntouched

\* What a step that moves the pass does to the objects in the bucket.
LEMMA ObjectsWritten ==
  ASSUME IInv, Next, pc' # pc, bucket.inc # 0, bucket.data
  PROVE  \/ bucket'.inc = bucket.inc /\ bucket'.data
         \/ pc = "wipe" /\ bucket'.inc = bucket.inc
<1>1. bucket \in Cloud
  BY DEF IInv, TypeOK
<1>2. CASE UNCHANGED bucket
  BY <1>2
<1>3. CASE TagNew \/ Claim \/ Stamp \/ ReleaseStamp
  <2>1. \E g : bucket' = [bucket EXCEPT !.owner = "us", !.group = g]
    BY <1>3 DEF TagNew, Claim, Stamp, ReleaseStamp
  <2> QED
    BY <1>1, <2>1 DEF Cloud
<1>4. CASE WipeBucket
  BY <1>1, <1>4 DEF WipeBucket, Cloud
<1>5. CASE CreateBucket \/ DeleteBucket
  BY <1>5 DEF CreateBucket, DeleteBucket
<1>6. UNCHANGED bucket \/ TagNew \/ Claim \/ Stamp \/ ReleaseStamp \/ WipeBucket \/ CreateBucket
      \/ DeleteBucket
  <2>1. CASE Provision
    BY <2>1 DEF Provision, StartPass, AddFinalizer, PersistName, MarkProvisioning,
         GuardBucketPresent, HasBucket, AdoptOrCollide, ResolveGroup, CreateGroup, RollbackGroup,
         EnsurePolicy, DecideKey, ClearKeys, CreateKey, WriteSecret, RollbackKey, MarkReady,
         FailPass, provVars
  <2>2. CASE Teardown
    BY <2>2 DEF Teardown, MarkDeleting, FindBucket, PrepareDelete, ReleaseGroup, DeleteGroup,
         CheckOwner, DeleteSecret, DropFinalizer, provVars
  <2>3. CASE Failing
    BY <2>3 DEF Failing, CallFails, ObjectWriteFails, TargetGone, provVars
  <2>4. CASE Environment
    BY <2>4 DEF Environment, Crash, CacheSync, SecretSync, UserRotates, UserEditsSpec,
         UserAllowsWipe, UserDeletes, UsagePatch, Edit, UserDeletesSecret, KeyDeleted, GroupDeleted,
         BucketDeleted, ForeignCreates, ForeignClaims, RotationRetracted, WorkloadWrites, Settle,
         passVars, provVars
  <2> QED
    BY <2>1, <2>2, <2>3, <2>4 DEF Next, Operator
<1> QED
  BY <1>2, <1>3, <1>4, <1>5, <1>6

\* Objects are destroyed only by a wipe that the spec asks for and the gate allows, on a
\* Bucket under deletion, also with lagging reads and whatever arrives after the
\* emptiness check; and in a bucket that is ours, or that replaced ours since the pass
\* looked at its tags (behind).
THEOREM DataSafe == Spec => DataGuarded
<1> DEFINE Allowed == /\ b.wipe /\ EnableWipeOnDelete /\ b.deleting
                      /\ bucket.owner = "us" \/ behind
<1>1. ASSUME IInv, [Next]_vars, bucket.inc # 0, bucket.data, pc' # pc
      PROVE  bucket'.inc = bucket.inc /\ (bucket'.data \/ Allowed)
  <2>1. Next
    BY <1>1 DEF vars
  <2>2. pc = "wipe" => Allowed
    BY <1>1 DEF IInv, Asked, Adopted, OwnedSteps, TeardownSteps
  <2> QED
    BY <1>1, <2>1, <2>2, ObjectsWritten
<1>2. ASSUME IInv, [Next]_vars
      PROVE  (bucket.inc # 0 /\ bucket.data /\ pc' # pc) =>
               bucket'.inc = bucket.inc /\ (bucket'.data \/ Allowed)
  BY <1>1, <1>2
<1> QED
  BY <1>2, ReconcilerInvariance, PTL DEF Spec, DataGuarded
=============================================================================
