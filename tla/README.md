# Verification of stackit-s3-provisioner

TLA+ models of the operator's core, model-checked with TLC on small instances and
proved with TLAPS where a statement can be made for every instance.
`PROJECT.json` holds the machine-readable part: components, runs, mutants, the
map from definitions to source lines, findings, hazards and theorems.

Run a check inside this directory with `tlc -workers 2 -config <cfg> <module>`,
a proof with `tlapm <module>.tla`.

## 1. Inventory of the system

The operator provisions one object-storage bucket per `Bucket` resource: a bucket
under a frozen name, ownership tags, a credentials group, an isolation policy that
admits only that group, one access key, and a Secret with that key. Everything it
knows is spread over four places: the Bucket (spec, annotations, status), the
Secret, the provider, and the memory of the process.

| Component | State | Operations | Hard because |
|---|---|---|---|
| Bucket reconciler, provisioning (`internal/controller/bucket_controller.go`) | Bucket status, annotations, Secret; in memory only the pass itself | `reconcileNormal`, `guardBucketPresent`, `ensureBucket`, `adoptOrCollide`, `resolveWorkloadGroup`, `ensureBucketPolicy`, `ensureAccessKeyAndSecret`, `fail`, `degrade` | about fifteen remote calls per pass, each of which may fail before or after its effect, on data read from a cache |
| Bucket reconciler, teardown | the same, finalizer | `reconcileDelete`, `teardown`, `prepareBucketForDelete`, `releaseWorkloadGroup`, `deleteBucketIfOwned` | irreversible steps in an order, a workload that still writes |
| Provider client (`stackit/client.go`, `s3.go`, `errors.go`) | none of its own; the provider's buckets, tags, policies, groups, keys | list, create, delete, tag, wipe | eventually consistent reads; refusal against outage |
| Circuit breaker (`internal/controller/breaker.go`) | failures in a row, cooldown, `openUntil`, `openedAt` | `Allow`, `Failure`, `Success` | shared by all passes and by the key reloader |
| Degradation hold (`holdForProvider`, `degrade`, `holdsReadyThrough`) | `status.degradedSince`, phase, Ready | hold, drop, recover | a status that must be right while nothing can be verified |
| Key reloader (`stackit/keyreload.go`, `internal/controller/sakey_reload.go`) | live client state, backoff of the rejected content, gauge | `tick`, `reload`, `Observe` | file and provider change while the probe runs |
| Clone (`internal/controller/clone.go`) | `status.clone`, Job, staging Secret | start, poll, complete, clean up | one-shot, must survive a crash between completion and clean-up |
| Read grants | policy statements of other Buckets' groups | `resolveReadGrants`, wake-up of the grantor | two Buckets and their events |
| Usage controller (`bucket_usage_controller.go`) | `status.usage`, its own schedule | measure, patch | second writer of the Bucket |
| Admin bootstrap (`ensureAdmin`) | admin Secret, cached credential | create group, key, Secret | crash between key and Secret |
| Isolation policy (`stackit/s3.go`) | none | `buildIsolationPolicy`, `WorkloadPrincipalFromPolicy` | one document decides who gets in, and is read back to find the group |
| Names, retry transport, metrics, wiring | none | pure functions, I/O | — |

Interaction: an event (watch), a requeue or the drift resync makes a pass due.
The pass reads the Bucket from the informer's cache, asks the breaker, makes its
calls one after the other, and ends with one status write that is refused when the
Bucket moved since it was read. The outcome is reported to the breaker. The usage
controller, users and the key reloader run beside it.

What makes each part correct: a reported Ready is backed by a credential that
works; a group with a key is always reachable from its bucket; nothing that is not
ours is touched; no data is destroyed without authorisation and no vanished bucket
is silently replaced; whatever fails, the Bucket converges or its deletion ends;
an outage has one beginning, holds Ready no longer than the grace, and is over for
the whole fleet when the provider answers; a rejected service-account key keeps
its alarm up and a good one is put to work; a policy admits the operator, the
workload and the groups of named Buckets, and nobody else; the operator holds
exactly one credential of its own; two writers of one status do not undo each
other. The hazards in `PROJECT.json` name the
lines where each of these could go wrong.

## 2. Modules

| Module | Models |
|---|---|
| `ProviderBreaker` | the breaker and its callers; every method holds the mutex, so each is one step |
| `ProviderHold` | a fleet of Buckets over `INSTANCE ProviderBreaker`: what they advertise during an outage |
| `KeyReloader` | the poller of the service-account key, its probe, backoff and gauge |
| `BucketReconciler` | one Bucket: every call of a provisioning pass and of a teardown, the provider, both informers, users and faults |
| `Clone` | the one-shot clone of one Bucket: the Job, its staging Secret, and what is held back until it has copied |
| `IsolationPolicy` | the policy document, what is read back from one, and what it lets a principal do; pure operators |
| `ReadAccess` | abstract: who may do what with a bucket, whatever is written down |
| `ReadGrants` | several Buckets that grant reading to each other; implements `ReadAccess` |
| `AdminBootstrap` | the operator's own S3 credential: group, key, Secret, memory |
| `BucketUsage` | the measuring controller of one Bucket beside the provisioning one |
| `*Proofs` | theorems about all of these; those about `IsolationPolicy` are in `ReadGrantsProofs` |
| `MC*` | the modules the configurations instantiate |

*Plans.* A module with many kinds of disturbance takes a constant `Plans`: named
situations, each with its starts, its disturbances and their budgets. `Init`
chooses one of them, so a run goes through all of its situations and a property
holds in each.

**BucketReconciler.** `cr`, `secret` are the API server; `bucket`, `policy`,
`groups`, `keyGroup` the provider; `cache`, `stored` the informers' copies; `b`,
`gid`, `key`, `drain`, ... the local variables of the pass whose next call is
`pc`. One action is one call, in the order of the code:
`StartPass`, `AddFinalizer`, `PersistName`, `MarkProvisioning`,
`GuardBucketPresent`, `HasBucket`, `CreateBucket`, `TagNew` or `AdoptOrCollide`
and `Claim`, `ResolveGroup`, `CreateGroup`, `Stamp`, `EnsurePolicy`, `DecideKey`,
`ClearKeys`, `CreateKey`, `WriteSecret`, `MarkReady`; the roll-backs
`RollbackGroup` and `RollbackKey`; `FailPass` for `fail`, `failNoRequeue` and
`degrade`; and for the teardown `MarkDeleting`, `FindBucket`, `PrepareDelete`,
`WipeBucket`, `ReleaseGroup`, `ReleaseStamp`, `ClearKeys`, `DeleteGroup`,
`CheckOwner`, `DeleteBucket`, `DeleteSecret`, `DropFinalizer`.

- A call fails without effect (`CallFails`, `ObjectWriteFails`), takes effect and
  its answer is lost (`Applied`), or finds its target gone (`TargetGone`). The
  failure carries what the code tells apart: unreachable, refused by the provider,
  credential destroyed, definitive, missing.
- `stale` stands for optimistic concurrency: once anybody else has written the
  Bucket, every write of the pass's copy is refused, with the reaction of that
  place in the code (retry, or best effort).
- `seen` is what a lagging provider read may still show. `Settle` ends the lag.
- Somebody else may take the name, or claim an untagged bucket under it, at any point
  of a pass (`ForeignCreates`, `ForeignClaims`). `behind` is a history variable: such an
  arrival came after the look at the tags that the rest of the pass relies on
  (`RelyingSteps`); the next look (`NewLook`: the start of a pass, `AdoptOrCollide`,
  `ResolveGroup`, `PrepareDelete`, `ReleaseGroup`, `CheckOwner`) clears it.
- Group id and URN are one value, stamped together. A bucket from before the URN tag,
  for which `groupFromTags` looks the URN up in the listing (lines 1051-1062), is left
  out; so is a Bucket whose `secretRef` is the operator's own admin Secret, which
  `specGuardError` refuses and teardown skips (line 1424). A key is identified with its
  secret half. Sizes, names and messages are gone.

**ProviderHold** keeps per Bucket the phase, Ready, generations and
`degradedSince`. A pass is its start and its end. The ends are those of the code:
`Succeed` (verified Ready), `Fail` (no answer), `FailRefused`, `ReportMissing`
(`guardBucketPresent` finds the bucket gone: it clears `degradedSince`, drops Ready and
reports nothing to the breaker) and `FailDefinitive` (`failNoRequeue`: it keeps
`degradedSince` and is not requeued, `Parked`). `gone` are the buckets deleted out of
band; they may come back. Passes over different Buckets may overlap; the controller's
default of one worker is a special case.

**KeyReloader** identifies a file content with its hash. A poll is one step up to
the probe; the probe's answer is another, with changes of the file and revocations
in between. The breaker hears of an applied key in `ProviderBreaker!KeyReloaded`.

**Clone** takes apart the step that `BucketReconciler` leaves out and folds what
that module takes apart (provisioning, issuing the credential, the teardown after
the clone) into single steps. `cr`, `job`, `staging`, `published` and `granted`
are what outlives the operator; `cache` and `jobSeen` are the informers; `pc` and
`b` the pass. In the order of the code: `ApplyPolicy` without the readers,
`PublishSecret` if it is not held back, `ReadSource`, `EnsureStaging`, then
`CreateJob`, or `ObserveJob` followed by `UpdateProgress` (poll again),
`DropFailedJob` (fail, retry) or `PersistCompletion`, `DropJob`, `DropStaging`,
`Regrant`, `PublishSecret`, `MarkReady`. A deletion runs `MarkDeleting`, `StopJob`,
`StopStaging`, `Finalise`. `JobEnds` and `JobExpires` are the
cluster's. A pass may read a Bucket from before its last writes, `MaxLags` times in a
behaviour; `Prompt` says that none has so far. `spec.cloneFrom` is valid and not
edited; bytes, rates and the pods of a Job are left out.

**ReadGrants** has `cr`, `cache` for the Buckets, and per bucket name `own` (whose
ownership tags it carries), `group` (the group its tags attribute), `policy` and
what a lagging read still shows, `seen`. `live` are the groups that exist. One pass
at a time, taken from `wake`: `Provision` (folded into a step, `BucketReconciler`
has it in full), `ResolveGrant` for each grant in order, from the informer's copy
of the grantee and from the grantee's bucket, `ApplyPolicy`, `MarkReady` or
`FailPass`; a deletion runs `Release`, `RemoveBucket`, `DropFinalizer`. `CacheSync`
delivers one Bucket's changes through the two predicates that decide whom they
wake: the Bucket itself, and through the index the Buckets that grant to it. Two
Buckets may aim at one name. `Promise` is `INSTANCE ReadAccess` with the owner tags
as the owners and the access each policy gives (`Allows`) as the access. `named`
is a history variable: a policy may lag behind a revocation, and never names a
group of a Bucket that was never named.

**AdminBootstrap.** `EnsureAdmin` takes the credential from memory, from a complete
Secret, or starts a bootstrap: `EnsureCredentialsGroup` (look up by display name,
else create), `ClearKeys`, `CreateKey`, `WriteSecret`, and `Rollback` of the key
when the write failed. The Secret is read from the informer and written under the
version it shows. One bootstrap at a time, because `ensureAdmin` holds a mutex and
the controllers run on the elected leader only. `UseAdmin` stands for any pass that
writes a policy: it exempts the group of the credential in memory, and needs a key
that is alive. `SecretRemoved` with `RestartByHand` is the documented way to replace
the key.

**BucketUsage.** `StartPass` reads the informer's copy and decides (`Precheck`):
measure, come back later, record that measuring is off (`park`), remove what an
earlier measurement left (`clear`), or nothing. `Measure` lists up to the cap;
`WriteUsage`, `WriteMessage` and `WriteParked` patch. `Merge` is the JSON merge
patch: only fields that differ from the copy the pass read are sent, without a
version, on whatever the Bucket says by then. `ProvisionStart` and
`ProvisionWrite` are the other controller, which updates the whole status under the
version it read. `timer` is the delay the last pass returned, `Ages` the interval;
a new deployment (`Restart`) may move the operator-wide gate.

## 3. Runs

| Run | Instance | Shows |
|---|---|---|
| `breaker` | 2 workers, threshold 2, cooldown 2 capped at 5, 16 ticks | `ScheduleCoherent`, `ShutScheduleFixed`, `EpisodeDatesOutage`, `ProbeComesDue` |
| `fleet_hold` | 2 Buckets, grace 2, 4 ticks, 2 turns of the provider, 1 event: an edit, a spec at fault and its repair, a vanished bucket and its return, or a restart | `DrivesBreaker` (refinement), `OutageDatedOnce`, `GraceEnds`, `FleetRecovers` |
| `key_reload` | 3 contents, one malformed, cap 5, 5 changes, 1 unanswered probe | `BackoffCoherent`, `AlarmStands`, `GoodKeyApplied` |
| `reconciler` | eight situations. `crashes`: new, legacy and current Buckets, 2 edits among rotation, patch, lost Secret, 1 crash or failing call anywhere. `informers`: both lag, 2 such edits. `retraction`: the Bucket informer lags, 2 edits, 1 retraction; none of these with the resync. `lag`: provider reads lag, lost Secret, group deleted out of band. `teardown`: deletion, wipe allowed before or after, a writing workload, 1 crash or failing call. `vanish`: the bucket vanishes, 2 edits of the spec, 1 crash or failing call. `foreign`: somebody else's bucket under the name, at first, or after a loss between or in the middle of passes, deletion and wipe. `race`: a new Bucket whose name others take and claim while its first passes and its deletion run, 1 failing call, a key deleted by hand | `ReadyMeansServed`, `KeyedGroupAttributed`, `Converges` (without the resync: no wake-up is lost), `FinalizedClean`, `DataGuarded`, `DeletionCompletes`, `RecreationAuthorised`, `VanishReported`, `ForeignUntouched` |
| `grants` | 3 Buckets, 2 of them granting to each other, 1 aiming at the name of another; 2 groups each; edits, failures, a group deleted or a status overwritten, lagging reads | `KeepsPromise` (refinement of `ReadAccess`), `NoSpuriousRevocation`, `GrantsConverge` |
| `admin` | 3 crashes or failing calls and 1 replaced Secret; the same with 2 and a lagging listing | `SoleKey`, `NotLockedOut`, `Bootstraps` |
| `usage` | sizes below, at and above the cap of 1, all five spellings of `spec.usage`; 2 edits; or 2 failures and 1 write of the workload; 2 provisioning passes | `WritersApart`, `UsageConverges` |
| `clone` | held and unheld Secret; 2 crashes or failing calls, 1 failing Job, 1 Job removed by its TTL, 1 conflicting patch, 1 pass over an outdated Bucket, a deletion at any point | `HeldUntilCloned`, `CloneOnce`, `NoLeftovers`, `CloneSettles` |
| `dead_credential` | 1 rotation, 1 crash, stale Bucket | violates `ReadyMeansServed` |
| `second_group` | 1 edit, lagging provider | violates `KeyedGroupAttributed` |
| `admin_dead_key` | the answer of one Secret write is lost | violates `AdminKeyLives` |
| `clone_twice` | no failure, 1 pass over an outdated Bucket | violates `CompletedTerminal` (ADR 0011 D5) |

*Bounds.* Failures, edits and disturbances are budgets because a scenario needs
few of them to go wrong and none of the loops counts beyond one retry: a retry
starts from the same places as a first pass. Identities of groups and keys are
reused once nothing refers to them, three or four are enough for every run to
proceed (the runs with deadlock checking on would report an exhausted set). Time
in `breaker` reaches three doublings and the cap; in `fleet_hold` the grace, the
cap and a further cooldown. Runs differ in which disturbances they combine, since
some combinations break a property: those are the last four runs and section 5.
Two failures in `clone` let a second one hit the retry of the first; three in
`admin` let one leave a key behind, one hit the retry, and one the roll-back, with
identities to spare. In `grants` a third Bucket is what makes a name contested, and
a second group per Bucket what makes an attribution outdated.

*Deadlock* is switched off where the system comes to rest: a finished deletion, or
a Bucket at rest without the resync.

*Fairness.* A due pass is run and a running pass makes its next call
(`WF(Operator)`: the work queue and the calls' timeouts); informers and provider
reads catch up; the clock ticks; the reloader's ticker fires; a clone's Job ends
one way or the other (its pods succeed or exhaust `backoffLimit`). In `grants` a
Bucket that is due again and again gets its turn (strong fairness of `StartPass`
per Bucket: the queue is first come, first served). In `admin` passes keep asking
for the credential, because an error requeues the Bucket. In `usage` a returned
delay ends, and not before the informer has caught up for a moment
(`TimerRipens`: the shortest delay is a minute); intervals pass. In `fleet_hold` a
Bucket that `failNoRequeue` gave up on (`Parked`) is owed no pass. Users, crashes,
faults, the provider's condition and the workload owe nothing. `Converges` holds
because each budget of disturbances is finite.

*Initial states.* "new" is a Bucket just created; "recreatable" and "legacy" are
Buckets at rest as a completed pass of the current or of an older version (no
group tags, group named by the policy only) leaves them; "foreign" is a bucket
somebody else made.

## 4. Proofs

| Theorem | Statement |
|---|---|
| `ProviderBreakerProofs!BreakerSafety` | types and `ScheduleCoherent` always hold |
| `ProviderBreakerProofs!BreakerTyped`, `ProviderHoldProofs!FleetTyped`, `KeyReloaderProofs!ReloaderTyped`, `CloneProofs!CloneTyped` | types always hold |
| `ProviderBreakerProofs!ShutScheduleHolds` | `ShutScheduleFixed` |
| `ProviderBreakerProofs!EpisodeDated` | `EpisodeDatesOutage` |
| `ProviderHoldProofs!FleetDrivesBreaker` | the fleet implements `ProviderBreaker` (`DrivesBreaker`) |
| `ProviderHoldProofs!OutageHasOneDate` | `OutageDatedOnce`: moved never, cleared only by a pass the provider answered about the Bucket, with a verified Ready or the report that its bucket is gone |
| `KeyReloaderProofs!BackoffBounded` | types and `BackoffCoherent` always hold |
| `KeyReloaderProofs!AlarmHolds` | `AlarmStands` always holds |
| `CloneProofs!NothingLeft` | `NoLeftovers` always holds, lagging informers included |
| `CloneProofs!NobodyEarly` | `HeldUntilCloned` always holds: nobody in before the source is copied, whatever the passes read; no copy beside them until a pass has worked from an outdated Bucket |
| `CloneProofs!RunsOnce` | `CloneOnce`: until a pass has worked from an outdated Bucket, only an expired Job makes a copy run twice; `Completed` is never taken back |
| `ReadGrantsProofs!AdminNeverDenied` | no policy, whatever the readers, denies the operator anything |
| `ReadGrantsProofs!WorkloadObjectsOnly` | the workload may do exactly the object actions |
| `ReadGrantsProofs!OthersReadIfGranted` | any other group may read if it was granted, and nothing else |
| `ReadGrantsProofs!PrincipalRecovered` | the group read back from a written policy is the one it was written for |
| `AdminBootstrapProofs!AdminTyped` | types always hold |
| `AdminBootstrapProofs!AdminSoleKey` | `SoleKey` always holds |
| `AdminBootstrapProofs!AdminNotLockedOut` | `NotLockedOut` always holds |
| `ReadGrantsProofs!GrantsTyped` | types always hold |
| `ReadGrantsProofs!GrantsKeepPromise` | the protocol implements `ReadAccess` (`KeepsPromise`), lagging reads and informers included |
| `ReadGrantsProofs!NoReaderShutOut` | `NoSpuriousRevocation`, whose hypothesis is that the provider's reads are up to date |
| `BucketUsageProofs!UsageTypeCorrect` | types always hold |
| `BucketUsageProofs!UsageWritersApart` | `WritersApart` |
| `BucketReconcilerProofs!ReconcilerTyped` | types always hold |
| `BucketReconcilerProofs!DataSafe` | `DataGuarded`, for every plan, lagging reads included |
| `BucketReconcilerProofs!ForeignSafe` | `ForeignUntouched`, whose hypotheses are that reads do not lag and that the bucket did not come behind the pass's back |
| `BucketReconcilerProofs!KeysAttributed` | `KeyedGroupAttributed` always holds if the provider's reads do not lag |
| `BucketReconcilerProofs!TeardownClean` | `FinalizedClean` always holds if the provider's reads do not lag |
| `BucketReconcilerProofs!ReadyIsServed` | `ReadyMeansServed` always holds if `Undisturbed` or `OneFault` |
| `BucketReconcilerProofs!RecreationSafe` | `RecreationAuthorised` if `Remembering` |

They hold for any set of workers or Buckets, any threshold, cooldown, cap
(including a cap below the base cooldown and a disabled breaker), any grace and
any contents; the assumptions are the named `ASSUME`s of the modules, and no bound
of an instance is used beyond being a number.

*Breaker.* `ScheduleCoherent` with the types is inductive. The action properties
follow from it: a failure that meets a shut breaker finds the count at the
threshold, so the branch that leaves the schedule alone is the one taken, and
doubling a cooldown that lies between base and cap never shortens it.

*Fleet.* The refinement is a step-by-step argument without an invariant. That an
outage has one date needs one: a pass writes back the copy it read, so the
induction carries `CopyCurrent` - during a pass `degradedSince` of the copy is the
one of the object, and the copies agree entirely unless the spec moved. A step that
clears the date is then one of the two ends that clear it in the copy, and its write
landed.

*Reloader.* `AlarmStands` is not inductive by itself: an accepted probe would clear
the schedule of the very content it installs. The induction adds
`ProbeIsCandidate`, that the content under probe is not the one in use.

*Clone.* `NoLeftovers` speaks of the moment the finalizer goes; the induction
(`LeftInv`) says what each later step of a teardown can rely on: from `stopJob` on
no step creates a Job, so what was removed stays removed, and no copy of a Bucket
(in the informer or in the pass) is ever ahead of the Bucket itself, so a pass that
provisions cannot run beside a deletion that has finished. `EarlyInv` needs no
up-to-date Bucket: whatever lets somebody in goes back to `Completed`, in the status or
in a copy of it, and `Completed` to a Job that was seen to succeed; and a pass whose
copy is still current knows of `Completed`, so its status writes do not take it back.
`HeldInv` and `OnceInv` are carried as `Prompt => ...`: while no pass has worked from an
outdated Bucket, past the hold means that `Completed` is recorded and no copy runs, and
an unrecorded success is still there to be seen - the Job is in the cluster - unless it
expired, which is the exception `CloneOnce` makes. Without `Prompt` both fail: that is
the run `clone_twice`.

*Policy.* These are facts about operators, for any set of readers, the operator's
and the workload's own group among them: `SanitizeReaderURNs` is what keeps a grant
to either from turning into a Deny on it.

*Admin credential.* `SoleKey` and `NotLockedOut` speak of a process that holds a
credential. What a process may take from the Secret depends on what earlier ones
left, so the invariant `IInv` follows the key through every step: `OneGroup` (a
listing that does not lag shows all groups, and there is one), `Attached` (whatever
names a group names one that exists) and `OneKey` (no key between clearing and
creating, the fresh one until it is stored or taken back, then the one in the
Secret). The last needs that no answer of a Secret write is lost, and section 5
says what happens otherwise.

*Grants.* A pass resolves a grant from copies that may be old, of the Bucket that
grants, of the grantee and of the grantee's bucket. `IInv` says why no mixture of
them admits a stranger. `Belonging`: whatever a bucket attributes, by its tags or by
its policy, now or in a lagging read, belongs to the Bucket that owns the bucket.
`Named`: no copy of a Bucket holds a grant that the Bucket was not given. `Working`
is what each step of a pass can rely on, for the readers collected so far and the
group the policy will be written for. `Alive` and `Settled` say at which points of
its life a Bucket has a group and a policy; `NoSpuriousRevocation` needs them, the
refinement does not. Each action is then shown to be a step of `ReadAccess` or to
leave owners and access alone; `Provision` and `ApplyPolicy` are the long cases.

*Usage.* The provisioning pass writes the whole status, so it is apart from the
usage controller only because its write is refused when somebody wrote in between.
`Tracked` says that: a provisioning pass whose version is current holds the
measurement as it stands. The patches of the other side need no invariant, since
`Merge` leaves the fields of provisioning alone.

*Reconciler.* The theorems speak of every behaviour of every plan; their conditions
are about the plan, so they do not change along a behaviour. `IInv` has, beside the
types:

- `Asked`: a pass tears down only what its copy shows as deleting, and wipes only what
  that copy and the operator's gate allow (for `DataGuarded`);
- `Incarnations` and `Adopted`: a lagging read does not take a bucket for ours that is
  not, an untagged bucket leads to no group, and what a pass has seen of the owner
  stays true until somebody comes behind its back (for `ForeignUntouched`);
- `Attributed`, as long as reads do not lag and the bucket was not taken away:
  `Recorded`, keys are in live groups that tags or policy lead to, and the two do not
  lead to different ones; `Resolved`, what a provisioning pass knows at each step of
  the group it works with; `Released`, what a teardown has already removed;
- `Objects`: the Bucket outlives every pass that provisions it, because the informer
  has shown the deletion before a teardown starts;
- `Kept`: without its finalizer a Bucket has nothing left to clean up;
- `Served`: without failures no pass that runs to its end leaves a key beside the one
  in the Secret.

`ReadyIsServed` is proved for two kinds of plan. `Undisturbed`: the provider's reads
do not lag, nothing fails, nobody deletes a key or the bucket behind the operator's
back - with the informers lagging, with edits, rotations, retractions, a lost Secret
or a lost group. `OneFault`: at most one crash or failing call, anywhere, answers that
were lost included, with informers up to date. The second needs another invariant,
`Mended`: a key beside the one in the Secret lives only as long as the rotation it was
made for is still pending (`Cleared`, `Spared`), and that request stands until the
pass that served it is recorded (`Requested`); so the pass that follows the failure
rotates again and clears it. Section 5 lists what breaks the property
beyond these conditions: they cannot simply be dropped.

`RecreationSafe` rests on `Traced`. `Remembered`: a Bucket that was Ready knows it, and
names a group that lives, in every copy a provisioning pass works from. `NewGroup`: a
group that may still be rolled back is in no status. `Directed` and `Noticed`: a
bucket that appeared without authorisation gets no group, because `guardGroupCreate`
finds the recorded group alive, so it cannot become Ready before it was reported.
`Remembering`, the condition, is that the provider's reads do not lag, that nobody
deletes a group by hand, and that the Bucket informer lags only for Buckets that were
Ready at the start.

*Only model-checked*: the liveness properties (`ProbeComesDue`, `GraceEnds`,
`FleetRecovers`, `GoodKeyApplied`, `Converges`, `VanishReported`, `DeletionCompletes`,
`GrantsConverge`, `Bootstraps`, `UsageConverges`, `CloneSettles`), because TLAPS does
not reason about fairness here; and, of the reconciler's safety properties,
`ReadyMeansServed` and `KeyedGroupAttributed` where the provider's reads lag (plan
`lag` of the run `reconciler`).

## 5. Where code and documentation disagree

Four disagreements are runs of their own, each a finding in `PROJECT.json`:

- **dead_credential.** A credential is kept when the group holds *a* key, not
  *its* key. After a rotation repeated from a stale cache and a crash before the
  Secret write, Ready stands over a dead credential, and stays.
- **second_group.** The guard of ADR 0002 D8 needs a status that was written. When
  the first Ready write conflicts and the tags lag, a second keyed group appears.
- **admin_dead_key.** ADR 0004 takes the fresh admin key back when its Secret could
  not be written. When only the answer of the write was lost, the Secret holds the
  deleted key, and every process from then on works with it.
- **clone_twice.** ADR 0011 D5 says a completed clone never runs again. The end of its
  Job wakes a pass through the Job's informer; if the Bucket's informer is behind the
  completion write, that pass finds the clone pending and no Job, creates it anew and
  copies a second time. No failure is needed.

Others came up while modelling and are kept in the list of hazards, each with the
line and the order of events:

- ADR 0002 says D8 can hold a re-created Bucket in retry only after a crash; one
  failed call after `CreateBucket` is enough, and `Converges` fails
  (a plan with `starts = {"recreatable"}`, `disturbances = {"bucket"}` and
  `failures = {"call"}`, one of each);
- the Job is deleted with background propagation, so its pod may write on while
  teardown proceeds;
- removing `spec.cloneFrom` in the middle of a copy lifts every hold at once;
- a bucket that vanishes between the guard and the listing is re-created without
  authorisation;
- a look at the tags and the write that relies on it are two calls, and the object
  storage has no conditional tagging or deletion. A stranger who claims the bucket
  between the adoption check (801) or the create (757) and `SetBucketTags` loses its
  tags; an empty bucket a stranger puts under the name between the owner check (1527)
  and `DeleteBucket` (1537) is deleted. `ForeignUntouched` excepts these windows
  (`behind`); everywhere else, the create race the provider answers with AlreadyExists
  included, the next look meets the stranger;
- a re-creation of a bucket that crashes between `CreateKey` and the Secret write leaves
  a key in the new group, and the next pass reports Ready over the key of the old one
  (`ReadyMeansServed` leaves buckets deleted out of band out);
- the Secret is published before the Bucket is recorded as provisioned, so the
  vanish guard can meet a Bucket that has a credential and treat it as new;
- an object written between the emptiness check and the removal of the keys blocks
  the deletion after the credential is gone (the data is safe: `DataGuarded`);
- a failure inside `DeleteAllAccessKeys` is held like an outage;
- a re-creation whose operator crashed right after `CreateBucket` is completed
  unreported when the recorded group was deleted by hand as well;
- without the drift resync, the one report of a configuration fault can be lost to
  a concurrent patch;
- a Bucket that is held and then edited keeps advertising Ready until the grace ends;
- an unreadable key file wipes the wait a rejected key has left;
- the admin group is looked up by display name only: when a process dies after its
  first policy write, its Secret is lost and the listing lags, the next one creates
  a second group, and the policies already written lock it out (`NotLockedOut`
  fails without its condition on the lag);
- `status.grantedReadTo` takes the resolved grants before the policy is written, so
  it names a reader that a failed policy write has not admitted;
- a grantee whose tags are read from before its group was recorded is dropped from
  the grantor's policy for one pass;
- a patch that should clear or park `status.usage` and fails is not retried: the old
  figures stay until the next change of the Bucket or of the process;
- a measurement patched after another pass has cleared the status brings back part
  of the fields; the next scheduled measurement completes them.

The conditions of the theorems about `BucketReconciler` came out of proofs that failed,
each with a counterexample of TLC:

- `ReadyMeansServed`. That a credential is kept when the group holds *a* key turns any
  key left behind into Ready over a dead credential, and a key is left behind by a
  crash right after `CreateKey`. Together with it, each of these is enough: a second
  failure (the answer of the Secret write is lost and the new key is taken back); the
  group deleted by hand; the rotation retracted; a Secret informer that lags. Without
  a crash: a key deleted by hand.
- `RecreationAuthorised`. The bucket vanishes while the informer still shows its Bucket
  as it was before it first became Ready; or a lagging read shows, after a crash, the
  policy of the old bucket under the same name.

## 6. Not modelled, and the plan

Not modelled: log lines, events, metrics (except the reload gauge), formatting,
prices and costs, the JSON of a policy document and the trimming of its URNs (a
policy is its statements), the derivation of bucket names, the rate limiter's
delays, the retry transport (it repeats only bodiless reads, which change nothing),
generated code, wiring, and `internal/stackitfake`, the provider double of the tests.

Every component that keeps state has a module, and every safety property of a passing
run is stated by a theorem, under the conditions of section 4. What is left is to
widen these conditions:

1. `ReadyMeansServed` and `KeyedGroupAttributed` with lagging reads of the provider:
   `Attributed` would have to say, per step, what a lagging read can still show.
2. `ReadyMeansServed` for failures together with a lagging Bucket informer, where the
   counterexamples of section 5 do not apply.
