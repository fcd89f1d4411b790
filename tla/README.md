# Verification of backup-maker-controller

TLA+ models of the controllers and lockers of this repository, checked with TLC.
The safety and action properties that hold, and the refinement, are also proved with
TLAPS, for every value of the constants; liveness is model-checked only. All paths below are relative to the repository.

## The system

The controller manages backup jobs in a Kubernetes cluster. A `ScheduledBackup`
describes a periodic backup, a `RequestedBackupAction` asks for one backup or
restore now. Each kind has two controllers: a reconciler that renders a template
and applies the objects it yields (CronJobs, Jobs, ...), and a jobs observer that
reports the health of those objects in `.status`.

| Component | State | Operations |
|---|---|---|
| Lockers (`pkg/locking`) | who is processing which resource | `Obtain`, `Done` |
| RequestedBackupAction reconciler (`requestedbackupaction_controller.go`) | `.status.processed`, condition, `ownedReferences` | `Reconcile`, `updateObjectStatus` |
| RequestedBackupAction jobs observer | `.status.childrenResourcesHealth`, `healthy` | `Reconcile`, `updateStatus` |
| Health report (`owned_references_health.go`, `pkg/integration`) | none | verdict on the Jobs of a tracking id |
| Applying (`pkg/bmg/applying.go`, `utils.go`, `childreference.go`) | objects in the cluster, tracking ids | `ApplyObjects`, `CreateOrUpdate` |
| ScheduledBackup reconciler and observer | `.status.lastAppliedSpecHash`, condition, report | `Reconcile`, `updateObject`, `updateStatus` |
| Factory (`pkg/factory`), GPG (`pkg/gpg`) | the GPG `Secret` | hydrate an aggregate, create or complete the `Secret` |
| Rendering (`pkg/bmg/templating.go`) | script files on disk | render with backup-maker-generator (BMG), filter by kind |
| ClusterBackupProcedureTemplate controller | the cached templates | none: its `Reconcile` is empty |
| Wiring (`cmd/root.go`) | none | one locker for all controllers, optional leader election |

**Interaction.** All controllers of all replicas share one locker (Redis, or a
slice inside the process when Redis is disabled) and the API server. They never
call each other: they meet in the lock, in the object's `.status`, which each
replaces as a whole, and in the Jobs, which the reconciler creates and the
observer looks up by the tracking ids that `.status.ownedReferences` lists.
Events of the API server and requeues put an object's name on each controller's
work queue. Two things are shared outside any lock: the `Secret` that
ScheduledBackups refer to, which hydration creates or completes for whichever
object comes first, and the script files under `./templates` of the process.

**What is hard.** A controller works on a copy of the object that it read long
before it writes; the `Get` in front of the write renews the `resourceVersion`
only, so optimistic concurrency does not protect the copy and all depends on the
lock. The lock is a lease of 60 s that nobody refreshes. Creating Jobs and
recording that they were created are two steps, with a crash, a lost answer or a
given-up status update in between. Errors of `Release`, of the status updates and
of the health report are dropped. Nothing but polling and resyncs tells the
observer that a Job has ended. `PROJECT.json` lists these hazards one by one.

**What makes each component correct.**
- *Lockers*: no two sessions of one resource at a time; a lock is not lost, not
  taken away by somebody else's `Done`, and not kept for ever.
- *Reconciler*: an action is performed once; it counts as performed only if every
  document was applied; the Jobs created are on record, also after a partial
  failure; in the end it is performed.
- *Observer*: a verdict is about the Job that is referred to; failure is not taken
  back; the final verdict is reported in the end; it does not undo what the
  reconciler wrote.
- *ScheduledBackup*: the hash on record is that of the spec that was
  applied; a changed spec is applied in the end; the observer does not undo it.
- *Hydration*: no half of a complete key in the `Secret` is replaced; nobody works
  with a key that is not stored; whoever loses the race for the `Secret` is served
  in the end; an action's changes to the spec do not reach other controllers.
- *Rendering*: a manifest has the script, key, variables and kinds of its own
  operation, also when others render at the same time.

## Modules

| Module | Models | Composes |
|---|---|---|
| `Locker` | what the controllers expect of `locking.Locker` (abstract) | |
| `RedisLocker` | `redis.go`; Redis and its TTL | refines `Locker` |
| `InMemoryLocker` | `inmemory.go`, at the level of header words and array elements | |
| `HealthReport` | `pkg/integration`: verdict on Jobs (pure operators) | |
| `RequestedBackupAction` | both controllers of a RequestedBackupAction, `ApplyObjects`, API server, Jobs | `RedisLocker`, `HealthReport` |
| `ScheduledBackup` | both controllers of a ScheduledBackup, the informers' caches | `RedisLocker` |
| `Hydration` | the factory, `pkg/gpg`, the `Secret`, caches, stop and restart of a process | |
| `Rendering` | `templating.go`, the resource filter | extends `Hydration` |
| `MCRequestedBackupAction`, `MCScheduledBackup`, `MCRendering`, `MCHydration` | constants for TLC | |
| `RedisLockerProofs` | theorems about the Redis locker | |
| `RequestedBackupActionProofs` | theorems: types, the composition with the locker, whole-status writes | `RedisLockerProofs` |
| `RBAJobsProofs` | theorems: what becomes of the Jobs of an action | extends `RequestedBackupActionProofs` |
| `ScheduledBackupProofs` | theorems about a ScheduledBackup | `RedisLockerProofs` |
| `HydrationProofs` | the invariant of hydration, preserved by each step (lemmas) | |
| `RenderingProofs` | theorems about hydration and rendering | extends `HydrationProofs` |

### RedisLocker

`store` is Redis (key to token), `session` the key whose session each caller has,
`overrun` the callers whose lease ended inside a session. `Obtain` is the
successful `SET NX PX 60s`; the answer `ErrAlreadyLocked` changes nothing.
`ObtainReplyLost` is the call whose answer does not arrive (`HasFailure`),
`DoneLost` the `Release` whose error `Done` drops. `ExpireAbandoned` and
`ExpireHeld` are the TTL of a token nobody uses and of one in use. `Crash` kills
any set of callers. A caller stands for its token, because it is sequential and
the tokens are random.

### InMemoryLocker

The slice `iml.locks` is kept the way Go keeps it: a header of three words (array,
length, capacity) and arrays of a fixed capacity, so that `append` in place, `append`
with a reallocation and the in-place shift of `removeFromList` are all there. Other
loops may run between any two of these steps: a word of the header loaded
(`LoadWord`) or stored (`StoreWord`), in any order; an element compared by `isLocked`
(`Compare`) or by the search in `removeFromList` (`Find`); an element moved down
(`Shift`) or written (`AppendIdent`). A header may therefore be torn and reach behind
its array, where a read may see anything (`Element`).

What is coarser than the code: an element, itself a string of two words, is read and
written in one step, as is the copy that `append` makes when it reallocates. A panic
by a slice expression out of range, and writes behind an array's end into other
memory, have no effect here. The counterexample to `MutualExclusion` needs none of
this: two calls of `Obtain` that overlap. Nothing positive is claimed of this locker.
What it does when calls follow one another is for unit tests, and no line of the code
keeps the loops from calling it together.

### RequestedBackupAction

A *worker* is one controller of one replica: the default
`MaxConcurrentReconciles` of 1 makes it sequential. Leader election, if enabled,
would leave the workers of one replica; the model allows several replicas, as
the default does. A `Reconcile` is cut at every call that another process can
see or that can fail:

| Step (`pc`) | Code | Actions |
|---|---|---|
| `idle` | work queue, `Locker.Obtain` | `Obtain`, `ObtainReplyLost` |
| `fetch` | `FetchRBAAggregate`, `WasAlreadyProcessed` | `Fetch`, `FetchFail` |
| `apply` | `ApplyObjects`, one document at a time | `ApplyDoc`, `ApplyFail`, `ApplyReplyLost` |
| `list` | `createOwnedReferencesHealthReport`, one reference at a time | `ListJobs`, `ListFail` |
| `get`, `put` | `RetryOnConflict` of `Get` and `UpdateStatus` | `Get`, `Put`, `PutConflict`, `UpdateFail` |
| `done` | deferred `Locker.Done` | `Finish`, `FinishReleaseLost` |

`snap[w]` is the `.status` of the worker's aggregate, which `UpdateStatus` later
writes as a whole. `fresh` stands for the resourceVersion. `objs` are the objects
in the cluster with their tracking ids and phases. `pending` is the work queue;
a request that fails or finds the lock taken is put back (`RequeueAfter`, or the
rate limiter's back-off, whose lengths do not matter). Rendering is one step that
succeeds with `Docs` or fails; hydration is one step that succeeds or fails (`Hydration` and
`Rendering` look into both).

The environment: `Crash` of a replica (restarted, its informers list the object
again), the TTL, the Job controller (`JobStep`), a user's edit (`Touch`) and the
informers' `Resync`. `JobStep` wakes nobody: `Owns` reacts to owner references
with `controller: true` only, and `addOwnerReferences` does not set it.

Documents are Jobs, with or without a fixed name: the resource filter of a
RequestedBackupAction (`domain/resourcetypes.go`) lets nothing else through. The
dispatch by kind in `integration/types.go` therefore has one outcome.

### ScheduledBackup

Workers, lock, faults and status updates are as above. What differs:

- Both controllers read the object from the cache of their process (`cache`),
  which `Sync` brings up to date; `behind` says whose cache is not at the current
  resourceVersion, so that a write that restores an earlier content is still an
  event.
- `MustApply` is `HasSpecChanged && !IsBeingReconciledAlready`. `young` says that
  the condition Unknown is less than 60 s old; `Minute` ends it in every copy.
- `todo` holds the status updates ahead of a worker. A reconciler writes Unknown
  before it looks at the hydration error, then False (with a requeue), or applies
  the documents and writes True with the hash of the spec it applied, or False.
  Each `updateObject` changes condition and hash of the object it has just read;
  the observer's `updateStatus` replaces the whole status by the cached one.
- `.status.ownedReferences` is never written for this kind, so the observer's
  report is empty and is left out.
- Specs are numbered in the order users write them; `objs` keeps the spec each
  document was rendered from. `Revert` goes back to an earlier spec.

### Hydration

A *loop* is a controller of a process with an object of its own, so loops hold
different locks and none excludes another. `api` is the `Secret` that holds keys,
token and variables, as in the example of the repository's README; an entry is one
half of an identity, the token, a variable or missing. `cache` is what the
informers of each process know.

| Step (`pc`) | Code | Actions |
|---|---|---|
| `idle` | work queue, `FetchScheduledBackup` | `Fetch` |
| `gpg`, `wait` | `hydrateGPGSecret`: first `Get`, which may have to wait for the informer | `WaitForCacheSync`, `SecretMissing`, `SecretFound`, `SecretUnreadable`, `SecretMissingKeygenFails` |
| `create` | `Client.Create` | `CreateSecret`, `WriteFails` |
| `get` | the second `Get`, `UpdateGPGSecretWithRecreatedGPGKey` | `GetSecret`, `GetSecretKeygenFails` |
| `update` | `Client.Update` | `UpdateSecret`, `WriteFails` |
| `template`, `token`, `vars` | the other `hydrate...` functions | `hydrateTemplate`, `hydrateAccessToken`, `hydrateVarsSecret` |

Every `Get` goes to the manager's client and hence to the cache, the one "to fetch
a fresh secret" too: it helps only if the informer has caught up in between, and
what protects a key that somebody else stored is the resourceVersion of `Update`
and the AlreadyExists of `Create`. The informer of Secrets is started by the first
`Get`, which polls until it has listed (`wait`). If the process is told to stop
meanwhile the `Get` answers with an error that is not NotFound, whether or not the
informer has listed since the last poll, and `hydrateGPGSecret` does not return it
(`SecretUnreadable`). Caches outlive the reconcilers of a process that stops, so the
informer may list later still (`SyncSecret`), and then the `Get`s of token and vars
succeed: the aggregate is hydrated with an empty `Secret`, and may be rendered.
`DeepCopyObject` is why an action may change the operation of
the ScheduledBackup it fetched. A ScheduledBackup that is applied already does not
reach hydration; that guard is `ScheduledBackup!MustApply`.

Several ScheduledBackups may keep keys in the one `Secret`, under any indexes.
`Separate(b)` says of a key that its two halves have entries that nothing else uses
(or only the same key). `KeyPair` and `ManifestKeys` are about such keys: if two keys
have one half in common, completing the second overwrites that half of the first, and
both then count as complete. The index of the passphrase may be shared, as it is by
default; completing one key then empties the passphrase of the other.

Faults are what users do to `Secret`, template and spec, a failing key generation,
a write that answers with an error (with or without effect), stop and crash of a
process.

### Rendering

After `hydrated` a reconciler renders one operation after the other; an observer,
or a reconciler whose action is processed, returns (`Return`). `TruncateTemplate`
and `WriteTemplate` are the two halves of `os.WriteFile` on the script file (none
for an internal template), `WriteWorkspace` is `writeGPGKey` and
`writeDefinition`, which write into a directory of the rendering's own,
`Generate` is BMG and `parseRenderedManifests`. `out` collects one manifest per
operation: the script and image it was rendered from, key, variables and the kinds
the filter let through. `Rendered` hands them to `ApplyObjects`, which fails if
there is nothing to apply, and in a process that is stopping, whose calls carry the
cancelled context; the rest of it is in the controllers' modules.
`kindType` is the action's `.spec.kindType`, chosen initially: empty, or one that
the filter drops.

BMG is external: it reads the script of the name it is given, renders all helper
kinds and the kind it is told to, and brings scripts of its own for internal
templates.

## Runs

| Run | Question | Result |
|---|---|---|
| `redis_locker` | Do sessions within their lease exclude each other, does `Done` free the caller's own lock only, is every token freed, is `Locker` implemented? | holds |
| `inmemory_race` | Do the sessions of the in-memory locker exclude each other? | violated: check-then-append |
| `rba_replicas` | Two replicas, any single fault: is `processed`, a reference or a failure verdict ever undone by a whole-status write? | holds while no lease is overrun |
| `rba_documents` | Two documents (a Job with a fixed name, a generated one), any single fault: does `processed` mean applied, is what was created on record? | holds |
| `rba_faults_liveness` | Any two faults, edits up to the limit of `RetryOnConflict`: applied once, and on record? Is the action performed and the final verdict reported in the end? | holds, up to lost updates |
| `rba_crash_orphan` | README: "All spawned `Jobs` are watched"? | violated by a crash between creation and status update |
| `rba_pending_job` | "All labelled jobs succeed" implies that they completed? | violated: a pending Job is not running, hence succeeded |
| `sb_one_replica` | A lagging cache, an edited spec, any single fault: does the hash on record ever claim a spec that is not in the cluster, is the current spec applied in the end, is a record undone by the observer repaired? | holds |
| `sb_stale_observer` | `HasSpecChanged` tells if the spec differs from the applied one? | violated, without any fault, by a stale write of the observer |
| `rendering` | Two loops share `Secret` and script files, any single fault: is a stored key replaced, an unstored one used, a manifest rendered with the script, key or kinds of another operation, a variable of the `Secret` overlooked, an action counted as performed for nothing, a request never served? | holds |
| `hydration_shared` | Two processes, two keys in one `Secret` that share the passphrase's index, any two faults: is a half of a key replaced by the completion of the other, does a loop have halves of different identities, or a key that is not stored? | holds |
| `rendering_race` | Does a rendering read the script of its own template? | violated, without any fault: the file is shared, and truncated before it is filled |

`pkg/locking/README.md` says that an object "is processed only by one controller at
a time". This holds within the lease: `InLeaseExclusion` leaves out the sessions in
`overrun`, since the lease is not refreshed and a `Reconcile` of more than 60 s
goes on without it.

Several properties have a premise that names the faults they exclude
(`Undisturbed`). The premise is a part of the statement: it says on which faults
the guarantee depends, and the runs contain those faults so that everything
before the first of them is still checked.

**Bounds.** `Budget` bounds each kind of fault and `MaxFaults` all together; the
runs allow any single fault, or any two. `RetrySteps` is 2 instead of 5: what
matters is whether an update is retried and whether it is given up, and both
happen with 2; `Touch` may occur `RetrySteps` times, so the limit is reached.
Two replicas suffice for every pair of controllers to meet, since the properties
relate two workers at a time. Two documents give a first and a later one, a
named and a generated one. `issued` and the
objects need no bound of their own: each faultless pass sets `processed`, so only
faults repeat `ApplyObjects`. Three callers and two keys let one caller be late,
one current and one waiting, on two resources. For a ScheduledBackup, `MaxSpec`
is 2: one edit can fall into every window between fetch, apply and update, and
`Revert` adds a second change. One replica is the chart's default, and with more
it turns leader election on. With two active replicas, which nothing in the
program prevents, `NeverFalselyApplied` would not hold: a replica whose cache is
behind applies an older spec over a newer one.

For hydration and rendering one process has two loops, the reconciler of a
ScheduledBackup and that of an action that restores from it: they want different
halves of the same key, different operations and the same file. `Keys` has one
identity for every generation that can happen in a run (`NewKeys` takes one that is
nowhere in use), `MaxTemplate` is 2 so that a template can change under a rendering.
`MaxFaults` is 1 (248,979 states); without the temporal
property the others have also been checked with two faults (5.8 million states).
`hydration_shared` has two processes, so that one can complete a key from a cache that
does not know yet what the other has stored, and two faults, such as a key that a user
provides with a passphrase and a spec that asks for the second key (1.1 million
states). The second ScheduledBackup starts without createIfNotExists, so that one stop
is enough for a loop that goes on with the empty `Secret`. Nobody renders there: what
loops do with an aggregate is no part of its properties.

The two loops and one key of `inmemory_race` are the least that can violate exclusion.

`rba_faults_liveness` has one generated Job. For a Job with a fixed name
`EventuallyReported` fails after a partly failed `ApplyObjects`: the Job gets a new
tracking id, the old reference finds no Job, and that error ends every report.

Deadlock checking stays on except in the three runs of `Rendering`, whose loops may
be idle with nothing left to do: resyncs, which never end, are left out there.

**Fairness.** `FairSpec` assumes that a reconcile function that is not killed
takes its next step (weak fairness of `Work`: goroutines are scheduled and calls
have time limits), that Redis applies TTLs, that informers resync and that the
Job controller makes progress with Jobs; for a ScheduledBackup also that caches
catch up and the clock runs. Resyncs are 10 h apart by default: where liveness
rests on them (after a crash inside Unknown, after a verdict on a pending Job) it
is that slow. `Obtain` has strong fairness: a refused
worker retries every 10 s while the lock is free again and again, so it gets it
in the end. `RenderFairSpec` assumes that loops take their steps, that every
informer catches up and that a process that was told to stop is run again. No
fairness is assumed for faults, and they are finitely many.

Three premises deserve attention. `KeyCustody` names a case in which an aggregate has
the empty `Secret`: no createIfNotExists, and a process that is stopping. The run
`hydration_shared` reaches it. What is rendered with it is not applied (`Rendered`).
No other way leads there, in particular none to a key that is not stored. `EventuallyServed` needs a template and `createIfNotExists`: without, the factory
waits for a user. `KeyPair` excludes a failed key generation: the error of
`CreateNewGPGSecret` is overwritten, the `Secret` is created without keys and one
rendering goes on without.

## Proofs

The theorems hold for all constants that satisfy the named assumptions: any sets
of replicas, workers and loops, any non-empty sequence of documents, any specs,
any budgets of faults. Every invariant and action property of the passing runs is
a theorem, as is the refinement of `Locker` by `RedisLocker`.

**Redis locker**

- `LockTypesCorrect`, `LeaseInvariant`, `InLeaseExclusive` (`RedisLockerProofs`):
  the inductive invariant is types and `LeaseInv`, the ownership of the key by a
  session that is within its lease. Exclusion itself is not inductive: `Done`
  could free somebody else's key if nothing said whose token is stored.
- `RedisImplementsLocker`: the sessions within their lease, as `holders`, take
  only steps of `Locker`. `Done`, a crash and the end of a lease are `Release`.

**RequestedBackupAction**

- `TypeCorrect` (`RequestedBackupActionProofs`): needs `IndexInv` (the index into
  documents and references is in range) and the locker's invariant, reused from
  `RedisLockerProofs` by instantiation; `StepsOfLocker` shows that each action of
  the composition is a step of the locker or leaves it alone.
- `StatusNeverUndone`: a whole-status write never clears `processed` or drops a
  reference while no lease is overrun. The invariant is `BaseInv` (types, the
  locker's invariant, and `SessionInv`: a worker is inside `Reconcile` exactly
  while it is in a session) with `SnapInv`: the copy a worker is going to write
  covers the status in the API server. `SnapInv` is kept because nobody else
  writes meanwhile (`OneInside`, from `LeaseInv`), which is where the argument
  depends on the lock and not on the resourceVersion.
- `ProcessedIsTrue` (`RBAJobsProofs`): no lock is needed. `BackedInv` says that the
  references of a copy cover the documents before the one the reconciler is at,
  and all of them when the copy is processed, whoever holds it; objects never go.
- `JobsNotLost`: every tracking id in the cluster is known to the status or to a
  worker that is to write it. It adds `SnapInv` (the status replaced was covered)
  and `ConflictInv`: without an overrun all conflicts come from users' edits,
  so an update is given up only after `RetrySteps` of them. The `TrackedOrInFlight`
  of the runs follows from it.
- `JobsCreatedOnce`: `OnceInv` describes the only reconciler at work: the objects
  are those of the documents before the one it is at, and until `processed` is
  set it is still there.
- `FailuresStick`: a report agrees with the failures of the Jobs (`SoundInv`), a
  pod that failed counts for good, tracking ids belong to one object each
  (`TidInv`), and what is written agrees with the status it replaces
  (`AgreeInv`, again by `OneInside`).

**ScheduledBackup** (`ScheduledBackupProofs`)

- `SBTypeCorrect`: as for the actions, with the caches.
- `RecordsAreTrue`, for `OneReconciler`, the chart's default or an elected leader:
  a hash on record, wherever a copy of it is, is of a spec no newer than any
  document, any cache and anything that is being applied (`RecordInv`); hence what
  may still be applied does not replace it by something older. `AgeInv` (nothing is
  newer than what it was copied from) and `AppliedInv` (what a reconciler has
  applied so far) make it inductive. `LockInv` takes part only through the types: with
  one reconciler the record does not depend on exclusion, and an observer that
  writes late can take a record back but not make one up.

**Hydration and rendering** (`HydrationProofs`, `RenderingProofs`)

- `RenderNextHydrates` shows that each step of `Rendering` is a step of hydration,
  or one that the rendering of a hydrated aggregate may take (`Renders`), so that
  the invariant of hydration is proved once and without script files.
- `SecretInv`: a resourceVersion determines the content of the `Secret`, and what
  was ever stored is sound (`GoodData`: both halves of a key with entries of its own
  are of one identity, and an entry that no key uses (`Free`) holds what it is for).
  `CacheInv`: a synced cache holds one of those versions, and specs that users
  published. The first is the whole argument for `KeysAreKept`: an `Update` that is
  not refused had the current content, stale cache or not, so the key it replaces was
  incomplete. That needs nothing of the indexes, which may be shared in any way; the
  property names the entries of the incomplete key as those that may change.
- `LoopInv` says what a loop has at each step (`SecretOK`, `RestOK`): the `Secret` it
  is to create or to update, or one that was stored. The exception is a loop without
  createIfNotExists in a process that is stopping (`Dark`), which may have the empty
  `Secret` at every later step. A process that stops is only ever run again, with no
  aggregates, so the exception never reaches one that can write.
- `CustodyOfKeys`, `KeysArePairs`, `KeysAreKept` follow.
- `RenderInv` adds the script files (`FileInv`: a file holds a script of its
  own operation or nothing) and the manifests made so far (`ManifestOK`), `BusyInv`
  that only who has to render does. From it `RenderTypeCorrect`,
  `ScriptsOfOperations`, `SecretsCover`, `KindsArePublished`.
- `KeysOfManifests` has the hypothesis `ExplicitIndexes`: `.gpgKeySecretRef` spells
  out the indexes of both halves, as the examples do and the instance of the runs
  does. It is needed: the factory generates under the default of an index that is
  left out but `GPGKey` reads under the empty name, and the manifest has no key.

**Only model-checked.** Liveness, since fairness and `ENABLED` are out of the
prover's reach: `LockFreed`, `EventuallyProcessed`, `EventuallyReported`,
`EventuallyApplied`, `RecordRepaired`, `EventuallyServed`. The counterexamples of
the five runs that are violated are TLC's.

## Not modelled

- Deletion of objects; logging, events, metrics, probes, flags; the length of
  delays; charts and manifests.
- Two objects whose names coincide: the lock id is the name without the kind, so
  objects of different kinds and the same name exclude each other, which only
  delays them.
- `RESTMapping`'s error is overwritten in `CreateOrUpdate` and would panic:
  controller-runtime recovers nothing there, so it is a `Crash` of the replica.
- Key generation as cryptography, Helm and BMG, the text of templates. The
  JSON definition that `writeTemplate` writes beside the scripts has the same
  content for all writers of one template name, and a half-written one fails BMG,
  which is `RenderFails`. The script file that an internal template of the same
  name finds left over is left out, and so is the deferred `os.Chdir` back to the
  working directory, which nothing leaves.
- The order in which Go iterates over the variables: no two of the modelled ones
  have the same path. `.spec.vars` is never empty here (a nil map cannot be set).
- Indexes that keys share are in the model and in `KeysAreKept`, but only a shared
  passphrase is in a run; of a key that shares a half with another one, or an entry
  with the token or a variable, the other properties say nothing (`Separate`).
  Indexes left to their default are in the model, but in no run: the key is stored
  under the default and read under the empty name, so that manifests have no key
  (`ExplicitIndexes` excludes this from `KeysOfManifests`).
- A changed `Secret` or template is watched by no controller, so an applied
  ScheduledBackup is not rendered again; the code makes no attempt to.
- Generated informers, listers and fakes: no controller uses them.

## Plan

1. A refinement for the composition: the sessions of `RequestedBackupAction` and
   `ScheduledBackup` within their lease implement `Locker`, from `StepsOfLocker`
   and `RedisImplementsLocker`.
2. An abstract specification of an action (requested, performed, judged) that
   `RequestedBackupAction` implements while no update is lost, from `SnapInv`,
   `BackedInv` and `SoundInv`.
3. Lemmas about `HealthReport`: which phases a verdict excludes, that a verdict
   on more Jobs is no better than one on fewer.
4. Properties for hazards that have none yet: a Job with a fixed name that is
   applied twice, keys that share one half.
5. What a `ScheduledBackup` guarantees with two active replicas, and a run of
   rendering with two processes (`hydration_shared` has two that hydrate).
