# Artifact Depot: TLA+ verification

This directory models Artifact Depot, an artifact
repository manager written in Rust: several server instances share a KV store
(redb or DynamoDB) and one or more blob stores (file system or S3), coordinate
through records in the KV store only, and run background workers beside the
HTTP handlers. The models are written from the source; each definition names
the lines it stands for in the `map` of `PROJECT.json`.

Run a model with `tlc -config <run>.cfg MC<Module>`, check proofs with
`tlapm <Module>Proofs.tla`.

## 1. Inventory

### Parts, state, operations

| Part | State it keeps | Operations | Correct when | Module |
|---|---|---|---|---|
| Blob ingestion and deduplication (`core/src/repo/{mod,hosted}.rs`, `core/src/service/blob.rs`) | blob files, dedup records hash → blob id, artifact records path → blob id | write file, claim hash, drop duplicate, commit artifact, replace, delete, touch | an artifact has its file; a dedup record has its file | `BlobGc` |
| Blob collector (`server/worker/blob_reaper/`) | per instance: candidate map with first-seen pass, pass counter, retry counter; persisted time of the last pass | scheduled pass, manual pass, dry run: scan, expire, sweep records, walk files | deletes only garbage; deletes all garbage | `BlobGc` |
| Leases (`server/worker/cluster.rs`) | one versioned record: holder, expiry | acquire, take over, release | one live holder; a dead holder is replaced | `GcLease` |
| Instance registry (`server/worker/cluster.rs`) | instance records with heartbeat | register, refresh, deregister, list | an instance that died is missed | `TaskLifecycle` (as seen by the reaper) |
| Cache repositories (`core/src/repo/cache.rs`, `core/src/inflight.rs`) | cached record, per-instance map of fetches in flight | lookup, HEAD, lead, follow, stream and store, drop guard | one fetch at a time; complete means stored; every request answered | `CacheFetch` |
| Task manager (`server/infra/task.rs`, `core/src/service/task.rs`) | task record, event log, owner's map | create, run, log, progress, outcome, delete | an outcome stays; a deletion ends | `TaskLifecycle` |
| Cleanup worker (`server/worker/cleanup.rs`) | none of its own | reap tasks; drain repositories; expire upload sessions | orphans settle, what is deleted goes | `TaskLifecycle` (tasks), `Repositories` (drains), `DockerUpload` (sessions) |
| Update worker (`core/src/update.rs`, `server/worker/update.rs`) | channels, coalescing buffers, directory entries | apply deltas, propagate, flush, rebuild | entries agree with artifacts | `DirStats` |
| Update worker: access times, store statistics | pending maps, store stats records | flush | counters agree with the store | not modelled |
| Artifact service, browse tree (`core/src/service/{artifact,pagination}.rs`, `server/api/artifacts.rs`) | artifact records, tree entries | put, get, delete, bulk delete, list by pages, archive, clean | tree agrees with artifacts; pages skip nothing | `Artifacts` |
| Repositories and stores (`core/src/service/repo.rs`, `server/api/{repositories,stores,backup}.rs`) | configurations with a `deleting` mark | create, update, delete, drain, clone, backup, restore | a new repository is empty, a live one stays, a deleted one goes | `Repositories`, `RepoLifecycle` |
| Proxy resolution (`core/src/repo/proxy.rs`) | stale flags | resolve member, propagate staleness | first member wins, no change forgotten | `Artifacts`, `PackageRepo`, `DockerRegistry` |
| State scanner, event bus, materializer, event stream, browser | last-seen snapshot, broadcast ring, in-memory model | scan, publish, apply, resynchronise | every copy comes to follow the records | `LiveModel` |
| Integrity check (`worker/check.rs`) | lease, filters, findings | list stores, verify, compare, repair | removes only what is lost, and all of it | `IntegrityCheck`, `GcLease` |
| Docker registry (`format/docker`, `worker/blob_reaper/docker_gc.rs`) | upload sessions with chunks, manifests, tags, layer records | start, append, complete, mount, push, pull, list, promote; collect | a committed blob stays; a tagged image can be pulled; a session ends | `DockerUpload`, `DockerRegistry` |
| Docker listeners (`worker/docker_listeners.rs`) | running listeners | reconcile | listeners match the configuration | `LiveModel` |
| KV stores (`kv/*`) | versioned cells | put_if_version, put_if_absent, scan | conditional writes are atomic | inside the modules that use them |
| Blob stores (`blob/file`, `blob/s3`) | objects under blob ids | write, finish, abort, open, delete | what is finished can be read | `BlobStores` |
| Authentication, roles, tokens, settings (`server/auth`, `server/api/{auth,users,roles,settings}.rs`) | users, roles, secrets, settings; per-instance caches of all | login, change, revoke, rotate, refresh | revoked means revoked; an admin remains; instances come to agree | `Identity` |
| Package formats (`format/{apt,yum,helm,npm,pypi,cargo,golang}`) | package records, stale flags, indexes and their files, signing keys | upload, delete, index, download, snapshot, rotate | an index lists what there is or is flagged; it names nothing that is missing | `PackageRepo`, one module per format, `Packages` |
| Rate limiting, HTTP routing, user interface, benchmark tools | – | – | – | not modelled (section 7) |

### Interactions

* Handlers and workers share nothing but the KV and blob stores; within one
  instance they share channels (update worker, task progress), the inflight
  map, the `gc_state` mutex and the event bus.
* Every KV or blob-store call is an await: between two of them anybody may run.
  The models therefore make each call one step, and keep what was read in a
  variable until it is used.
* Coordination is by conditional writes (`put_if_version`, `put_if_absent`) where
  the code uses them, and by nothing where it writes unconditionally.

### What is hard here

Interleaved read-then-write sequences; collection racing ingestion over
seconds to hours; leases that expire under slow holders; wake-ups that arrive
before the sleeper; compare-and-swap against versions that restart; stale
copies written back whole; retries, restarts, half-finished deletions; and
things that must eventually happen (reclaim, settle, release, converge).
`PROJECT.json` lists each hazard at its line with the properties that cover it.

## 2. Modules

Mutated forms of some definitions stand before the definitions they change
(`\* Mutant: ...`). No specification uses them; they show that a property
notices the bug they describe.

### BlobGc: ingestion against collection

State: `files`, `recs` (dedup records), `art` (artifact records), `up` (the
uploads in flight and their step) and per instance the pass (`pc`, `mode`,
`toScan`, `filter`, `doomed`, `toSweep`, `walk`), the candidates split into
`fresh` (first seen by the current pass) and `ripe` (seen by an earlier pass),
and the schedule (`asked`, `retries`, `early`, `reset`).

| Action | Code |
|---|---|
| `WriteBlob`, `ClaimHash`, `RereadRecord`, `ForceRecord`, `DropDuplicate`, `PutArtifact`, `AbortUpload` | `HostedRepo::put`, `put_dedup_record`, `claim_or_reuse_blob`, `commit_ingestion`, one per await |
| `DeleteArtifact`, `AgeArtifact`, `TouchArtifact` | `delete_artifact`, passage of time against a cleanup policy, access |
| `StartScheduled`, `RequestPass`, `StartManual` | `run_blob_reaper` with `gc_due`; `start_gc` and the task it spawns |
| `ScanArtifact`, `ExpireArtifact`, `SealFilter` | the sharded scan, expiry on the scanned page, joining the shards |
| `SweepRecords`, `PurgeRecords`, `WalkFile`, `NextStore`, `EndPass` | sweep of dedup records, walk of each store, end of the pass |
| `WalkError`, `FailPass`, `CrashInstance` | a listing error ends the walk of a store; retry and reset of the schedule; restart |

Abstractions. A blob id is a model value; a content hash and its store are one
key. The Bloom filter is the set of ids it was given plus an arbitrary subset
of `Collisions`: it may report an absent id, never miss a present one. Shards
appear as the freedom to scan paths in any order. The clock is replaced by the
history variables `seen` and `seenAuto`, which say which instances have ended a
pass since an upload began. The lease is left out on purpose: passes of
different instances may overlap.

`GracefulSpec` adds the assumption the header of `blob_reaper/mod.rs` states, a
grace period: a pass of an instance starts only after the uploads that were in
flight at the end of its previous pass. `Spec` does not assume it; there
scheduled passes start by `Due`, the code's own timing.

### GcLease: the lease and its users

One versioned `cell` (holder, ticks left, version), and for each job (a
collection loop or an integrity check) its step, the version it read, and what
is left of its term. `AcquireRead`/`AcquireWrite` and `ReleaseRead`/
`ReleaseDelete` are the two calls of `try_acquire_lease` and `release_lease`;
`AcquireFails` and `ReleaseFails` are failed calls that may have been applied;
`Crash`, `Tick`. A version restarts at 1 when the record is deleted, as in
`redb_kv.rs` and the DynamoDB store. A job whose record was deleted after it
read it is in `stale`. An initial state chooses the timing (`timely`): any delay
and any failure (`AnyNext`), or the timing the lease is designed for
(`TimelyNext`), in which the calls of one acquisition take no time and jobs end
within their term.

### CacheFetch: request coalescing

One artifact, its upstream (external: publishes, disappears, goes down), the
cached record, each instance's inflight map, and the requests. `Begin` is the
lookup, `HeadUpstream` a HEAD on a miss, `ClaimFast`/`ClaimSlow` the two
attempts at the map, `Register`, `Wake`, `Reread` the follower, `Fetch`,
`StreamEnds`, `Commit` the leader and its background task, `DropGuard` and
`NotifyWaiters` the two halves of dropping the guard, `Disconnect`, `TaskFails`,
`Crash`. Content is a version number.

### TaskLifecycle: one task, many writers

The record, the event log, the owner's worker (`Create` ... `EndWrite`), its
progress bridge (`BridgeRead`, `BridgeWrite`, `BridgeStop`), API deletions
(`Delete*`) and reapers (`Reap*`); each keeps the copy it read. Reads may fail
(the `\E r \in {rec, None}` of the read actions). `Leave` takes the owner from
the registry although it may still work; `Die` stops it. A workload (`load`)
bounds what the worker reports and says whether the task is deleted. `TaskInv`
relates the record to all those copies; it is what keeps an outcome.

### DirStats: counters in a tree

Artifacts, one entry per directory, and for each instance the channel, the
propagation buffer, the batch and the entries read for it. `Change` and `Send`
are the request; `StartBatch`, `ReadEntry`, `WriteEntry`, `ApplyFails` the
worker with its compare-and-swap, re-queueing (`Requeue`) and propagation to
the parent (`Propagate`); `Stop`, `Stopped` the shutdown with its final flush;
`Rebuild*` the rebuild task. Channel, buffer and batch are kept as sums per
directory, since the worker coalesces per directory. A workload says which
client works on which paths through which instance, and what may disturb it.
`Steady` says when the counters cannot drift: no rebuild, no shutdown, the requests
for one path one after the other, and no directory that several instances write to
ever empty (`Kept`), because the version of its entry would start again.

### BlobStores, DockerUpload, DockerRegistry

`BlobStores` says what the operations of a blob store do to its objects, for
buffered files, files with direct I/O and S3: when an object becomes visible,
what a second writer of the same id and an abandoned writer leave behind.

`DockerUpload` has one upload session (`session`, its KV version and chunks), the
dedup records, the layer records `arts`, and the requests: PATCHes with their
compare-and-swap loop, final PUTs that assemble, claim, record and drop, one step
per call, monolithic uploads, and the cleanup of expired sessions (`Age`,
`list_upload_sessions`, `cleanup_delete`, `cleanup_session`). `risk` is a history
variable: it names what happened that the code does not protect against.

Dedup records belong to a store: a promotion or a mount into a repository on a store
of its own (`foreign`) copies or refers to blobs across the two.

`DockerRegistry` adds manifests, tags, a cache and a proxy repository, and the
collector. Actions carry the names of the handlers: pushes, pulls and HEADs by
tag and by digest through hosted, cache and proxy repositories, mounts, the pages
of a tag listing, the promotion of a tag (`copy_tag`, layers before manifests
before the tag, then the deletion of the source), deletion, and `docker_gc` with
its scan, its sweep and its step for untagged manifests. A manifest is its own
digest, a layer's content is its digest; age is the bit `old` of a record. Upstream
may send any manifest for a digest, as the code does not compare the two
(`fetch_upstream_manifest`), and a promotion reads the tag again when it copies it and
deletes whatever the source tag names by then (`copy_last`).

### PackageRepo, the formats, Packages

`PackageRepo` has what the seven formats share: package records, the stale flags,
the index of a hosted, a cache, a proxy and an outer proxy repository, the
propagation of flags upwards, downloads, and requests that may stop after any
step. `Apt`, `Yum`, `Helm`, `Npm`, `Pypi`, `Cargo` and `Golang` each extend it with
their handlers: the order in which flag, files and commit point are written; apt's
signing keys and snapshots; yum's directories with an index each, which a request divides
by the `repodata_depth` of the configuration it loaded when it came; npm's publishes of
several versions with their documents, the dist-tags that a publish and a cache put before
the documents, and the watermark; pypi's fetch-once of cached files, with the claims of
each instance apart; cargo's yanking, the three files of a Go version. `Packages` composes
them: an initial state picks the format and the requests. Package contents and the text of an
index are abstracted to the set of packages listed.

### Server, Repositories, Artifacts, Identity, LiveModel, IntegrityCheck, ControlPlane

`Server` declares what the control plane works on: the records (`kv`), the memory
of each instance (`mem`: caches, secrets, settings, loaded stores), the requests
under way, and the inboxes of the event bus. On it

* `Repositories` models create, update, delete and drain, clone, stores, backup
  and restore. Every instance's cleanup loop drains without a lease, and so does each
  pass of the collector: `drain` has for each of these workers the repository it is at,
  its step, and those it has listed besides; several may be at one repository. `risk` notes
  "undrained" when a name is taken that some worker has still listed;
* `Artifacts` upload, download, HEAD, deletion of a file and of a directory, pages
  of a listing and archives over the members of a proxy, cleaning by policy, the
  browse tree, blobs and their records;
* `Identity` users, roles, logins, caches, tokens, revocation, rotation, settings
  and the refresh of every instance;
* `LiveModel` the events, the bounded ring of a subscriber, the materializer with
  its batches and resynchronisation, the scanner, the event stream, a browser, and
  the Docker listeners;
* `IntegrityCheck` the check in its phases, with its lease, its listings and its
  repairs.

`ControlPlane` composes them. A request is a handler; its steps are separated
where others can observe or change what it read. Many handlers write without
condition what they read before; the history variable `risk` notes when such a
write met another one, and the properties say what holds otherwise.

`RepoLifecycle` is the abstract specification of a repository: made empty, filled
while live, deleted once, and its name free again when nothing of it is left.
`ControlPlane` implements it (`LifecycleKept`, `INSTANCE RepoLifecycle WITH ...`)
until one of the races in `raced` happens; this is checked and proved.

### Dependencies

`MC<Module>` extends a module and defines the values its cfg names;
`<Module>Proofs` extends it and TLAPS. `DockerRegistry` extends `DockerUpload`,
which instantiates `BlobStores`; `Packages` extends the seven formats, which extend
`PackageRepo`; `ControlPlane` extends the five modules on `Server`. The groups
meet only in the KV and blob stores and are not composed with each other.

## 3. Runs

| Run | Specification | Shows |
|---|---|---|
| `blobgc_grace` | `GracefulSpec` | two uploads of one content, two stores (one of them without files), scheduled, manual and dry passes, expiry, collisions, one fault: `GcInv`, which has `OwnUploadKept` and `RecordHasFile` among its parts; `StaysSafe` |
| `blobgc_live` | `LiveSpec` | the code's own timing gives `OwnUploadKept` for scheduled passes over one store; `OrphansReclaimed` |
| `blobgc_dedup` | `GracefulSpec` | violation of `NoDanglingArtifact` (finding 1) |
| `lease` | `LiveSpec` | any timing: `TakesOverOnlyExpired`; intended timing: `MutualExclusion`, `LeaseRecovered` |
| `cache_fetch` | `FairSpec` | `CacheInv`, `NeverGoesBack`, `KeyReleased` |
| `cache_wakeup` | `FairSpec` | violation of `Answered` (finding 2) |
| `task` | `FairSpec` | `OutcomeKept`, `OrphanSettles`, `DeletionFinishes` |
| `dir` | `FairSpec` | undisturbed: `Conserved`, `Converges`; disturbed: `RebuildReconciles` |
| `docker` | `Spec` | uploads: `UploadsSafe` (`AcceptedKept`, `LostOnlyAtRisk`); registry: `RegistrySafe` (`TaggedPullable`, `AnswersMatch`, `ProxyListsAll`), `MoveKeepsImage`; both: `Reclaimed` (`SessionEnds`, `LayersCollected`) |
| `packages` | `Spec` | `IndexesCurrent` (`HostedCurrent`, `ProxyCurrent`, `SignedCurrent`), `NamesStored` (`IndexServable`, `PartsInOrder`, `TagsPromised`), `StoredOnce`, `Shown` |
| `control` | `Spec` | repositories and files: `RecordsFit` (`NewIsEmpty`, `StoreInUse`, `TreeMatches`, `ListsAll`), `GoneAsAsked` (`LiveStays`, `BulkComplete`, `CleanSpares`), `LifecycleKept`; users: `DecisionsKept` (`LastAdmin`, `RevokeStands`, `RotationKeeps`, `SettingsKept`), `LoginsAreCurrent`; `Settles` (`EventuallyCurrent`, `DeletedGone`); copies: `CopiesFollow`; checks: `CheckSound` (`CheckSpares`, `CheckRepairs`, `MovedKept`) |
| `control_check` | `Spec` | violation of `CheckDefinitive` (finding 3) |

Names in parentheses are the conjuncts of the property before them, each defined
and explained on its own in the module it is about; each has a mutation of the code
that breaks it. `LeaseInv` and `DecisionStands` of GcLease are not in a run: they
are proved (section 5).

The properties of `docker`, `packages` and `control` mostly have the form "this holds unless `risk`
has ...": the races a handler leaves open are named in the property and described
in section 6; within the workloads of the run the property says that there are no others.

### Bounds

* BlobGc: two blobs, one content, one path, two clients. Every hazard of the
  collector is about one file and at most one competitor for its dedup record
  or its path: the second blob and the second client are that competitor. One
  fault is enough for each failure path (`MaxFaults`), one retry for both
  branches of the retry counter (`MaxRetries`), and `MaxCandidates` is the
  number of blobs, so the limit is not hit (section 6). One instance: overlap
  of passes of several instances is covered by the proof, which has no bound.
* GcLease: two collection loops and one check on two instances, terms of two
  and one ticks, two faults, versions up to 4.
* CacheFetch: a leader, a follower and a HEAD; two upstream versions, so that
  "older" means something; one fault.
* TaskLifecycle: one reaper and one failed call; a workload with two progress
  updates, so the bridge has a snapshot to be stale with, and a log entry, and one
  with a deletion.
* DirStats: three nested directories. One workload has two instances, sizes 1 and
  2, two changes and a failed call, clients on different paths and a kept artifact;
  the other
  clients on the same paths, a shutdown, a fault and a rebuild.
* Docker, packages, control plane: an initial state picks one of the workloads in
  the MC module, each of one to four requests chosen because their handlers touch
  the same records, with the background work that touches them too and at most one
  fault. Races need two requests and a bystander; larger workloads repeat them.
  Two chunks and two retries exercise every branch of the PATCH loop; pages have
  one item, so every listing has several; the ring of the event bus holds two
  events, so it overflows; two packages in two directories give an index
  something to miss. A deletion and a re-creation run beside a drain on each instance, with
  a second deleted repository, with a failed call, and with the collector draining too.
  A promotion runs beside pushes to its source, with both repositories collected for one
  push and none for two (two pushes under collection are beyond the run's time), and with
  the source or the target collected alone.
  The requests of yum load their configuration before and after a change of depth; those
  for one pypi file come to one instance and to two.

`SYMMETRY` permutes blobs and clients in the two BlobGc runs that check no
liveness. Deadlock checking is off where the system may come to rest: a task
that is over, a repository nobody changes any more.

### Fairness

* BlobGc: handlers and passes run on (tokio tasks are not starved), the
  scheduled loop ticks. Nothing is assumed of deletions or administrators.
* GcLease: loops tick, calls return, jobs end, a check makes finitely many
  attempts; strong fairness of `Tick`, because time passes however often an
  instantaneous call is in progress.
* CacheFetch: handlers and background tasks run on. This assumes of the
  environment that the upstream answers or breaks the connection and that a
  connected client reads: the code bounds neither (the HTTP client is built
  without a timeout, `infra/state.rs:288`), and `KeyReleased` is relative to it.
  No disconnect, expiry or recovery is assumed.
* TaskLifecycle: cleanup loops tick; a dead owner's heartbeat expires. No
  progress of workers or of API calls is assumed: they may stop anywhere.
* DirStats: requests send the delta they owe, workers run, every delta of a
  batch is served. None for changes, stops, faults or rebuilds.
* Docker: time passes, the cleanup worker and the collector run on. Clients may
  stop anywhere.
* Packages: a request that was sent goes on, or stops with an error.
* Control plane: handlers and workers go on (`Works`), and every instance refreshes
  its settings (a timer of its own).

## 4. Findings (runs that end in a violation)

1. `blobgc_dedup`. A blob whose last artifact was deleted is a candidate. A
   later pass scans; then an upload of the same content finds the dedup record,
   drops its own copy and refers to the candidate; the pass purges the record
   and deletes the file; the upload commits. `blob_reaper/mod.rs:21` says the
   two-pass grace period protects such an upload; it protects the file an upload
   wrote (`UploadsKept`), not one it reuses. `StaysSafe` shows that this window
   is the only one.
2. `cache_wakeup`. A follower obtains the `Notify` from the map; before it calls
   `notified()` the leader drops its guard, and `notify_waiters` wakes only those
   already waiting. The follower waits for ever. `inflight.rs:104` promises to
   wake all waiters.
3. `control_check`. A check lists the stores, then scans the repositories; a file
   uploaded in between has a blob that is not in the filter, and the repair deletes
   its artifact. `check.rs:800` says that such a blob "is definitively missing".
   `CheckSpares` shows that without uploads during the check, and with stores and
   repositories that can be read, nothing else is deleted wrongly.

## 5. Proofs

All theorems hold for every value of the constants that satisfies the named
`ASSUME` of the module. Those assumptions type the constants and keep the ids of
different actors apart; `DirAssumption` says besides that `Parent` and `Above` are
a tree and that no client works on a kept path, and `RegistryAssumption` that a
push and a deletion name a manifest and that the repositories differ;
`ControlAssumption` that requests come to instances, none of which is called "gc", that
those about a user, a repository, a store, a path or a field of the settings name one, that
the files that are there at first are finitely many, in repositories that are there, and
belong at such paths, that no value of a record is `None`, and that an admin is there at first
(`bootstrap_users` and the `[initialization]` section make one); `PackageAssumption` that the repositories
of the package formats differ, that only a yum repository has a `repodata_depth`
(`FormatConfig`) and that upstream's packages were not uploaded here. TLC evaluates
them in the runs.

| Theorem | Statement | Further assumptions |
|---|---|---|
| `BlobGcProofs!TypeCorrect` | `Spec => []TypeOK` | none |
| `BlobGcProofs!GracefulSafety` | `GracefulSpec => []GcInv` | the grace period |
| `BlobGcProofs!UploadsKept`, `RecordsBacked` | `OwnUploadKept`, `RecordHasFile` | the grace period |
| `BlobGcProofs!UnthreatenedStay` | `GracefulSpec => StaysSafe` | the grace period |
| `GcLeaseProofs!LeaseTypeCorrect` | `Spec => []TypeOK` | none |
| `GcLeaseProofs!LeaseOwned`, `LeaseExclusive` | `Spec => []LeaseInv`, `Spec => []MutualExclusion` (both properties say `timely => ...`) | `DistinctNames` |
| `GcLeaseProofs!DecisionsStand` | `Spec => []DecisionStands` | none |
| `GcLeaseProofs!LiveHolderKept` | `Spec => TakesOverOnlyExpired` | none |
| `CacheFetchProofs!CacheTypeCorrect` | `Spec => []TypeOK` | none |
| `CacheFetchProofs!CacheSafe` | `Spec => []CacheInv` | none |
| `CacheFetchProofs!FetchesApart` | `Spec => [](OneFetch /\ CompleteIsSaved)` | none |
| `CacheFetchProofs!CacheMonotonic` | `Spec => NeverGoesBack` | `OneInstanceOnly` |
| `TaskLifecycleProofs!TaskTypeCorrect` | `Spec => []TypeOK` | none |
| `TaskLifecycleProofs!TaskSafe`, `OutcomeStays` | `Spec => []TaskInv`, `Spec => OutcomeKept` | none |
| `DirStatsProofs!DirTypeCorrect` | `Spec => []TypeOK` | none |
| `DirStatsProofs!RebuildRepairs` | `Spec => []RebuildReconciles` | none |
| `DirStatsProofs!CountsConserved` | `Spec => []Conserved` (the property says `Steady => ...`) | none |
| `DockerProofs!RegistryTypeCorrect` | `Spec => []RegistryTypeOK` | none |
| `DockerProofs!ChunksKept` | `Spec => []AcceptedKept` | none |
| `DockerProofs!LayersKept` | `Spec => []UploadsSafe` (layers as long as none of the races of `UploadRisks` happened) | none |
| `DockerProofs!AnswersRight` | `Spec => []AnswersMatch` (as long as none of them happened; a manifest that upstream sent uncompared is exempt for the client that asked for it) | none |
| `ControlProofs!ControlInvariant` | `Spec => []ControlInv` | none |
| `ControlProofs!DecisionsHold` | `Spec => []DecisionsKept` (each decision as long as none of the races its property names happened) | none |
| `ControlProofs!LifeInvariant` | `Spec => [](ControlInv /\ LifeInv)` | none |
| `ControlProofs!NewRepositoriesAreEmpty`, `StoresAreThere` | `Spec => []NewIsEmpty`, `Spec => []StoreInUse` (as long as none of the races they name happened; for the first that is also a name taken while a drain has it listed) | none |
| `ControlProofs!LifecycleHolds` | `Spec => LifecycleKept`: `ControlPlane` implements `RepoLifecycle` until one of the races of `raced` | none |
| `PackagesProofs!SpecSafe` | `Spec => []Safe` | none |
| `PackagesProofs!TypeCorrect` | `Spec => []TypeOK` | none |
| `PackagesProofs!TagsKept` | `Spec => []TagsSafe` | none |
| `PackagesProofs!NamesAreStored` | `Spec => []NamesStored` (commit points as long as no change of depth deletes files; a dist-tag's version has a document or is still to get one) | none |
| `PackagesProofs!FetchedOnce` | `Spec => StoredOnce` (for requests that come to one instance, which the property says) | none |

*BlobGc.* That an uploader keeps its file is not inductive: a pass deletes
what is ripe and missing from its filter, so one must know why neither can be
true of the file. `UploadsOwn` says that the blob of an upload in flight is
nobody else's; `UploadsGraced`, that it is never ripe, and fresh only for a
pass that is running or that the upload has seen end (here the grace period
enters: that pass cannot be followed by another before the upload is over);
`OwnUnthreatened`, that a committed artifact the pass has scanned is in its
filter unless its blob is not ripe; `RecordsSwept`, that before a file is
deleted every record naming it has been swept; `NamesIssued` and `PassShape`
connect them. One lemma per action shows `GcInv` preserved. Because nothing in
the argument relates two instances, it covers any overlap of passes. `StaysSafe`
speaks of one step from such a state; beyond `GcInv` it needs `DuplicatesUnnamed`,
that a file an upload may still drop as a duplicate is named by no artifact.

*GcLease.* `HolderOwns` (a working job owns the record for exactly the time it
was granted), `RecordOwned` and `DeletesOwn` (nobody deletes another's record)
and `Observed` (a job about to take over decided on the record as it is)
are inductive under the intended timing. `LiveHolderKept` needs only
`DecisionStands`, which holds under any timing.

*CacheFetch.* `OneFetch` ties the map to the step of the leader; `StreamBacked`
is what makes `CompleteIsSaved` inductive; `FetchIsNewest` relates the version
in flight to the cached one and to the upstream, and gives `NeverGoesBack`.

*TaskLifecycle.* The record alone does not tell who will write over it. `HeldFits`
says what each writer holds at each step; `NotYet`, that before the worker is done
no copy anywhere is an outcome or marked for deletion; `OneOutcome`, that all
copies of an outcome agree; `BridgeLate`, that a bridge which read before the outcome
was written holds an older version, so that its compare-and-swap fails.

*DirStats.* Entries are sums over sets of artifacts, deltas sums over instances and
directories. A sum is proved to be a difference of cardinalities (`SumIsWeight`),
and the minimal element of a set of counterexamples stands in for the induction
over finite sets. `RebuildReconciles` follows from `RebuildInv` (what the task
has added up so far, and that nothing is on its way while it is calm). `Conserved`
is not inductive: it does not say that the worker's subtraction is never clamped,
nor that an entry read for a batch is still the one under its version. `SteadyInv` says
that for each directory there are three earlier states of the artifacts, the one its
requests have told of (`told`), the one its batches have taken up to (`taken`) and the
one its entry has (`done`), such that the channel, the buffer and the batch are the differences
of two of them: an entry together with a whole batch is a count of artifacts, so it is
never negative and nothing is clamped. `SeenFits`: an entry read under a version is that
version's entry, because the directory never gets empty or one worker alone writes it.

*Docker.* `Typed` completes the type invariant with what a request has at hand at
each step. `SessionInv`: the version of a session tells its chunks, so a PATCH whose
compare-and-swap succeeds appends to the list it read. `BlobInv` holds as long as
no race of `UploadRisks` happened and no cache stored unverified content: a
registered blob has the content it is registered for and is one that nobody who
could still delete it has at hand (`DedupFits`); records name registered blobs
(`LayersFit`, `ManifestsFit`); what a request is about to claim it has written, what
it is about to record is registered (`MonosFit`, `FinalsFit`, `OpsFit`); one final PUT
runs at a time (`OneFinal`), and once the session's blob is registered neither it nor
the cleanup will delete it (`TargetKept`). The collector deletes records only, so it
takes part in none of this. One lemma per action and conjunct shows the three
preserved (`Typed_<action>`, `SessionStep`, `Blob_<action>`).

*Control plane.* Each of the four decisions needs to know what the requests under way
are about to write, and `ControlInv` says it. `RequestsFit`: a request is only at steps of
its kind. `OtherAdmin`: who is about to delete an admin has counted another.
`FoundUser`, `UsersTyped` and `SecretsKept`: a record is written back that was found, so a
change of roles keeps the secret and a revocation replaces it before the caches forget the
user. `NextSecrets` and `FirstEnded`: a revocation of all writes a secret without a
previous one, a rotation keeps only the one it read. `OneRotation`: while at most one
rotation and no revocation have begun, the records, the memory of every instance and what
its refresh has read but not yet taken over hold the first secrets or those of the rotation,
so whatever instance signs a token, the records accept it. `NextSettings` and `PutKept`: one
field is replaced in what the instance had. Most of the 93 actions decide nothing:
a step is `Calm` if it takes its request to a step of its kind, leaves users, secrets and settings
alone or notes a restore, and gives no answer that a decision is about; `CalmKeeps`
shows once that such a step preserves everything, and `Calm_<action>` that an action is such
a step. What no request takes part in (the data model, the browser, listeners, drain,
collector) is covered by `AsideKeeps`; one lemma `Keeps_<action>` for each action that
decides does the rest.

*The life of a repository.* `NewIsEmpty` and the refinement of `RepoLifecycle` are not
inductive either: a drain deletes the record whatever it says by then, and uploads,
clones and checks write files for a repository they looked up long before. `LifeInv`
adds what each has at hand. `DrainFits`: whatever a worker has listed or is draining is
still being deleted or gone, and of what it has drained nothing has come back; with several
workers this holds until a name that one has listed is taken again ("undrained"). `HasRecord`: a record about to be
written back, marked or copied was that of a live repository. `PlanFits`: what a check is about
to delete or move are files of the repository it is at; its operations are a sequence over
such, so that taking the first leaves such a sequence (`TodoFirst`, `TodoRest`).
`UsesFit`: stores that a request is about to record are there, and a deletion of a
store that has counted no users has still none. Steps fall into classes, each with one
lemma: those that leave records alone (`Idle_<action>`, `IdleKeeps`), those that write or
delete files of one repository (`Refiled`, where `Intended` says that what is new was meant for the
repository that is there), those that write one repository (`Renamed`) or one store
(`Stored`), and the drain (`Drained`). Each shows besides what becomes of every
repository (`Promised`); `PromisedSteps` turns that into a step of `RepoLifecycle`. A write that the
handlers do not exclude (`overwritten`, `late`, `restored`, `undrained`) ends the promise, and
the tag says so: the proof shows that these are all there are.

*Packages.* `NamesStored` speaks of what is stored; `Own` says what each request under way
still relies on. `Stored`: the file of the commit point it is about to write, or to
copy into a snapshot, is there; `Parted`: so is the tarball of the version document and the
`.info` of the zip it is about to put; `Claimed`: from its
second look on nobody has stored the file a leader fetches, because (`Alone`) no other
leader on its instance has the claim and, by `SameInstance`, no other instance is asked. `Apart`: what a merged index of helm or npm is gathered from has each
version once, also half gathered. A step of one request does not take from another what it relies
on: files are only added, tarballs, documents and claims stay (`OthersOwn`, from `Mono`), except
where `NamesStored` says so (a change of depth, a deletion of a tarball). One lemma
`<action>Safe` for each action of the seven formats shows `Safe` preserved.
A dist-tag may name a version that has no document yet but is promised one by a
request: `TagsSafe` adds that the tags a request has read, and those it is about to put, are
promised (`Carried`). A promise passes from the versions left to the version at hand to its
document within one request, and a step of another takes no document away
(`PromisedStays`); `<action>Tags` shows `TagsSafe` preserved.

Only model-checked: all liveness properties (fairness is outside the prover's
reach); of the registry `TaggedPullable` and `MoveKeepsImage`, which speak of the
closure of a manifest under references, a recursive function whose values need an
induction, and `ProxyListsAll`, which needs one over the selection of a page; of the
package formats `IndexesCurrent`; of the control plane `TypeOK`, the parts `TreeMatches` and `ListsAll` of
`RecordsFit`, which compare sets at rest and over a whole walk, and the action properties
`GoneAsAsked`, `LoginsAreCurrent` and `CheckSound`, each of which needs what one handler saw at
every step of its own.

## 6. Observations

Places where the code does less than a reader of the documents might expect
and which no run reports. The passing runs exclude or allow for them
as stated; each schedule was followed in the model or read from the source.

Collection
* `gc_loop.rs:87` reads the time of the last pass at start-up only. A scheduled
  pass may follow a manual one (`tasks.rs:151`) at once, so a blob in flight may
  become ripe without grace; `settings.rs:66` speaks of a minimum interval.
* `gc_loop.rs:267`: with two stores, a pass that walked the first and failed in
  the second is retried within seconds as a later pass; the first store's
  candidates have no grace.
* `gc_pass.rs:395`: expiry is decided on a scanned page and carried out by path;
  an artifact read or replaced meanwhile is deleted all the same, against
  "not accessed" in `docs/usage.md:167`.
* `gc_pass.rs:764`: when the candidate map is full new orphans are ignored, and
  a candidate whose file has gone never leaves the map.

Leases and checks
* `cluster.rs:198` releases with an unconditional delete after a read; under
  delay it may delete the next holder's record, contrary to `:186`.
* Versions restart at 1 after a deletion (`redb_kv.rs:313`, and the DynamoDB
  store's `lib.rs:337`), so a compare-and-swap may succeed on a record nobody
  compared; `trait_def.rs:25` speaks of a monotonic counter.
* A check longer than an hour (`check.rs:74`) outlives its lease; a manual pass
  takes none (`tasks.rs:167`); `docs/architecture.md:165-170` says they exclude
  each other. Two checks requested together may both start (`tasks.rs:67`).

Caches
* With `cache_ttl_secs` 0 a cached artifact is never checked again
  (`cache.rs:238`, `docs/architecture.md:69`).
* An upstream that accepts a request and never answers holds the key of the
  artifact on that instance (`infra/state.rs:288` sets no timeout).
* Followers of a leader that failed answer 404 (`cache.rs:269`) although the
  artifact may exist (`docs/usage.md:150`).

Tasks
* The reaper of a task whose owner was only late writes "Failed" over the
  owner's outcome or is overwritten by it (`cleanup.rs:152`, `task.rs:239-242`).
* A log entry may be appended after the log was deleted (`infra/task.rs:336`),
  and a read before a deletion followed by a write after it brings the task
  back (`infra/task.rs:210`).
* With several reapers the late mark of one (`cleanup.rs:169`, unconditional) may write
  a record again that another has deleted; its version starts at 1, so the
  compare-and-swap of a bridge that read version 1 long ago may succeed
  (`infra/task.rs:253`). `OutcomeKept` ends with the mark where reapers are several.

Directory statistics
* Deltas of two requests for one path may arrive in the opposite order, and the
  clamp at zero (`update.rs:454`) then loses counts until a rebuild.
* An entry that is deleted when its directory gets empty starts at version 1 again: a
  worker of another instance that read the old version 1 overwrites the new one. So
  `Conserved` asks for directories that are never empty or have one writer.
* A rebuild overlapping an upload may count it twice (`update.rs:789`).
* Deltas in the channel at shutdown, or failed in the final flush, are lost
  (`update.rs:139`, `:146`).

* `update.rs:449`: an upload and a deletion coalesced to a count of zero for a
  directory without entry are queued again for ever; `apply_dir_delta` returns the
  same answer as for a version conflict, so the worker never sleeps (`update.rs:133`
  "Sleep until new work arrives") and never sees the shutdown.

Docker
* `uploads.rs:914` deletes the session's blob on any dedup hit, without the
  comparison of ids that `claim_or_reuse_blob` makes: a repeated final PUT hits
  the record of the first and deletes the file of the committed blob.
* `service/upload.rs:87` deletes the blob of a session whose artifact was
  committed but whose own deletion failed, and of one that expires under its final
  PUT. The chunks of a session that lives across two passes are unreferenced.
* `docker_gc.rs:167` skips young records "to avoid racing concurrent manifest
  pushes"; a push that finds an old layer present has no such protection, and a
  promotion keeps `created_at` and has none either. A manifest that cannot be read
  protects none of its layers (`docker_gc.rs:326`).
* The tags of a hosted repository come unsorted while `tags.rs:102` pages with
  "greater than the last one": following the pages skips tags.
* `cache_head_blob` stores what upstream sent without comparing digests
  (`blobs.rs:292`). A manifest asked for by digest is not compared with it either
  (`manifests.rs:299`, while `blobs.rs:206` does so for a blob): it is passed on to the client,
  and kept under the digest it has.
* A move drops the source tag whatever it names by then (`promote.rs:261`): an image pushed
  to the tag after it was copied is no longer tagged anywhere.
* The push of an image looks for the layers it lists, not for its config or the children of
  a list (`manifests.rs:717`). A mount between repositories on different stores refers to a
  blob that is not in the target's store.

Package formats
* Two readers rebuild one index: the older scan may commit last, and no flag is
  left. A rebuild that fails after it cleared the flag forgets the change.
* An upload addressed to a proxy does not flag that proxy; a delete through the raw
  API flags nothing for apt and yum; the Nexus upload of apt and yum flags no
  proxy; a nested apt or yum proxy merges the inner one's old index.
* npm's flag is put only if absent, so the age a proxy compares with never moves
  (`npm/src/store.rs:694` says "unconditional overwrite"); dist-tags are merged
  read-then-write.
* npm: a cache stores the dist-tags of a packument before the documents of its versions
  (`npm/src/api.rs:347`), and a publish of several versions puts all its tags with the first
  of them (`api.rs:927`). Readers in between see a tag without its version; it stays so
  when the publish stops or a put of the cache fails, which is passed over.
* yum: an emptied directory keeps its repomd, a change of depth deletes snapshots,
  repositories with a depth contribute nothing to proxies. A request divides by the depth
  it loaded (`yum/src/api.rs:28`): one that outlives a change may clear the flag of an upload
  and write the index of the old depth only. A snapshot reads from the repository what it
  lacks (`yum/src/store/store.rs:275`), so it mixes with the current index, and a stale
  repository is rebuilt before its snapshot is served ("snapshots are frozen", `api.rs:289`). apt: a rebuild may sign
  with a key read before a rotation; two rotations may leave keys that do not
  match; a rotation empties snapshots.
* cargo writes the blob to the store of the repository asked, the record to its
  write member; yanking is read-then-write. A Go version is listed before its zip
  is there. helm, npm and golang caches may fetch one file twice, and so may two instances
  of a pypi cache, because each has in-flight claims of its own (`pypi/src/api.rs:881`).

Repositories, files
* Every instance drains what is deleted twice a minute (`cleanup.rs:78`), and so does each
  pass of the collector (`gc_pass.rs:89`), from a list read before and without a lease. When one
  has finished and the name is created again, another deletes the files, the entries and at
  last the configuration of the new repository (`repo.rs:321`).
* `create_repo` over a name that is being deleted, and `update_repo` of it, bring it
  back while the drain goes on; two creates overwrite each other; uploads and clones
  into a repository deleted meanwhile leave records behind; a clone writes over
  uploads into its target; a cancelled one stays half done.
* `delete_store` races `create_repo`, `clone_repo`, which reserves the name for a copy of
  a record it read earlier (`repo.rs:199`), and uploads (`stores.rs:643`); other instances
  do not load a new store; restore announces existing names as created and loads no
  store.
* A page of a proxy skips the items of a member that fails; files of members being
  deleted are listed; `If-Modified-Since` compares whole seconds.

Users, tokens, settings
* The last admin can go by two concurrent deletions or a demotion
  (`users.rs:272`); `update_user` may undo a revocation it did not see.
* A rotation on an instance that has not read a revocation of all tokens writes the
  revoked secret as the previous one (`auth.rs` "no existing tokens will
  validate"); two rotations drop each other's secret.
* A user record looked up before an invalidation may be cached after it, until it
  expires (`backend.rs:202`). `put_settings` merges into what the instance has in
  memory, and a refresh racing it takes it back. LDAP settings are never refreshed.

Live model
* Changes of users, roles and settings reach other instances' models never, contrary
  to `state_scanner.rs:9`. A deletion announced after a re-creation removes the
  name, and one that was created after it was deleted leaves a ghost, until the next
  event of that name.
* `event_stream.rs:61` subscribes after the snapshot; what is published in between is
  missed. `drain_buffered` swallows the notice of a lag.

Integrity check
* A store whose listing fails (`check.rs:274`), or that this instance has not loaded, counts
  as empty: every artifact in it is deleted. A failed first pass over a Docker
  repository deletes all its tags; a tag pushed between the two passes is deleted.
* A move deletes the record before it writes the new one (`check.rs:1049`), brings
  back a file a client deleted meanwhile, and puts a legacy chart over a newer one.
* `fixed` is never set for artifacts: `check.rs:1011` looks for another text than
  the one `check.rs:864` wrote. In the quick mode a collision of the filter hides a
  lost blob.

## 7. Not modelled, and why

* Parsing and rendering of package metadata, HTTP routing and serialisation,
  presentation in the user interface, log export, metrics, rate limiting: no shared
  state of their own, or a clock against a counter.
* Access times and store statistics: overwritten by the next access or pass; no
  decision but expiry rests on them, which the models leave open.
* LDAP and upstream registries: external; an upstream appears by what a cache sees
  of it.
* Buffer alignment, part sizes, compression, encryption of values at rest: pure I/O.
* Batching and sharding inside the KV stores: invisible to their callers except
  for the atomicity of single-key operations, which the models keep.
* Benchmark and demo tools (a twelfth of the code): not part of the served system.
* Writes reported as failed but applied are explored for leases only.

## 8. Plan

1. Proofs: `IndexesCurrent` of Packages; type correctness, `TreeMatches` and the action
   properties of ControlPlane.
2. Composition of BlobGc with GcLease (a pass runs under its lease), and an
   abstract lease that GcLease implements.
3. Store statistics: deltas against the collector's overwrite.
