------------------------------- MODULE BlobGc -------------------------------
(***************************************************************************)
(* Content-addressed ingestion racing the blob garbage collector.          *)
(*                                                                         *)
(* An upload writes a blob file under a fresh id, claims or reuses the     *)
(* dedup record of its content, and only then writes the artifact record   *)
(* that references the blob (core/src/repo/mod.rs, service/blob.rs).  A    *)
(* collector pass scans the artifact records into a filter, deletes the    *)
(* dedup records the filter misses, and walks the blob files: a file the   *)
(* filter misses becomes a candidate, and is deleted by a later pass       *)
(* (server/worker/blob_reaper/gc_pass.rs).  Every KV or blob-store call is *)
(* a step of its own, so uploads, deletions and the passes of several      *)
(* instances interleave freely.  Passes of different instances may         *)
(* overlap: nothing here relies on the gc lease.                           *)
(***************************************************************************)
EXTENDS Naturals, FiniteSets

CONSTANTS
    Blobs,          \* blob ids (UUIDs, never reused)
    Keys,           \* dedup record keys: a content hash within a store
    Paths,          \* artifact keys: a path within a repository
    Stores,         \* blob stores
    Clients,        \* concurrent uploads
    Instances,      \* server instances, each with its own GcState
    StoreOf,        \* the store of a blob id, a dedup key or a path
    Expiring,       \* the paths of repositories that have a cleanup policy
    Collisions,     \* blob ids the Bloom filter may report although unset
    Requests,       \* the passes administrators ask for: manual, dryrun
    MaxCandidates,  \* gc_max_orphan_candidates
    MaxRetries,     \* MAX_TRANSIENT_RETRIES
    MaxFaults,      \* bound: failures and crashes explored
    None            \* no blob / no record

ASSUME ConstantsAssumption ==
    /\ StoreOf \in [Blobs \cup Keys \cup Paths -> Stores]
    /\ Expiring \subseteq Paths
    /\ Collisions \subseteq Blobs
    /\ Requests \subseteq {"manual", "dryrun"}
    /\ MaxCandidates \in Nat /\ MaxRetries \in Nat /\ MaxFaults \in Nat
    /\ None \notin Blobs

VARIABLES
    files,    \* blob files present, over all stores
    recs,     \* dedup records: key -> blob id
    art,      \* artifact records: path -> record
    issued,   \* blob ids handed out so far
    up,       \* the uploads in flight
    seen,     \* client -> instances that ended a pass since its upload began
    seenAuto, \* the same, for scheduled passes only
    asked,    \* manual passes accepted and waiting for the gc_state mutex
    pc,       \* where each instance's pass stands
    mode,     \* how it was started: scheduled, or by an administrator
    toScan,   \* paths this pass has yet to scan
    filter,   \* the Bloom filter: blob ids reported as referenced
    doomed,   \* artifact paths or dedup keys read and about to be deleted
    toSweep,  \* stores this pass has yet to sweep
    walk,     \* the store being walked and the files yet to be looked at
    fresh,    \* candidates with first_seen_pass = the current pass
    ripe,     \* candidates first seen in an earlier pass
    retries,  \* transient_retries
    early,    \* last_gc_utc was set back to retry a failed pass
    reset,    \* the persisted gc_last_started_at was set back
    faults    \* failures so far

upVars   == <<issued, up, seen, seenAuto>>
storage  == <<files, recs, art>>
passVars == <<mode, toScan, filter, doomed, toSweep, walk>>
candVars == <<fresh, ripe>>
schedule == <<asked, retries, early, reset>>
vars == <<files, recs, art, issued, up, seen, seenAuto, asked, pc, mode,
          toScan, filter, doomed, toSweep, walk, fresh, ripe, retries, early,
          reset, faults>>

\* An artifact record.  own is a history bit: the upload that committed the
\* record is the one that wrote its blob (it was not a dedup hit).  aged: the
\* record is past its repository's cleanup cutoff.
Artifact == [blob: Blobs, own: BOOLEAN, aged: BOOLEAN]

\* What an upload has left to do.  blob is the file it wrote, eff the blob
\* its artifact record will reference, once that is known.
NoUpload == [at |-> "idle", blob |-> None, key |-> None,
             path |-> None, eff |-> None]
Upload ==
    {NoUpload}
      \cup [at: {"claim", "reread", "force"}, blob: Blobs, key: Keys,
            path: Paths, eff: {None}]
      \cup [at: {"commit", "dedup", "drop"}, blob: Blobs, key: Keys,
            path: Paths, eff: Blobs]

NoWalk == [store |-> None, left |-> {}]

Steps == {"idle", "scan", "sweep", "purge", "walk"}
Modes == {"auto", "manual", "dryrun"}

TypeOK ==
    /\ files \subseteq Blobs /\ issued \subseteq Blobs
    /\ recs \in [Keys -> Blobs \cup {None}]
    /\ art \in [Paths -> Artifact \cup {None}]
    /\ up \in [Clients -> Upload]
    /\ seen \in [Clients -> SUBSET Instances]
    /\ seenAuto \in [Clients -> SUBSET Instances]
    /\ asked \in [Instances -> SUBSET Requests]
    /\ pc \in [Instances -> Steps] /\ mode \in [Instances -> Modes]
    /\ toScan \in [Instances -> SUBSET Paths]
    /\ filter \in [Instances -> SUBSET Blobs]
    /\ doomed \in [Instances -> SUBSET (Paths \cup Keys)]
    /\ toSweep \in [Instances -> SUBSET Stores]
    /\ walk \in [Instances -> [store: Stores \cup {None}, left: SUBSET Blobs]]
    /\ fresh \in [Instances -> SUBSET Blobs]
    /\ ripe \in [Instances -> SUBSET Blobs]
    /\ retries \in [Instances -> Nat] /\ early \in [Instances -> BOOLEAN]
    /\ reset \in BOOLEAN /\ faults \in Nat

Init ==
    /\ files = {} /\ issued = {}
    /\ recs = [k \in Keys |-> None]
    /\ art = [p \in Paths |-> None]
    /\ up = [c \in Clients |-> NoUpload]
    /\ seen = [c \in Clients |-> {}]
    /\ seenAuto = [c \in Clients |-> {}]
    /\ asked = [i \in Instances |-> {}]
    /\ pc = [i \in Instances |-> "idle"]
    /\ mode = [i \in Instances |-> "auto"]
    /\ toScan = [i \in Instances |-> {}]
    /\ filter = [i \in Instances |-> {}]
    /\ doomed = [i \in Instances |-> {}]
    /\ toSweep = [i \in Instances |-> {}]
    /\ walk = [i \in Instances |-> NoWalk]
    /\ fresh = [i \in Instances |-> {}]
    /\ ripe = [i \in Instances |-> {}]
    /\ retries = [i \in Instances |-> 0]
    /\ early = [i \in Instances |-> FALSE]
    /\ reset = FALSE /\ faults = 0

-----------------------------------------------------------------------------
(* Uploads.                                                                *)

collector == <<pc, passVars, candVars, schedule, faults>>

\* The upload goes on to the given step, its artifact to reference eff.
Advance(c, step, eff) ==
    up' = [up EXCEPT ![c] = [at |-> step, blob |-> up[c].blob,
                             key |-> up[c].key, path |-> up[c].path,
                             eff |-> eff]]

\* Mutant: the handler's state outlives the request.
FinishKeepingState(c) == up' = [up EXCEPT ![c].at = "idle"]

\* The request is over, with success or not.
Finish(c) == up' = [up EXCEPT ![c] = NoUpload]

\* The blob file is written under a fresh UUID before any KV record.
WriteBlob(c, b, k, p) ==
    /\ up[c].at = "idle"
    /\ b \notin issued
    /\ StoreOf[b] = StoreOf[p] /\ StoreOf[k] = StoreOf[p]
    /\ issued' = issued \cup {b}
    /\ files' = files \cup {b}
    /\ up' = [up EXCEPT ![c] = [at |-> "claim", blob |-> b, key |-> k,
                                path |-> p, eff |-> None]]
    /\ seen' = [seen EXCEPT ![c] = {}]
    /\ seenAuto' = [seenAuto EXCEPT ![c] = {}]
    /\ UNCHANGED <<recs, art, collector>>

\* put_if_absent of the dedup record: the upload wins the hash, or must read
\* the record that is already there.
ClaimHash(c) ==
    /\ up[c].at = "claim"
    /\ IF recs[up[c].key] = None
         THEN /\ recs' = [recs EXCEPT ![up[c].key] = up[c].blob]
              /\ Advance(c, "commit", up[c].blob)
         ELSE /\ Advance(c, "reread", None)
              /\ UNCHANGED recs
    /\ UNCHANGED <<files, art, issued, seen, seenAuto, collector>>

\* The losing upload reads the winner's blob id; the record may have been
\* swept in between.
RereadRecord(c) ==
    /\ up[c].at = "reread"
    /\ IF recs[up[c].key] = None
         THEN Advance(c, "force", None)
         ELSE Advance(c, "dedup", recs[up[c].key])
    /\ UNCHANGED <<storage, issued, seen, seenAuto, collector>>

\* "Treat as new": an unconditional put of the upload's own record.
ForceRecord(c) ==
    /\ up[c].at = "force"
    /\ recs' = [recs EXCEPT ![up[c].key] = up[c].blob]
    /\ Advance(c, "commit", up[c].blob)
    /\ UNCHANGED <<files, art, issued, seen, seenAuto, collector>>

\* put_artifact: the record becomes visible, replacing any earlier one.  On a
\* dedup hit it runs concurrently with the deletion of the duplicate file.
PutArtifact(c) ==
    /\ up[c].at \in {"commit", "dedup"}
    /\ art' = [art EXCEPT ![up[c].path] =
                 [blob |-> up[c].eff, own |-> (up[c].at = "commit"),
                  aged |-> FALSE]]
    /\ IF up[c].at = "dedup" /\ up[c].blob \in files
         THEN Advance(c, "drop", up[c].eff)
         ELSE Finish(c)
    /\ UNCHANGED <<files, recs, issued, seen, seenAuto, collector>>

\* The deletion of the duplicate blob file on a dedup hit.
DropDuplicate(c) ==
    /\ up[c].at = "drop" \/ (up[c].at = "dedup" /\ up[c].blob \in files)
    /\ files' = files \ {up[c].blob}
    /\ IF up[c].at = "drop" THEN Finish(c) ELSE UNCHANGED up
    /\ UNCHANGED <<recs, art, issued, seen, seenAuto, collector>>

\* The request fails or its future is dropped between two awaits, leaving
\* whatever it had already written.
AbortUpload(c) ==
    /\ up[c].at # "idle"
    /\ faults < MaxFaults
    /\ faults' = faults + 1
    /\ Finish(c)
    /\ UNCHANGED <<storage, issued, seen, seenAuto, pc, passVars, candVars,
                   schedule>>

\* An artifact is deleted: through the API, by the drain of a deleted
\* repository, or by a format's own cleanup.
DeleteArtifact(p) ==
    /\ art[p] # None
    /\ art' = [art EXCEPT ![p] = None]
    /\ UNCHANGED <<files, recs, upVars, collector>>

\* Time passes and the record crosses its repository's cleanup cutoff.
AgeArtifact(p) ==
    /\ p \in Expiring
    /\ art[p] # None /\ ~art[p].aged
    /\ art' = [art EXCEPT ![p].aged = TRUE]
    /\ UNCHANGED <<files, recs, upVars, collector>>

\* A download refreshes the access time that the unaccessed-days policy reads.
TouchArtifact(p) ==
    /\ art[p] # None /\ art[p].aged
    /\ art' = [art EXCEPT ![p].aged = FALSE]
    /\ UNCHANGED <<files, recs, upVars, collector>>

-----------------------------------------------------------------------------
(* Collector passes.  The gc_state mutex gives each instance one pass at a *)
(* time.                                                                   *)

uploads == <<up, issued>>

\* Mutant: the loop starts every pass from a new GcState.
BeginPassForgetting(i, m) ==
    /\ pc' = [pc EXCEPT ![i] = "scan"]
    /\ mode' = [mode EXCEPT ![i] = m]
    /\ toScan' = [toScan EXCEPT ![i] = Paths]
    /\ filter' = [filter EXCEPT ![i] = {}]
    /\ doomed' = [doomed EXCEPT ![i] = {}]
    /\ toSweep' = [toSweep EXCEPT ![i] = Stores]
    /\ ripe' = [ripe EXCEPT ![i] = {}]
    /\ fresh' = [fresh EXCEPT ![i] = {}]

\* What gc_pass does first, whoever calls it: a new pass number, which makes
\* the candidates of earlier passes deletable, and an empty filter.
BeginPass(i, m) ==
    /\ pc' = [pc EXCEPT ![i] = "scan"]
    /\ mode' = [mode EXCEPT ![i] = m]
    /\ toScan' = [toScan EXCEPT ![i] = Paths]
    /\ filter' = [filter EXCEPT ![i] = {}]
    /\ doomed' = [doomed EXCEPT ![i] = {}]
    /\ toSweep' = [toSweep EXCEPT ![i] = Stores]
    /\ ripe' = [ripe EXCEPT ![i] = ripe[i] \cup fresh[i]]
    /\ fresh' = [fresh EXCEPT ![i] = {}]

InFlight(c) == up[c].at # "idle"

\* Mutant: a pass on every tick.
AlwaysDue(i) == TRUE

\* gc_due: the scheduled loop compares the time with last_gc_utc, the start of
\* its own previous scheduled pass.  Time is not modelled: an upload takes less
\* than what is left of gc_interval when a pass ends, so no upload in flight
\* has seen the previous scheduled pass end.  A retry after a transient error
\* starts on the next tick instead.
Due(i) == early[i] \/ \A c \in Clients : InFlight(c) => i \notin seenAuto[c]

\* A tick of the scheduled loop starts a pass.
StartScheduled(i) ==
    /\ pc[i] = "idle"
    /\ Due(i)
    /\ BeginPass(i, "auto")
    /\ early' = [early EXCEPT ![i] = FALSE]
    /\ reset' = FALSE
    /\ UNCHANGED <<storage, upVars, walk, asked, retries, faults>>

\* start_gc: rejected while a GC task runs on any instance, and until
\* gc_min_interval has passed since the persisted start of the latest pass of
\* any instance.  The checks and the creation of the task are separate awaits,
\* so two requests may both be accepted.
RequestPass(i, m) ==
    /\ \A j \in Instances : pc[j] = "idle"
    /\ m \notin asked[i]
    /\ reset \/ \A c \in Clients : InFlight(c) => seen[c] = {}
    /\ asked' = [asked EXCEPT ![i] = @ \cup {m}]
    /\ UNCHANGED <<storage, upVars, pc, passVars, candVars, retries, early,
                   reset, faults>>

\* The spawned task persists the start time, gets the gc_state mutex and runs
\* gc_pass, without taking the gc lease.
StartManual(i, m) ==
    /\ pc[i] = "idle"
    /\ m \in asked[i]
    /\ asked' = [asked EXCEPT ![i] = @ \ {m}]
    /\ BeginPass(i, m)
    /\ reset' = FALSE
    /\ UNCHANGED <<storage, upVars, walk, retries, early, faults>>

\* Mutant: a shard's local filter is dropped instead of folded in.
SetBitUnfolded(i, b) == UNCHANGED filter

\* The blob of a live artifact record enters the filter.
SetBit(i, b) == filter' = [filter EXCEPT ![i] = @ \cup {b}]

\* A shard task reads one artifact record.  A record past its cutoff is put
\* on the page's list of expired entries and left out of the filter.
ScanArtifact(i, p) ==
    /\ pc[i] = "scan"
    /\ p \in toScan[i]
    /\ toScan' = [toScan EXCEPT ![i] = @ \ {p}]
    /\ \/ /\ art[p] # None /\ art[p].aged
          /\ doomed' = [doomed EXCEPT ![i] =
                          IF mode[i] = "dryrun" THEN @ ELSE @ \cup {p}]
          /\ UNCHANGED filter
       \/ /\ art[p] # None /\ ~art[p].aged
          /\ SetBit(i, art[p].blob)
          /\ UNCHANGED doomed
       \/ /\ art[p] = None
          /\ UNCHANGED <<filter, doomed>>
    /\ UNCHANGED <<storage, upVars, pc, mode, toSweep, walk, candVars,
                   schedule, faults>>

\* delete_artifacts_paired_batch of the page's expired entries, by path.
ExpireArtifact(i, p) ==
    /\ pc[i] = "scan"
    /\ p \in doomed[i]
    /\ art' = [art EXCEPT ![p] = None]
    /\ doomed' = [doomed EXCEPT ![i] = @ \ {p}]
    /\ UNCHANGED <<files, recs, upVars, pc, mode, toScan, filter, toSweep,
                   walk, candVars, schedule, faults>>

\* Mutant: the shard tasks are not joined before the filter is used.
NotJoined(i) == doomed[i] = {}

\* Every shard task has returned.
AllJoined(i) == toScan[i] = {} /\ doomed[i] = {}

\* All shards have been folded into the filter; candidates it reports are
\* forgotten.  A Bloom filter may also report ids that were never set.
SealFilter(i) ==
    /\ pc[i] = "scan"
    /\ AllJoined(i)
    /\ \E fp \in SUBSET Collisions :
         /\ filter' = [filter EXCEPT ![i] = @ \cup fp]
         /\ fresh' = [fresh EXCEPT ![i] = @ \ (filter[i] \cup fp)]
         /\ ripe' = [ripe EXCEPT ![i] = @ \ (filter[i] \cup fp)]
    /\ pc' = [pc EXCEPT ![i] = "sweep"]
    /\ UNCHANGED <<storage, upVars, mode, toScan, doomed, toSweep, walk,
                   schedule, faults>>

\* Mutant: the record sweep finds nothing to delete.
UnreferencedNone(i, s) == {k \in Keys : FALSE}

\* The dedup records of a store whose blob the filter misses.
Unreferenced(i, s) ==
    {k \in Keys : StoreOf[k] = s /\ recs[k] # None /\ recs[k] \notin filter[i]}

\* The dedup records of one store are read; those whose blob the filter
\* misses are listed for deletion, unless this is a dry run.
SweepRecords(i, s) ==
    /\ pc[i] = "sweep"
    /\ s \in toSweep[i]
    /\ toSweep' = [toSweep EXCEPT ![i] = @ \ {s}]
    /\ doomed' = [doomed EXCEPT ![i] =
                    IF mode[i] = "dryrun" THEN {} ELSE Unreferenced(i, s)]
    /\ walk' = [walk EXCEPT ![i] = [store |-> s, left |-> {}]]
    /\ pc' = [pc EXCEPT ![i] = "purge"]
    /\ UNCHANGED <<storage, upVars, mode, toScan, filter, candVars,
                   schedule, faults>>

\* delete_batch of the listed dedup records, by key; then the blob walk of
\* that store begins, listing at least the files now present.
PurgeRecords(i) ==
    /\ pc[i] = "purge"
    /\ recs' = [k \in Keys |-> IF k \in doomed[i] THEN None ELSE recs[k]]
    /\ doomed' = [doomed EXCEPT ![i] = {}]
    /\ walk' = [walk EXCEPT ![i].left =
                  {b \in files : StoreOf[b] = walk[i].store}]
    /\ pc' = [pc EXCEPT ![i] = "walk"]
    /\ UNCHANGED <<files, art, upVars, mode, toScan, filter, toSweep,
                   candVars, schedule, faults>>

\* Mutant: no grace period.
DeletableAtOnce(i, b) == b \notin filter[i]

\* current_pass - first_seen_pass >= 1.
Deletable(i, b) == b \notin filter[i] /\ b \in ripe[i]

\* A file found by the walk (one listed at its start, or written since).  The
\* filter protects it; an earlier candidate is deleted; otherwise it becomes a
\* candidate if the map has room.  A dry run forgets an earlier candidate
\* without deleting its file; a delete that fails does the same.
WalkFile(i, b) ==
    /\ pc[i] = "walk"
    /\ b \in walk[i].left \/ (b \in files /\ StoreOf[b] = walk[i].store)
    /\ walk' = [walk EXCEPT ![i].left = @ \ {b}]
    /\ \/ /\ b \in filter[i] \/ b \notin files
          /\ UNCHANGED <<files, candVars, faults>>
       \/ /\ Deletable(i, b)
          /\ ripe' = [ripe EXCEPT ![i] = @ \ {b}]
          /\ \/ /\ mode[i] # "dryrun"
                /\ files' = files \ {b}
                /\ UNCHANGED faults
             \/ /\ mode[i] = "dryrun"
                /\ UNCHANGED <<files, faults>>
             \/ /\ mode[i] # "dryrun" /\ faults < MaxFaults
                /\ faults' = faults + 1
                /\ UNCHANGED files
          /\ UNCHANGED fresh
       \/ /\ b \notin filter[i] /\ ~Deletable(i, b)
          /\ fresh' = [fresh EXCEPT ![i] =
               IF Cardinality(fresh[i] \cup ripe[i]) < MaxCandidates
                 THEN @ \cup {b} ELSE @]
          /\ UNCHANGED <<files, ripe, faults>>
    /\ UNCHANGED <<recs, art, upVars, pc, mode, toScan, filter, doomed,
                   toSweep, schedule>>

\* The scan of a shard of the blob store fails: a warning is logged and the
\* walk goes on without the files that were not listed.
WalkError(i) ==
    /\ pc[i] = "walk" /\ walk[i].left # {}
    /\ faults < MaxFaults
    /\ faults' = faults + 1
    /\ walk' = [walk EXCEPT ![i].left = {}]
    /\ UNCHANGED <<storage, upVars, pc, mode, toScan, filter, doomed, toSweep,
                   candVars, schedule>>

\* Uploads in flight see this pass of i end.
PassEnded(i) ==
    /\ seen' = [c \in Clients |->
                  IF InFlight(c) THEN seen[c] \cup {i} ELSE seen[c]]
    /\ seenAuto' = [c \in Clients |->
                      IF InFlight(c) /\ mode[i] = "auto"
                        THEN seenAuto[c] \cup {i} ELSE seenAuto[c]]

\* The walk of a store is over: on to the next store.
NextStore(i) ==
    /\ pc[i] = "walk" /\ walk[i].left = {} /\ toSweep[i] # {}
    /\ pc' = [pc EXCEPT ![i] = "sweep"]
    /\ walk' = [walk EXCEPT ![i] = NoWalk]
    /\ UNCHANGED <<storage, upVars, mode, toScan, filter, doomed, toSweep,
                   candVars, schedule, faults>>

\* The pass returns Ok.
EndPass(i) ==
    /\ pc[i] = "walk" /\ walk[i].left = {} /\ toSweep[i] = {}
    /\ pc' = [pc EXCEPT ![i] = "idle"]
    /\ walk' = [walk EXCEPT ![i] = NoWalk]
    /\ retries' = [retries EXCEPT ![i] = IF mode[i] = "auto" THEN 0 ELSE @]
    /\ PassEnded(i)
    /\ UNCHANGED <<storage, uploads, mode, toScan, filter, doomed, toSweep,
                   candVars, asked, early, reset, faults>>

\* A KV call of the scan or of a record sweep fails, or the pass is
\* cancelled (a permanent error).  The scheduled loop keeps the candidates and
\* retries soon after a transient error, up to MaxRetries times, and drops its
\* GcState otherwise; a manual pass leaves everything as it is.
FailPass(i, transient) ==
    /\ pc[i] \in {"scan", "sweep", "purge"}
    /\ faults < MaxFaults
    /\ faults' = faults + 1
    /\ pc' = [pc EXCEPT ![i] = "idle"]
    /\ doomed' = [doomed EXCEPT ![i] = {}]
    /\ walk' = [walk EXCEPT ![i] = NoWalk]
    /\ \/ /\ mode[i] = "auto" /\ transient /\ retries[i] < MaxRetries
          /\ retries' = [retries EXCEPT ![i] = @ + 1]
          /\ early' = [early EXCEPT ![i] = TRUE]
          /\ reset' = TRUE
          /\ UNCHANGED candVars
       \/ /\ mode[i] = "auto" /\ ~(transient /\ retries[i] < MaxRetries)
          /\ retries' = [retries EXCEPT ![i] = 0]
          /\ fresh' = [fresh EXCEPT ![i] = {}]
          /\ ripe' = [ripe EXCEPT ![i] = {}]
          /\ UNCHANGED <<early, reset>>
       \/ /\ mode[i] # "auto"
          /\ UNCHANGED <<retries, early, reset, candVars>>
    /\ PassEnded(i)
    /\ UNCHANGED <<storage, uploads, mode, toScan, filter, toSweep, asked>>

\* The instance dies and restarts: its GcState lived in memory only, and its
\* loop reloads the persisted start time.
CrashInstance(i) ==
    /\ faults < MaxFaults
    /\ faults' = faults + 1
    /\ pc' = [pc EXCEPT ![i] = "idle"]
    /\ doomed' = [doomed EXCEPT ![i] = {}]
    /\ walk' = [walk EXCEPT ![i] = NoWalk]
    /\ fresh' = [fresh EXCEPT ![i] = {}]
    /\ ripe' = [ripe EXCEPT ![i] = {}]
    /\ retries' = [retries EXCEPT ![i] = 0]
    /\ asked' = [asked EXCEPT ![i] = {}]
    /\ early' = [early EXCEPT ![i] = reset]
    /\ IF pc[i] = "idle" THEN UNCHANGED <<seen, seenAuto>> ELSE PassEnded(i)
    /\ UNCHANGED <<storage, uploads, mode, toScan, filter, toSweep, reset>>

-----------------------------------------------------------------------------

UploadStep(c) ==
    \/ \E b \in Blobs, k \in Keys, p \in Paths : WriteBlob(c, b, k, p)
    \/ ClaimHash(c) \/ RereadRecord(c) \/ ForceRecord(c)
    \/ PutArtifact(c) \/ DropDuplicate(c) \/ AbortUpload(c)

PassStep(i) ==
    \/ \E p \in Paths : ScanArtifact(i, p) \/ ExpireArtifact(i, p)
    \/ SealFilter(i)
    \/ \E s \in Stores : SweepRecords(i, s)
    \/ PurgeRecords(i)
    \/ \E b \in Blobs : WalkFile(i, b)
    \/ NextStore(i) \/ EndPass(i)

PassFault(i) ==
    \/ WalkError(i) \/ CrashInstance(i)
    \/ \E transient \in BOOLEAN : FailPass(i, transient)

\* Everything but the start of a pass.
Work ==
    \/ \E c \in Clients : UploadStep(c)
    \/ \E p \in Paths : DeleteArtifact(p) \/ AgeArtifact(p) \/ TouchArtifact(p)
    \/ \E i \in Instances :
         \/ \E m \in Requests : RequestPass(i, m)
         \/ PassStep(i) \/ PassFault(i)

StartPass(i) == StartScheduled(i) \/ \E m \in Requests : StartManual(i, m)

Next == Work \/ \E i \in Instances : StartPass(i)

Spec == Init /\ [][Next]_vars

\* The grace period that blob_reaper/mod.rs counts on: a pass of i starts only
\* when every upload that was in flight at the end of i's previous pass, however
\* that one was started, is over.
Grace(i) == \A c \in Clients : InFlight(c) => i \notin seen[c]

GracefulNext == Work \/ \E i \in Instances : Grace(i) /\ StartPass(i)

GracefulSpec == Init /\ [][GracefulNext]_vars

-----------------------------------------------------------------------------
(* Properties.                                                             *)

\* An artifact committed by the very upload that wrote its blob has its file
\* for as long as the record stays: no interleaving of the upload with passes,
\* dry runs, retries, failures or crashes lets a pass delete a file between
\* its write and the commit of the artifact, or after it.
OwnUploadKept ==
    \A p \in Paths :
      art[p] # None /\ art[p].own => art[p].blob \in files

\* A dedup record always points at a file that exists: a later upload of the
\* same content can drop its own copy and reuse the recorded blob.
RecordHasFile == \A k \in Keys : recs[k] # None => recs[k] \in files

\* What the grace period is meant to give: every artifact record, of a dedup
\* hit too, references a file that exists.
NoDanglingArtifact ==
    \A p \in Paths : art[p] # None => art[p].blob \in files

\* The collector of i would delete the blob of artifact p in this very pass:
\* it has read p before the record was written, its filter misses the blob,
\* and the blob is a candidate of an earlier pass.
Threatened(p) ==
    \E i \in Instances :
      /\ pc[i] # "idle" /\ mode[i] # "dryrun"
      /\ p \notin toScan[i]
      /\ art[p].blob \notin filter[i] /\ art[p].blob \in ripe[i]

\* The only moment an artifact can lose its file is the pass during which it
\* was written: a current artifact with its file and no threat against it keeps
\* the file and stays unthreatened, whatever later passes, retries and manual
\* runs do, as long as the record itself is not touched or expired.
StaysSafe ==
    [][\A p \in Paths :
         /\ art[p] # None /\ ~art[p].aged /\ art'[p] = art[p]
         /\ art[p].blob \in files /\ ~Threatened(p)
         => art[p].blob \in files' /\ ~Threatened(p)']_vars

\* The inductive invariant behind OwnUploadKept and RecordHasFile.

\* An upload in flight owns a blob id nobody else holds, and keeps its file
\* until it commits; only a committed or finished upload is referenced.
UploadsOwn ==
    \A c \in Clients : InFlight(c) =>
      /\ up[c].blob \in issued
      /\ StoreOf[up[c].blob] = StoreOf[up[c].key]
      /\ up[c].at \notin {"dedup", "drop"} => up[c].blob \in files
      /\ up[c].at = "commit" => up[c].eff = up[c].blob
      /\ up[c].at = "dedup" => up[c].eff \in issued
      /\ \A d \in Clients \ {c} : InFlight(d) => up[d].blob # up[c].blob
      /\ \A p \in Paths :
           art[p] # None /\ art[p].own => art[p].blob # up[c].blob
      /\ up[c].at # "commit" => \A k \in Keys : recs[k] # up[c].blob

\* The blob of an upload in flight is never a deletable candidate, and is a
\* new candidate only of a pass that is running or that the upload saw end.
UploadsGraced ==
    \A c \in Clients : InFlight(c) =>
      \A i \in Instances :
        /\ up[c].blob \notin ripe[i]
        /\ up[c].blob \in fresh[i] =>
             pc[i] # "idle" \/ i \in seen[c]

\* Everything named anywhere was issued.
NamesIssued ==
    /\ files \subseteq issued
    /\ \A i \in Instances : /\ fresh[i] \cup ripe[i] \subseteq issued
                            /\ walk[i].left \subseteq issued
    /\ \A p \in Paths : art[p] # None => art[p].blob \in issued
    /\ \A k \in Keys : recs[k] # None =>
         recs[k] \in issued /\ StoreOf[recs[k]] = StoreOf[k]

\* A pass that has left the scan has scanned everything, and walks one store.
PassShape ==
    \A i \in Instances :
      /\ pc[i] \in {"sweep", "purge", "walk"} => toScan[i] = {}
      /\ pc[i] \in {"purge", "walk"} => walk[i].store \in Stores
      /\ \A b \in walk[i].left : StoreOf[b] = walk[i].store

\* A pass about to delete files of a store has swept, or is about to sweep,
\* every record that names one of them.
RecordsSwept ==
    \A i \in Instances, k \in Keys :
      /\ mode[i] # "dryrun" /\ pc[i] \in {"purge", "walk"}
      /\ recs[k] # None /\ recs[k] \in ripe[i] \ filter[i]
      /\ StoreOf[recs[k]] = walk[i].store
      => pc[i] = "purge" /\ k \in doomed[i]

\* A scanned artifact of a finished upload is in the filter, is about to be
\* expired, or references a blob this pass will not delete.
OwnUnthreatened ==
    \A i \in Instances, p \in Paths :
      /\ mode[i] # "dryrun" /\ pc[i] # "idle" /\ p \notin toScan[i]
      /\ art[p] # None /\ art[p].own
      /\ art[p].blob \in ripe[i] \ filter[i]
      => pc[i] = "scan" /\ p \in doomed[i]

GcInv ==
    /\ TypeOK
    /\ UploadsOwn /\ UploadsGraced /\ NamesIssued /\ PassShape
    /\ RecordsSwept /\ OwnUnthreatened
    /\ OwnUploadKept /\ RecordHasFile

\* A blob that its upload may still drop as a duplicate is named by no artifact
\* and by no upload about to write one.
DuplicatesUnnamed ==
    \A c \in Clients : InFlight(c) /\ up[c].at # "commit" =>
      /\ \A p \in Paths : art[p] # None => art[p].blob # up[c].blob
      /\ \A d \in Clients : up[d].at \in {"commit", "dedup"} => up[d].eff # up[c].blob

Referenced(b) == \E p \in Paths : art[p] # None /\ art[p].blob = b

\* The scheduled loop runs, passes and uploads make progress, and failures
\* stop eventually (their number is bounded).  Nothing is assumed of
\* deletions, and no administrator interferes.
Fairness ==
    /\ \A c \in Clients :
         WF_vars(ClaimHash(c) \/ RereadRecord(c) \/ ForceRecord(c)
                   \/ PutArtifact(c) \/ DropDuplicate(c))
    /\ \A i \in Instances : WF_vars(StartScheduled(i)) /\ WF_vars(PassStep(i))

LiveSpec == Spec /\ Fairness

\* A blob file that no artifact references does not stay for ever.
OrphansReclaimed == \A b \in Blobs : []<>(b \notin files \/ Referenced(b))
=============================================================================
