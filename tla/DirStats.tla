------------------------------ MODULE DirStats ------------------------------
(***************************************************************************)
(* Directory statistics of one repository: how many artifacts, and how     *)
(* many bytes, lie below each directory (core/src/update.rs and            *)
(* server/worker/update.rs).                                               *)
(*                                                                         *)
(* A request changes an artifact record and then sends the difference to   *)
(* the update worker of its instance, which coalesces what it receives per *)
(* directory, applies it to the directory's entry with a compare-and-swap, *)
(* and passes it on to the parent directory.  Several instances, and the   *)
(* rebuild task, write the same entries.                                   *)
(***************************************************************************)
EXTENDS Integers, FiniteSetsExt

CONSTANTS
    Dirs, Root,   \* directories, and the top one
    Parent,       \* the parent of a directory
    Above,        \* a directory and all the directories above it
    Paths, DirOf, \* artifact paths, and the directory each is in
    Sizes,        \* sizes of artifacts
    Instances, Clients,
    Workloads,    \* who works on what, and what may disturb it: see Workload
    None, Unread  \* no entry; an entry that has not been read

Delta == [n: Int, b: Int]
Entry == [n: Nat, b: Nat, ver: Nat]

Workload ==
    [on: [Clients -> Instances],           \* the instance a client talks to
     paths: [Clients -> SUBSET Paths],     \* the paths a client works on
     keep: SUBSET Paths,    \* artifacts of size 1 that were there before, and stay
     sizes: SUBSET Sizes,   \* the sizes they give artifacts
     rebuild: BOOLEAN,      \* the rebuild task may run
     stops: SUBSET Instances, \* the instances that may shut down
     ops: Nat, faults: Nat] \* bounds: changes of artifacts, failed calls

ASSUME DirAssumption ==
    /\ Root \in Dirs
    /\ Parent \in [Dirs \ {Root} -> Dirs]
    /\ Above \in [Dirs -> SUBSET Dirs]
    /\ Above[Root] = {Root}
    /\ \A d \in Dirs \ {Root} :
         d \notin Above[Parent[d]] /\ Above[d] = Above[Parent[d]] \cup {d}
    /\ \A d \in Dirs : \A x, y \in Above[d] :
         Above[x] \subseteq Above[d] /\ (x \in Above[y] \/ y \in Above[x])
    /\ DirOf \in [Paths -> Dirs] /\ Paths \cap Dirs = {}
    /\ IsFiniteSet(Paths) /\ IsFiniteSet(Dirs)
    /\ IsFiniteSet(Instances) /\ IsFiniteSet(Clients)
    /\ None \notin Delta \cup Entry \cup [dir: Dirs, delta: Delta]
    /\ Sizes \subseteq Nat \ {0} /\ 1 \in Sizes
    /\ Workloads \subseteq Workload
    /\ \A w \in Workloads, c \in Clients : w.paths[c] \cap w.keep = {}

VARIABLES
    art,     \* the size of each artifact; 0: no record
    entry,   \* the entry of each directory, or None
    held,    \* the delta a client has yet to send, or None
    chan,    \* the deltas in each instance's channel, summed per directory
    buf,     \* the propagation buffer of each worker
    batch,   \* the batch each worker is applying
    seen,    \* the entries read for the batch
    mode,    \* "run", "final" or "stopped", per instance
    task,    \* where the rebuild task stands
    found,   \* the artifacts it has read
    toRead,  \* the artifacts, and the entries, it has not read yet
    toWrite, \* the entries it is going to write
    calm,    \* nothing was on its way when the rebuild began, nor has come since
    load,    \* the workload
    ops, faults

repo    == <<art, held, calm, load, ops>>
workers == <<chan, buf, batch, seen, mode>>
rebuild == <<task, found, toRead, toWrite>>
vars    == <<repo, entry, workers, rebuild, faults>>

Deltas == [Dirs -> Delta \cup {None}]

TypeOK ==
    /\ art \in [Paths -> Sizes \cup {0}]
    /\ entry \in [Dirs -> Entry \cup {None}]
    /\ held \in [Clients -> [dir: Dirs, delta: Delta] \cup {None}]
    /\ chan \in [Instances -> Deltas]
    /\ buf \in [Instances -> Deltas] /\ batch \in [Instances -> Deltas]
    /\ seen \in [Instances -> [Dirs -> Entry \cup {None, Unread}]]
    /\ \A i \in Instances, d \in Dirs : seen[i][d] # Unread => batch[i][d] # None
    /\ mode \in [Instances -> {"run", "final", "stopped"}]
    /\ task \in {"idle", "scan", "write", "done", "failed"}
    /\ found \in [Paths -> Sizes \cup {0}]
    /\ toRead \subseteq Paths \cup Dirs /\ toWrite \subseteq Dirs
    /\ calm \in BOOLEAN /\ load \in Workloads /\ ops \in Nat /\ faults \in Nat
    \* No entry for an empty directory.
    /\ \A d \in Dirs : entry[d] # None => entry[d].n > 0

Nothing == [d \in Dirs |-> None]

Below(a, d) == {p \in Paths : a[p] # 0 /\ d \in Above[DirOf[p]]}

SumOf(f, S) == MapThenSumSet(LAMBDA x : f[x], S)

\* How many artifacts, and bytes, lie below d.
CountOf(a, d) == Cardinality(Below(a, d))
BytesOf(a, d) == SumOf(a, Below(a, d))

\* The entry of d according to a.
EntryOf(a, d, version) ==
    IF CountOf(a, d) = 0 THEN None
    ELSE [n |-> CountOf(a, d), b |-> BytesOf(a, d), ver |-> version]

Init ==
    /\ load \in Workloads
    /\ art = [p \in Paths |-> IF p \in load.keep THEN 1 ELSE 0]
    /\ entry = [d \in Dirs |-> EntryOf(art, d, 1)]
    /\ held = [c \in Clients |-> None]
    /\ chan = [i \in Instances |-> Nothing]
    /\ buf = [i \in Instances |-> Nothing]
    /\ batch = [i \in Instances |-> Nothing]
    /\ seen = [i \in Instances |-> [d \in Dirs |-> Unread]]
    /\ mode = [i \in Instances |-> "run"]
    /\ task = "idle" /\ found = [p \in Paths |-> 0]
    /\ toRead = {} /\ toWrite = {}
    /\ calm = FALSE /\ ops = 0 /\ faults = 0

\* merge_dir_delta, of what one directory has got.
Plus(x, y) ==
    IF x = None THEN y ELSE IF y = None THEN x
    ELSE [n |-> x.n + y.n, b |-> x.b + y.b]

Merge(f, g) == [d \in Dirs |-> Plus(f[d], g[d])]

-----------------------------------------------------------------------------
(* Requests.                                                               *)

\* An artifact record is written (old and new size), or deleted (new size 0).
\* put_artifact and delete_artifact return the record they replaced.
Change(c, p, size) ==
    /\ held[c] = None /\ p \in load.paths[c]
    /\ IF size = 0 THEN art[p] # 0 ELSE size \in load.sizes /\ ops < load.ops
    /\ art' = [art EXCEPT ![p] = size]
    /\ held' = [held EXCEPT ![c] =
         [dir   |-> DirOf[p],
          delta |-> [n |-> IF size = 0 THEN -1 ELSE IF art[p] = 0 THEN 1 ELSE 0,
                     b |-> size - art[p]]]]
    /\ ops' = IF size = 0 THEN ops ELSE ops + 1
    /\ calm' = FALSE
    /\ UNCHANGED <<entry, workers, rebuild, load, faults>>

\* dir_changed.  A worker that has stopped has closed the channel; the error
\* is ignored.
Send(c) ==
    /\ held[c] # None
    /\ held' = [held EXCEPT ![c] = None]
    /\ LET i == load.on[c]  d == held[c].dir IN
         chan' = IF mode[i] = "stopped" THEN chan
                   ELSE [chan EXCEPT ![i][d] = Plus(@, held[c].delta)]
    /\ UNCHANGED <<art, calm, load, ops, entry, buf, batch, seen, mode, rebuild, faults>>

-----------------------------------------------------------------------------
(* The update worker.                                                      *)

\* The worker drains its channel and its propagation buffer into a batch; the
\* final flush drains the channel once.
StartBatch(i) ==
    /\ mode[i] \in {"run", "final"}
    /\ batch[i] = Nothing
    /\ LET got == IF mode[i] = "run" THEN Merge(chan[i], buf[i]) ELSE buf[i] IN
         /\ got # Nothing
         /\ batch' = [batch EXCEPT ![i] = got]
    /\ buf' = [buf EXCEPT ![i] = Nothing]
    /\ chan' = IF mode[i] = "run" THEN [chan EXCEPT ![i] = Nothing] ELSE chan
    /\ UNCHANGED <<repo, entry, seen, mode, rebuild, faults>>

\* One delta of the batch is through; the buffer gets what is to be done next.
Through(i, d, next) ==
    /\ batch' = [batch EXCEPT ![i][d] = None]
    /\ seen' = [seen EXCEPT ![i][d] = Unread]
    /\ buf' = [buf EXCEPT ![i] = Merge(@, next)]
    /\ UNCHANGED <<chan, mode>>

\* Mutant: the delta goes to the parent in any case.
RequeueUpwards(i, d) ==
    IF d = Root THEN Nothing ELSE [Nothing EXCEPT ![Parent[d]] = batch[i][d]]

\* A delta that was not applied is queued again; the final flush drops it.
Requeue(i, d) ==
    IF mode[i] = "final" THEN Nothing ELSE [Nothing EXCEPT ![d] = batch[i][d]]

\* make_parent_delta.
Propagate(i, d) ==
    IF d = Root THEN Nothing ELSE [Nothing EXCEPT ![Parent[d]] = batch[i][d]]

\* apply_dir_delta reads the entry.  Without one, and with nothing to add, it
\* changes nothing and returns false.
ReadEntry(i, d) ==
    /\ batch[i][d] # None /\ seen[i][d] = Unread
    /\ IF entry[d] = None /\ batch[i][d].n <= 0
         THEN Through(i, d, Requeue(i, d))
         ELSE /\ seen' = [seen EXCEPT ![i][d] = entry[d]]
              /\ UNCHANGED <<chan, buf, batch, mode>>
    /\ UNCHANGED <<repo, entry, rebuild, faults>>

\* Mutant: every write finds its version.
SameAlways(i, d) == TRUE

\* put_if_version and delete_if_version.
Same(i, d) ==
    IF entry[d] = None THEN seen[i][d] = None
    ELSE seen[i][d] # None /\ seen[i][d].ver = entry[d].ver

NotBelow0(x) == IF x < 0 THEN 0 ELSE x

\* Mutant: an entry is kept at count 0.
UpdatedKeeping(old, delta) ==
    [n   |-> NotBelow0((IF old = None THEN 0 ELSE old.n) + delta.n),
     b   |-> NotBelow0((IF old = None THEN 0 ELSE old.b) + delta.b),
     ver |-> IF old = None THEN 1 ELSE old.ver + 1]

\* The new entry; None if the count is down to zero.
Updated(old, delta) ==
    LET n == NotBelow0((IF old = None THEN 0 ELSE old.n) + delta.n)
        b == NotBelow0((IF old = None THEN 0 ELSE old.b) + delta.b)
        v == IF old = None THEN 1 ELSE old.ver + 1
    IN  IF n = 0 THEN None ELSE [n |-> n, b |-> b, ver |-> v]

\* The entry is written or deleted, unless it was changed meanwhile.
WriteEntry(i, d) ==
    /\ seen[i][d] # Unread
    /\ IF Same(i, d)
         THEN /\ entry' = [entry EXCEPT ![d] = Updated(seen[i][d], batch[i][d])]
              /\ Through(i, d, Propagate(i, d))
         ELSE Through(i, d, Requeue(i, d)) /\ UNCHANGED entry
    /\ UNCHANGED <<repo, rebuild, faults>>

\* A call fails.
ApplyFails(i, d) ==
    /\ batch[i][d] # None
    /\ faults < load.faults
    /\ faults' = faults + 1
    /\ Through(i, d, Requeue(i, d))
    /\ UNCHANGED <<repo, entry, rebuild>>

Resting(i) == batch[i] = Nothing /\ buf[i] = Nothing

\* The instance shuts down.  The worker sees it when it has nothing left to
\* do, and drains the channel a last time.
Stop(i) ==
    /\ i \in load.stops /\ mode[i] = "run"
    /\ Resting(i)
    /\ mode' = [mode EXCEPT ![i] = "final"]
    /\ buf' = [buf EXCEPT ![i] = chan[i]]
    /\ chan' = [chan EXCEPT ![i] = Nothing]
    /\ UNCHANGED <<repo, entry, batch, seen, rebuild, faults>>

\* What was sent during the final flush is lost with the channel.
Stopped(i) ==
    /\ mode[i] = "final" /\ Resting(i)
    /\ mode' = [mode EXCEPT ![i] = "stopped"]
    /\ chan' = [chan EXCEPT ![i] = Nothing]
    /\ UNCHANGED <<repo, entry, buf, batch, seen, rebuild, faults>>

-----------------------------------------------------------------------------
(* full_scan_repo.                                                         *)

\* No delta is on its way.
Quiet ==
    /\ \A c \in Clients : held[c] = None
    /\ \A i \in Instances : Resting(i) /\ chan[i] = Nothing

\* The artifacts and the entries that there can be under this workload.
UsedPaths == load.keep \cup UNION {load.paths[c] : c \in Clients}
UsedDirs == UNION {Above[DirOf[p]] : p \in UsedPaths}

RebuildStart ==
    /\ load.rebuild /\ task = "idle"
    /\ task' = "scan"
    /\ toRead' = UsedPaths \cup UsedDirs
    /\ calm' = Quiet
    /\ UNCHANGED <<art, held, load, ops, entry, workers, found, toWrite, faults>>

\* The artifact shards are scanned in parallel, page by page.
RebuildRead(p) ==
    /\ task = "scan" /\ p \in toRead
    /\ found' = [found EXCEPT ![p] = art[p]]
    /\ toRead' = toRead \ {p}
    /\ UNCHANGED <<repo, entry, workers, task, toWrite, faults>>

\* An entry says what a says of d.
Says(e, a, d) == e = EntryOf(a, d, IF e = None THEN 0 ELSE e.ver)

\* Mutant: entries that should not be there are left.
RebuildDiffAdding(d) ==
    /\ task = "scan" /\ d \in toRead /\ toRead \cap Paths = {}
    /\ toRead' = toRead \ {d}
    /\ task' = IF toRead' = {} THEN "write" ELSE "scan"
    /\ toWrite' = IF CountOf(found, d) > 0 THEN toWrite \cup {d} ELSE toWrite
    /\ UNCHANGED <<repo, entry, workers, found, faults>>

\* Then the entries are scanned and compared.  One that says something else is
\* going to be written; one that differs in its time stamps only, too.
RebuildDiff(d) ==
    /\ task = "scan" /\ d \in toRead /\ toRead \cap Paths = {}
    /\ toRead' = toRead \ {d}
    /\ task' = IF toRead' = {} THEN "write" ELSE "scan"
    /\ \/ toWrite' = toWrite \cup {d} /\ (entry[d] # None \/ CountOf(found, d) > 0)
       \/ toWrite' = toWrite /\ Says(entry[d], found, d)
    /\ UNCHANGED <<repo, entry, workers, found, faults>>

\* Unconditional deletes and puts, in batches.
RebuildWrite(d) ==
    /\ task = "write" /\ d \in toWrite
    /\ entry' = [entry EXCEPT ![d] =
         EntryOf(found, d, IF entry[d] = None THEN 1 ELSE entry[d].ver + 1)]
    /\ toWrite' = toWrite \ {d}
    /\ UNCHANGED <<repo, workers, task, found, toRead, faults>>

RebuildEnd ==
    /\ task = "write" /\ toWrite = {}
    /\ task' = "done"
    /\ UNCHANGED <<repo, entry, workers, found, toRead, toWrite, faults>>

\* A call fails, and the task with it; batches already written stay.
RebuildFails ==
    /\ task \in {"scan", "write"}
    /\ faults < load.faults
    /\ faults' = faults + 1
    /\ task' = "failed"
    /\ UNCHANGED <<repo, entry, workers, found, toRead, toWrite>>

-----------------------------------------------------------------------------

Client(c) == (\E p \in Paths, size \in Sizes \cup {0} : Change(c, p, size)) \/ Send(c)

Worker(i) ==
    \/ StartBatch(i) \/ Stopped(i)
    \/ \E d \in Dirs : ReadEntry(i, d) \/ WriteEntry(i, d)

Rebuild ==
    \/ RebuildStart \/ RebuildEnd \/ RebuildFails
    \/ \E p \in Paths : RebuildRead(p)
    \/ \E d \in Dirs : RebuildDiff(d) \/ RebuildWrite(d)

Next ==
    \/ \E c \in Clients : Client(c)
    \/ \E i \in Instances : Worker(i) \/ Stop(i) \/ \E d \in Dirs : ApplyFails(i, d)
    \/ Rebuild

Spec == Init /\ [][Next]_vars

\* Requests send what they changed, the workers run, every delta of a batch
\* gets its turn.
Fairness ==
    /\ \A c \in Clients : WF_vars(Send(c))
    /\ \A i \in Instances :
         /\ WF_vars(StartBatch(i))
         /\ \A d \in Dirs : WF_vars(ReadEntry(i, d)) /\ WF_vars(WriteEntry(i, d))

FairSpec == Spec /\ Fairness

-----------------------------------------------------------------------------
(* Properties.                                                             *)

\* What is on its way to directory d: the deltas held, in channels, buffers
\* and batches, of d and of the directories below it.
Amount(x, f) == IF x = None THEN 0 ELSE x[f]

Under(d) == {x \in Dirs : d \in Above[x]}

Pending(d, f) ==
    SumOf([c \in Clients |-> IF held[c] = None \/ d \notin Above[held[c].dir] THEN 0
                             ELSE held[c].delta[f]], Clients)
    + SumOf([t \in Instances \X Under(d) |->
               Amount(chan[t[1]][t[2]], f) + Amount(buf[t[1]][t[2]], f)
                 + Amount(batch[t[1]][t[2]], f)],
            Instances \X Under(d))

\* The paths that are changed through instance i.
PathsOf(i) == UNION {load.paths[c] : c \in {e \in Clients : load.on[e] = i}}

\* Some artifact below d stays, so that the entry of d is never deleted.
Kept(d) == \E p \in load.keep : d \in Above[DirOf[p]]

\* No rebuild task runs and no instance shuts down; the requests for one path come
\* one after the other; and a directory that several instances write to is never
\* empty, so that no version of its entry comes back.
Steady ==
    /\ ~load.rebuild /\ load.stops = {}
    /\ \A c, e \in Clients : c # e => load.paths[c] \cap load.paths[e] = {}
    /\ \A d \in Dirs : \/ Kept(d)
                       \/ \A i, j \in Instances : \A p \in PathsOf(i), q \in PathsOf(j) :
                            d \in Above[DirOf[p]] \cap Above[DirOf[q]] => i = j

\* Nothing is lost or counted twice: an entry and what is on its way to it add
\* up to what is stored below the directory, through coalescing, failures,
\* retries and propagation.
Conserved ==
    Steady => \A d \in Dirs :
      /\ Amount(entry[d], "n") + Pending(d, "n") = CountOf(art, d)
      /\ Amount(entry[d], "b") + Pending(d, "b") = BytesOf(art, d)

Exact == \A d \in Dirs : Says(entry[d], art, d)

\* A rebuild that nothing disturbs repairs the entries, whatever clamped
\* counts, lost deltas and reused versions have made of them.
RebuildReconciles == task = "done" /\ calm => Exact

\* The inductive invariant behind RebuildReconciles.

\* Artifacts, deltas and entries are where the workload has paths.
WithinUse ==
    /\ \A p \in Paths : art[p] # 0 \/ found[p] # 0 => p \in UsedPaths
    /\ \A c \in Clients : held[c] # None => held[c].dir \in UsedDirs
    /\ \A i \in Instances, d \in Dirs :
         chan[i][d] # None \/ buf[i][d] # None \/ batch[i][d] # None => d \in UsedDirs
    /\ \A d \in Dirs : entry[d] # None => d \in UsedDirs

\* The rebuild reads the artifacts, then the entries.
RebuildOrder ==
    /\ toRead \subseteq UsedPaths \cup UsedDirs
    /\ task = "scan" => UsedDirs \subseteq toRead \/ toRead \cap Paths = {}
    /\ task \in {"write", "done"} => toRead = {}
    /\ task = "done" => toWrite = {}

\* While nothing disturbs it, no worker has anything to do, what was read is
\* what there is, and the entries read and not to be written are right.
RebuildHolds ==
    calm => /\ Quiet
            /\ task \in {"scan", "write", "done"} =>
                 /\ \A p \in Paths \ toRead : found[p] = art[p]
                 /\ \A d \in Dirs \ (toRead \cup toWrite) : Says(entry[d], found, d)

RebuildInv == TypeOK /\ WithinUse /\ RebuildOrder /\ RebuildHolds

\* Once the last artifact has changed, the entries come to agree with the
\* artifacts, under the same conditions.
Converges == <>[](Steady => Exact)
=============================================================================
