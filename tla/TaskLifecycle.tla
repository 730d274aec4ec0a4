--------------------------- MODULE TaskLifecycle ----------------------------
(***************************************************************************)
(* The life of one background task: its summary record and event log in    *)
(* the KV store (infra/task.rs, service/task.rs), the worker that owns it  *)
(* and its progress bridge, deletions through the API, and the reapers of  *)
(* every instance (worker/cleanup.rs).                                     *)
(*                                                                         *)
(* Everybody but the bridge writes the whole record unconditionally, after *)
(* a read some awaits earlier.  The owner may leave the registry of live   *)
(* instances before it has stopped working: a heartbeat is late, or it is  *)
(* shutting down.                                                          *)
(***************************************************************************)
EXTENDS Integers

CONSTANTS
    Deleters,     \* calls of DELETE /api/v1/tasks/{id}
    Local,        \* those served by the owner's instance
    Reapers,      \* cleanup loops, one per instance
    MayLeave,     \* the owner may leave the registry, or die
    Workloads,    \* which deletions come, and bounds: log entries and
                  \* progress updates, [deletes, log, progress]
    MaxFaults,    \* bound: failed calls
    None

Active   == {"Pending", "Running"}
Terminal == {"Completed", "Failed", "Cancelled"}
Record   == [status: Active \cup Terminal, deleting: BOOLEAN, seq: Nat, ver: Nat]

ASSUME TaskAssumption ==
    /\ Local \subseteq Deleters
    /\ MayLeave \in BOOLEAN
    /\ Workloads \subseteq [deletes: SUBSET Deleters, log: Nat, progress: Nat]
    /\ MaxFaults \in Nat
    /\ None \notin Record

VARIABLES
    rec,        \* the task summary, or None
    events,     \* sequence numbers in the event log
    work,       \* where the owner's worker stands
    mine,       \* the record the worker read
    bridge,     \* where the progress bridge stands
    read,       \* the record and version the bridge read
    owned,      \* the task is in the owner's map of owned tasks
    cancelled,  \* its cancellation token
    seq,        \* its event_seq counter
    sent,       \* progress updates sent
    unseen,     \* the bridge has not seen the last of them
    del, dcopy, \* the deletions, and the records they read
    reap, rcopy,\* the reapers, and the records they listed
    alive,      \* the owner is running
    live,       \* its heartbeat is recent
    load,       \* the workload
    faults

owner == <<work, mine, seq, sent>>
pump  == <<bridge, read, unseen>>
world == <<alive, live, load>>
vars  == <<rec, events, work, mine, bridge, read, owned, cancelled, seq, sent,
           unseen, del, dcopy, reap, rcopy, alive, live, load, faults>>

Copy == Record \cup {None}

TypeOK ==
    /\ rec \in Copy /\ events \subseteq Nat
    /\ work \in {"new", "made", "owned", "starting", "run", "summing", "ending",
                 "closing", "done"}
    /\ bridge \in {"off", "idle", "write"}
    /\ mine \in Copy /\ read \in Copy
    /\ {owned, cancelled, unseen, alive, live} \subseteq BOOLEAN
    /\ seq \in Nat /\ sent \in Nat /\ faults \in Nat /\ load \in Workloads
    /\ del \in [Deleters -> {"idle", "mark", "drain", "delete", "done"}]
    /\ reap \in [Reapers -> {"idle", "look", "drain", "delete", "fail", "mark"}]
    /\ dcopy \in [Deleters -> Copy] /\ rcopy \in [Reapers -> Copy]
    /\ work \in {"starting", "summing", "closing"} => mine # None
    /\ bridge = "write" => read # None
    /\ \A d \in Deleters : del[d] = "mark" => dcopy[d] # None
    /\ \A p \in Reapers : reap[p] # "idle" => rcopy[p] # None

Init ==
    /\ rec = None /\ events = {}
    /\ work = "new" /\ mine = None
    /\ bridge = "off" /\ read = None
    /\ owned = FALSE /\ cancelled = FALSE
    /\ seq = 0 /\ sent = 0 /\ unseen = FALSE
    /\ del = [d \in Deleters |-> "idle"] /\ dcopy = [d \in Deleters |-> None]
    /\ reap = [p \in Reapers |-> "idle"] /\ rcopy = [p \in Reapers |-> None]
    /\ alive = TRUE /\ live = TRUE /\ faults = 0 /\ load \in Workloads

Fault == faults < MaxFaults /\ faults' = faults + 1

\* get_record: an error is logged and taken for a missing record.
Get(r) ==
    \/ r = rec /\ UNCHANGED faults
    \/ r = None /\ Fault

\* put_record, put_task_summary: an unconditional put of the whole record; an
\* error is logged.
Put(r) ==
    \/ rec' = [r EXCEPT !.ver = IF rec = None THEN 1 ELSE rec.ver + 1] /\ UNCHANGED faults
    \/ Fault /\ UNCHANGED rec

\* drain_task_events.
Drain ==
    \/ events' = {} /\ UNCHANGED faults
    \/ Fault /\ UNCHANGED events

\* delete_task_summary.
DeleteRecord ==
    \/ rec' = None /\ UNCHANGED faults
    \/ Fault /\ UNCHANGED rec

-----------------------------------------------------------------------------
(* The worker.                                                             *)

\* create: the record is written,
Create ==
    /\ alive /\ work = "new"
    /\ Put([status |-> "Pending", deleting |-> FALSE, seq |-> 0, ver |-> 0])
    /\ work' = "made"
    /\ UNCHANGED <<events, mine, pump, owned, cancelled, seq, sent, del, dcopy, reap,
                   rcopy, world>>

\* and then the task becomes owned.
Own ==
    /\ alive /\ work = "made"
    /\ owned' = TRUE
    /\ work' = "owned"
    /\ UNCHANGED <<rec, events, mine, pump, cancelled, seq, sent, del, dcopy, reap,
                   rcopy, world, faults>>

\* mark_running reads the record; without one there is no bridge.
StartRead(r) ==
    /\ alive /\ work = "owned" /\ Get(r)
    /\ mine' = r
    /\ work' = IF r = None THEN "run" ELSE "starting"
    /\ UNCHANGED <<rec, events, pump, owned, cancelled, seq, sent, del, dcopy, reap,
                   rcopy, world>>

\* It writes the record and spawns the bridge.
StartWrite ==
    /\ alive /\ work = "starting"
    /\ Put([mine EXCEPT !.status = "Running"])
    /\ bridge' = "idle"
    /\ work' = "run" /\ mine' = None
    /\ UNCHANGED <<events, read, unseen, owned, cancelled, seq, sent, del, dcopy, reap,
                   rcopy, world>>

\* append_log: the number is taken even if the entry is not written.
AppendLog ==
    /\ alive /\ work = "run" /\ owned
    /\ seq < load.log
    /\ seq' = seq + 1
    /\ \/ events' = events \cup {seq} /\ UNCHANGED faults
       \/ Fault /\ UNCHANGED events
    /\ UNCHANGED <<rec, work, mine, pump, owned, cancelled, sent, del, dcopy, reap,
                   rcopy, world>>

SendProgress ==
    /\ alive /\ work = "run"
    /\ sent < load.progress
    /\ sent' = sent + 1 /\ unseen' = (bridge # "off")
    /\ UNCHANGED <<rec, events, work, mine, bridge, read, owned, cancelled, seq, del,
                   dcopy, reap, rcopy, world, faults>>

\* update_summary, before a successful end.
SummaryRead(r) ==
    /\ alive /\ work = "run" /\ Get(r)
    /\ mine' = r
    /\ work' = IF r = None THEN "ending" ELSE "summing"
    /\ UNCHANGED <<rec, events, pump, owned, cancelled, seq, sent, del, dcopy, reap,
                   rcopy, world>>

SummaryWrite ==
    /\ alive /\ work = "summing"
    /\ Put(mine)
    /\ work' = "ending" /\ mine' = None
    /\ UNCHANGED <<events, pump, owned, cancelled, seq, sent, del, dcopy, reap, rcopy,
                   world>>

\* How the work may end: mark_completed after the summary, otherwise
\* mark_cancelled or mark_failed.
Outcome(status) ==
    \/ work = "ending" /\ status = "Completed"
    \/ work = "run" /\ status = IF cancelled THEN "Cancelled" ELSE "Failed"

\* Mutant: the record is not looked for.
EndReadUnchecked(status, r) ==
    /\ alive /\ Outcome(status) /\ Get(r)
    /\ mine' = IF r = None THEN r ELSE [r EXCEPT !.status = status, !.seq = seq]
    /\ work' = "closing"
    /\ owned' = FALSE /\ cancelled' = TRUE
    /\ UNCHANGED <<rec, events, pump, seq, sent, del, dcopy, reap, rcopy, world>>

\* mark_terminal reads the record; the token is fired and the task disowned,
\* unless the record is gone.
EndRead(status, r) ==
    /\ alive /\ Outcome(status) /\ Get(r)
    /\ IF r = None
         THEN work' = "done" /\ UNCHANGED <<mine, owned, cancelled>>
         ELSE /\ mine' = [r EXCEPT !.status = status, !.seq = seq]
              /\ work' = "closing"
              /\ owned' = FALSE /\ cancelled' = TRUE
    /\ UNCHANGED <<rec, events, pump, seq, sent, del, dcopy, reap, rcopy, world>>

\* mark_terminal writes it.
EndWrite ==
    /\ alive /\ work = "closing"
    /\ Put(mine)
    /\ work' = "done" /\ mine' = None
    /\ UNCHANGED <<events, pump, owned, cancelled, seq, sent, del, dcopy, reap, rcopy,
                   world>>

-----------------------------------------------------------------------------
(* The progress bridge.                                                    *)

\* The bridge wakes up, reads the record and its version, and ignores a task
\* that has ended.
BridgeRead(r) ==
    /\ alive /\ bridge = "idle" /\ unseen /\ ~cancelled /\ Get(r)
    /\ unseen' = FALSE
    /\ IF r # None /\ r.status \in Active
         THEN read' = [r EXCEPT !.seq = seq] /\ bridge' = "write"
         ELSE UNCHANGED <<read, bridge>>
    /\ UNCHANGED <<rec, events, owner, owned, cancelled, del, dcopy, reap, rcopy, world>>

\* Mutant: the bridge writes unconditionally.
UnchangedAlways == rec # None

\* put_if_version finds the version that was read.
Unchanged == rec # None /\ rec.ver = read.ver

BridgeWrite ==
    /\ alive /\ bridge = "write"
    /\ IF Unchanged THEN Put(read) ELSE UNCHANGED <<rec, faults>>
    /\ bridge' = "idle" /\ read' = None
    /\ UNCHANGED <<events, owner, unseen, owned, cancelled, del, dcopy, reap, rcopy,
                   world>>

BridgeStop ==
    /\ alive /\ bridge = "idle" /\ cancelled
    /\ bridge' = "off" /\ unseen' = FALSE
    /\ UNCHANGED <<rec, events, owner, read, owned, cancelled, del, dcopy, reap, rcopy,
                   world, faults>>

-----------------------------------------------------------------------------
(* TaskManager::delete.                                                    *)

DeleteRead(d, r) ==
    /\ d \in load.deletes /\ del[d] = "idle" /\ work # "new" /\ Get(r)
    /\ dcopy' = [dcopy EXCEPT ![d] = r]
    /\ del' = [del EXCEPT ![d] = IF r = None THEN "done" ELSE "mark"]
    /\ UNCHANGED <<rec, events, owner, pump, owned, cancelled, reap, rcopy, world>>

DeleteMark(d) ==
    /\ del[d] = "mark"
    /\ Put([dcopy[d] EXCEPT !.deleting = TRUE])
    /\ del' = [del EXCEPT ![d] = "drain"] /\ dcopy' = [dcopy EXCEPT ![d] = None]
    /\ UNCHANGED <<events, owner, pump, owned, cancelled, reap, rcopy, world>>

\* The token is fired if the task runs here; the event log is drained.  A
\* failure to drain it is logged, and the deletion goes on.
DeleteDrain(d) ==
    /\ del[d] = "drain"
    /\ cancelled' = (cancelled \/ (d \in Local /\ owned))
    /\ Drain
    /\ del' = [del EXCEPT ![d] = "delete"]
    /\ UNCHANGED <<rec, owner, pump, owned, dcopy, reap, rcopy, world>>

DeleteSummary(d) ==
    /\ del[d] = "delete"
    /\ DeleteRecord
    /\ del' = [del EXCEPT ![d] = "done"]
    /\ UNCHANGED <<events, owner, pump, owned, cancelled, dcopy, reap, rcopy, world>>

-----------------------------------------------------------------------------
(* reap_tasks.                                                             *)

ReapList(p) ==
    /\ reap[p] = "idle" /\ rec # None
    /\ rcopy' = [rcopy EXCEPT ![p] = rec]
    /\ reap' = [reap EXCEPT ![p] = "look"]
    /\ UNCHANGED <<rec, events, owner, pump, owned, cancelled, del, dcopy, world, faults>>

ReapGoto(p, where) ==
    /\ reap' = [reap EXCEPT ![p] = where]
    /\ rcopy' = IF where = "idle" THEN [rcopy EXCEPT ![p] = None] ELSE rcopy

\* Mutant: orphans are not looked for.
VerdictUnattended(r, present, aged) ==
    CASE r.deleting                    -> "drain"
      [] r.status \in Terminal /\ aged -> "mark"
      [] OTHER                         -> "idle"

\* Mutant: tasks marked for deletion are left to the call that marked them.
VerdictUndrained(r, present, aged) ==
    CASE r.status \in Active /\ ~present             -> "fail"
      [] r.status \in Terminal /\ aged /\ ~r.deleting -> "mark"
      [] OTHER                                       -> "idle"

\* The three phases: a deletion to finish, an orphan, a task past retention.
Verdict(r, present, aged) ==
    CASE r.deleting                                    -> "drain"
      [] ~r.deleting /\ r.status \in Active /\ ~present -> "fail"
      [] ~r.deleting /\ r.status \in Terminal /\ aged   -> "mark"
      [] OTHER                                         -> "idle"

\* The live instances are listed after the tasks; without that list nothing
\* is taken for an orphan.
ReapLook(p, aged) ==
    /\ reap[p] = "look"
    /\ \/ ReapGoto(p, Verdict(rcopy[p], live, aged)) /\ UNCHANGED faults
       \/ ReapGoto(p, Verdict(rcopy[p], TRUE, aged)) /\ Fault
    /\ UNCHANGED <<rec, events, owner, pump, owned, cancelled, del, dcopy, world>>

\* Unlike a deletion through the API, a drain that fails is tried again.
ReapDrain(p) ==
    /\ reap[p] = "drain"
    /\ Drain
    /\ ReapGoto(p, IF faults' = faults THEN "delete" ELSE "idle")
    /\ UNCHANGED <<rec, owner, pump, owned, cancelled, del, dcopy, world>>

ReapDelete(p) ==
    /\ reap[p] = "delete"
    /\ DeleteRecord
    /\ ReapGoto(p, "idle")
    /\ UNCHANGED <<events, owner, pump, owned, cancelled, del, dcopy, world>>

\* The orphan is failed, or the old task marked, on the record as listed.
ReapWrite(p) ==
    /\ reap[p] \in {"fail", "mark"}
    /\ Put(IF reap[p] = "fail" THEN [rcopy[p] EXCEPT !.status = "Failed"]
                               ELSE [rcopy[p] EXCEPT !.deleting = TRUE])
    /\ ReapGoto(p, "idle")
    /\ UNCHANGED <<events, owner, pump, owned, cancelled, del, dcopy, world>>

-----------------------------------------------------------------------------

\* The heartbeat is late, or the owner deregisters.
Leave ==
    /\ MayLeave /\ live
    /\ live' = FALSE
    /\ UNCHANGED <<rec, events, owner, pump, owned, cancelled, del, dcopy, reap, rcopy,
                   alive, load, faults>>

Die ==
    /\ MayLeave /\ alive
    /\ alive' = FALSE
    /\ UNCHANGED <<rec, events, owner, pump, owned, cancelled, del, dcopy, reap, rcopy,
                   live, load, faults>>

Ending ==
    \/ \E r \in {rec, None} : SummaryRead(r) \/ \E s \in Terminal : EndRead(s, r)
    \/ SummaryWrite \/ EndWrite

Starting == Own \/ (\E r \in {rec, None} : StartRead(r)) \/ StartWrite

Worker == Create \/ Starting \/ AppendLog \/ SendProgress \/ Ending

Bridge == (\E r \in {rec, None} : BridgeRead(r)) \/ BridgeWrite \/ BridgeStop

Delete(d) ==
    \/ \E r \in {rec, None} : DeleteRead(d, r)
    \/ DeleteMark(d) \/ DeleteDrain(d) \/ DeleteSummary(d)

Reap(p) ==
    \/ ReapList(p) \/ (\E aged \in BOOLEAN : ReapLook(p, aged))
    \/ ReapDrain(p) \/ ReapDelete(p) \/ ReapWrite(p)

Next ==
    \/ Worker \/ Bridge
    \/ \E d \in Deleters : Delete(d)
    \/ \E p \in Reapers : Reap(p)
    \/ Leave \/ Die

Spec == Init /\ [][Next]_vars

\* A dead owner is missed from the registry; the cleanup loops keep ticking.
\* A worker, or a deletion, may stop anywhere.
Fairness ==
    /\ WF_vars(~alive /\ Leave)
    /\ \A p \in Reapers : WF_vars(Reap(p))

FairSpec == Spec /\ Fairness

-----------------------------------------------------------------------------
(* Properties.                                                             *)

Ended(r) == r # None /\ r.status \in Terminal

\* Nobody has asked for the deletion of the task, and its owner is registered.
Undisturbed == live /\ \A d \in Deleters : del[d] = "idle"

OneReaper == \A p, q \in Reapers : p = q

\* "The terminal state has already been persisted and must not be overwritten
\* by a stale Running snapshot": while the owner is registered and nobody has
\* asked for the deletion of the task, no late write of the bridge, of the
\* worker or of a reaper replaces the outcome that clients may have seen.  With
\* several reapers this ends when one of them marks the task as past retention:
\* a late mark of another may write the deleted record again, and that record
\* has the version of an old one.
OutcomeKept ==
    [][/\ Ended(rec) /\ Undisturbed /\ (rec.deleting => OneReaper)
       /\ rec' # None
       => rec'.status = rec.status]_vars

\* The cleanup loop fails the tasks of an owner that has died, whatever it
\* had written of them and whatever a deletion has half done to them.
OrphanSettles ==
    (~alive /\ rec # None /\ rec.status \in Active) ~> (rec = None \/ Ended(rec))

\* A deletion that was begun is finished, by the call that began it or by the
\* cleanup loop, unless a stale write takes the mark away.
DeletionFinishes ==
    (rec # None /\ rec.deleting) ~> (rec = None \/ ~rec.deleting)

-----------------------------------------------------------------------------
(* Why the outcome is kept: an inductive invariant.                        *)

\* What the worker, the bridge and the reapers hold fits the step they are at.
HeldFits ==
    /\ work \in {"starting", "summing"} => mine.status \in Active
    /\ bridge = "write" => read.status \in Active
    /\ \A p \in Reapers :
         /\ reap[p] = "mark" => Ended(rcopy[p])
         /\ reap[p] \in {"drain", "delete"} => rcopy[p].deleting
         /\ live => reap[p] # "fail"

\* Until the worker is done nobody knows of an outcome or of a deletion, and
\* the record stays once the worker or the bridge has read it.
NotYet ==
    work # "done" =>
      /\ ~Ended(rec) /\ (rec # None => ~rec.deleting)
      /\ \A p \in Reapers : ~Ended(rcopy[p]) /\ (rcopy[p] # None => ~rcopy[p].deleting)
      /\ work \in {"starting", "summing", "closing"} => rec # None /\ ~mine.deleting
      /\ bridge = "write" => rec # None /\ ~read.deleting /\ read.ver <= rec.ver
      /\ work = "new" => rec = None

\* There is one outcome, however many copies there are of it.
OneOutcome ==
    \A p \in Reapers : Ended(rcopy[p]) =>
      /\ Ended(rec) => rec.status = rcopy[p].status
      /\ \A q \in Reapers : Ended(rcopy[q]) => rcopy[q].status = rcopy[p].status
      /\ OneReaper => Ended(rec)

\* The bridge will find that the outcome was written since it read the record.
BridgeLate ==
    bridge = "write" /\ Ended(rec) /\ (rec.deleting => OneReaper) => read.ver < rec.ver

TaskInv == TypeOK /\ (Undisturbed => HeldFits /\ NotYet /\ OneOutcome /\ BridgeLate)
=============================================================================
