------------------------ MODULE TaskLifecycleProofs -------------------------
(***************************************************************************)
(* Proofs about TaskLifecycle, for any number of deletions, reapers and    *)
(* failures.  That an outcome is kept rests on TaskInv: nobody knows of an *)
(* outcome before the worker is done, all copies of it agree, and a bridge *)
(* that read the record before has read an older version.                  *)
(***************************************************************************)
EXTENDS TaskLifecycle, TLAPS

USE TaskAssumption

\* A put leaves the record as it was, or makes it what was put with the next
\* version.
LEMMA PutEffect ==
  ASSUME TypeOK, NEW r \in Record, Put(r)
  PROVE  /\ rec' \in Copy /\ faults' \in Nat
         /\ \/ rec' = rec
            \/ /\ rec' \in Record /\ rec' # None
               /\ rec'.status = r.status /\ rec'.deleting = r.deleting
               /\ rec # None => rec'.ver = rec.ver + 1
<1>1. faults \in Nat /\ MaxFaults \in Nat /\ rec \in Copy
  BY DEF TypeOK
<1>2. CASE rec' = [r EXCEPT !.ver = IF rec = None THEN 1 ELSE rec.ver + 1] /\ UNCHANGED faults
  <2>1. (IF rec = None THEN 1 ELSE rec.ver + 1) \in Nat
    BY <1>1 DEF Copy, Record
  <2>2. rec' \in Record
    BY <1>2, <2>1 DEF Record
  <2>3. rec'.status = r.status /\ rec'.deleting = r.deleting
    BY <1>2 DEF Record
  <2>4. rec # None => rec'.ver = rec.ver + 1
    BY <1>2 DEF Record
  <2> QED
    BY <1>1, <1>2, <2>2, <2>3, <2>4 DEF Copy
<1>3. CASE Fault /\ UNCHANGED rec
  BY <1>1, <1>3 DEF Fault
<1> QED
  BY <1>2, <1>3 DEF Put

\* A read returns the record or nothing.
LEMMA GetEffect ==
  ASSUME TypeOK, NEW r, Get(r)
  PROVE  r \in Copy /\ faults' \in Nat /\ (r # None => r = rec)
  BY DEF TypeOK, Get, Fault, Copy

\* A change of status, of the mark or of the number of events keeps a record a
\* record.
LEMMA Edited ==
  ASSUME NEW r \in Copy, r # None, NEW s \in Active \cup Terminal, NEW n \in Nat
  PROVE  /\ r \in Record
         /\ [r EXCEPT !.status = s] \in Record /\ [r EXCEPT !.status = s].deleting = r.deleting
         /\ [r EXCEPT !.status = s].status = s
         /\ [r EXCEPT !.deleting = TRUE] \in Record
         /\ [r EXCEPT !.deleting = TRUE].status = r.status
         /\ [r EXCEPT !.deleting = TRUE].deleting = TRUE
         /\ [r EXCEPT !.seq = n] \in Record /\ [r EXCEPT !.seq = n].status = r.status
         /\ [r EXCEPT !.seq = n].deleting = r.deleting /\ [r EXCEPT !.seq = n].ver = r.ver
         /\ [r EXCEPT !.status = s, !.seq = n] \in Record
         /\ [r EXCEPT !.status = s, !.seq = n].status = s
         /\ [r EXCEPT !.status = s, !.seq = n].deleting = r.deleting
         /\ r.status \in Active \cup Terminal /\ r.deleting \in BOOLEAN /\ r.ver \in Nat
  BY DEF Copy, Record

LEMMA FaultEffect ==
  ASSUME TypeOK, Fault \/ UNCHANGED faults
  PROVE  faults' \in Nat
<1>1. faults \in Nat
  BY DEF TypeOK
<1> QED
  BY <1>1 DEF Fault

LEMMA TypeInit == Init => TypeOK
<1> SUFFICES ASSUME Init PROVE TypeOK
  OBVIOUS
<1>1. {owned, cancelled, unseen, alive, live} \subseteq BOOLEAN
  BY DEF Init
<1>2. rec \in Copy /\ mine \in Copy /\ read \in Copy /\ events \subseteq Nat
  BY DEF Init, Copy
<1>3. /\ del \in [Deleters -> {"idle", "mark", "drain", "delete", "done"}]
      /\ reap \in [Reapers -> {"idle", "look", "drain", "delete", "fail", "mark"}]
      /\ dcopy \in [Deleters -> Copy] /\ rcopy \in [Reapers -> Copy]
      /\ \A d \in Deleters : del[d] = "idle"
      /\ \A p \in Reapers : reap[p] = "idle"
  BY DEF Init, Copy
<1> QED
  BY <1>1, <1>2, <1>3 DEF Init, TypeOK

\* The worker's steps.
LEMMA TypeWorker == TypeOK /\ Worker => TypeOK'
<1> SUFFICES ASSUME TypeOK, Worker PROVE TypeOK'
  OBVIOUS
<1> USE DEF owner, pump, world
<1>0. None \in Copy /\ Record \subseteq Copy /\ {"Pending", "Running"} \subseteq Active
  BY DEF Copy, Active
<1>1. CASE Create
  <2> DEFINE r == [status |-> "Pending", deleting |-> FALSE, seq |-> 0, ver |-> 0]
  <2>1. r \in Record /\ Put(r)
    BY <1>0, <1>1 DEF Create, Record
  <2>2. rec' \in Copy /\ faults' \in Nat
    BY <2>1, PutEffect
  <2> QED
    BY <1>1, <2>2 DEF Create, TypeOK
<1>2. CASE Own
  BY <1>2 DEF Own, TypeOK
<1>3. ASSUME NEW r \in {rec, None}, StartRead(r) PROVE TypeOK'
  <2>1. r \in Copy /\ faults' \in Nat
    BY <1>3, GetEffect DEF StartRead
  <2> QED
    BY <1>3, <2>1 DEF StartRead, TypeOK
<1>4. CASE StartWrite
  <2>1. [mine EXCEPT !.status = "Running"] \in Record
    BY <1>0, <1>4, Edited, 0 \in Nat DEF StartWrite, TypeOK
  <2>2. rec' \in Copy /\ faults' \in Nat
    BY <1>4, <2>1, PutEffect DEF StartWrite
  <2> QED
    BY <1>0, <1>4, <2>2 DEF StartWrite, TypeOK
<1>5. CASE AppendLog
  <2>1. events' \subseteq Nat /\ faults' \in Nat /\ seq' \in Nat
    <3>1. seq \in Nat /\ events \subseteq Nat
      BY DEF TypeOK
    <3>2. seq' = seq + 1 /\ events' \in {events \cup {seq}, events}
      BY <1>5 DEF AppendLog
    <3>3. Fault \/ UNCHANGED faults
      BY <1>5 DEF AppendLog
    <3> QED
      BY <3>1, <3>2, <3>3, FaultEffect
  <2> QED
    BY <1>5, <2>1 DEF AppendLog, TypeOK
<1>6. CASE SendProgress
  BY <1>6 DEF SendProgress, TypeOK
<1>7. ASSUME NEW r \in {rec, None}, SummaryRead(r) PROVE TypeOK'
  <2>1. r \in Copy /\ faults' \in Nat
    BY <1>7, GetEffect DEF SummaryRead
  <2> QED
    BY <1>7, <2>1 DEF SummaryRead, TypeOK
<1>8. ASSUME NEW r \in {rec, None}, NEW s \in Terminal, EndRead(s, r) PROVE TypeOK'
  <2>1. r \in Copy /\ faults' \in Nat
    BY <1>8, GetEffect DEF EndRead
  <2>2. mine' \in Copy /\ (work' = "closing" => mine' # None)
    <3>1. seq \in Nat /\ mine \in Copy
      BY DEF TypeOK
    <3>2. CASE r = None
      BY <1>8, <3>1, <3>2 DEF EndRead
    <3>3. CASE r # None
      <4>1. [r EXCEPT !.status = s, !.seq = seq] \in Record
        BY <2>1, <3>1, <3>3, Edited
      <4> QED
        BY <1>0, <1>8, <3>3, <4>1 DEF EndRead
    <3> QED
      BY <3>2, <3>3
  <2>3. /\ work' \in {"done", "closing"} /\ {owned', cancelled'} \subseteq BOOLEAN
        /\ UNCHANGED <<rec, events, pump, seq, sent, del, dcopy, reap, rcopy, world>>
    BY <1>8 DEF EndRead, TypeOK
  <2> QED
    BY <2>1, <2>2, <2>3 DEF TypeOK
<1>9. CASE SummaryWrite \/ EndWrite
  <2>1. mine \in Record /\ Put(mine)
    BY <1>9 DEF SummaryWrite, EndWrite, TypeOK, Copy
  <2>2. rec' \in Copy /\ faults' \in Nat
    BY <2>1, PutEffect
  <2> QED
    BY <1>0, <1>9, <2>2 DEF SummaryWrite, EndWrite, TypeOK
<1> QED
  BY <1>1, <1>2, <1>3, <1>4, <1>5, <1>6, <1>7, <1>8, <1>9 DEF Worker, Starting, Ending

\* The bridge's steps.
LEMMA TypeBridge == TypeOK /\ Bridge => TypeOK'
<1> SUFFICES ASSUME TypeOK, Bridge PROVE TypeOK'
  OBVIOUS
<1> USE DEF owner, pump, world
<1>1. ASSUME NEW r \in {rec, None}, BridgeRead(r) PROVE TypeOK'
  <2>1. r \in Copy /\ faults' \in Nat
    BY <1>1, GetEffect DEF BridgeRead
  <2>2. read' \in Copy /\ (bridge' = "write" => read' # None)
    <3>1. seq \in Nat /\ read \in Copy /\ "Running" \in Active
      BY DEF TypeOK, Active
    <3>2. CASE r # None /\ r.status \in Active
      <4>1. [r EXCEPT !.seq = seq] \in Record
        BY <2>1, <3>1, <3>2, Edited
      <4> QED
        BY <1>1, <3>2, <4>1 DEF BridgeRead, Copy
    <3>3. CASE ~(r # None /\ r.status \in Active)
      BY <1>1, <3>3 DEF BridgeRead, TypeOK
    <3> QED
      BY <3>2, <3>3
  <2>3. /\ bridge' \in {"idle", "write"} /\ unseen' = FALSE
        /\ UNCHANGED <<rec, events, owner, owned, cancelled, del, dcopy, reap, rcopy, world>>
    BY <1>1 DEF BridgeRead
  <2> QED
    BY <2>1, <2>2, <2>3 DEF TypeOK
<1>2. CASE BridgeWrite
  <2>1. rec' \in Copy /\ faults' \in Nat
    <3>1. CASE Unchanged
      BY <1>2, <3>1, PutEffect DEF BridgeWrite, TypeOK, Copy
    <3>2. CASE ~Unchanged
      BY <1>2, <3>2 DEF BridgeWrite, TypeOK
    <3> QED
      BY <3>1, <3>2
  <2> QED
    BY <1>2, <2>1 DEF BridgeWrite, TypeOK, Copy
<1>3. CASE BridgeStop
  BY <1>3 DEF BridgeStop, TypeOK
<1> QED
  BY <1>1, <1>2, <1>3 DEF Bridge

\* The steps of a deletion.
LEMMA TypeDelete == ASSUME TypeOK, NEW d \in Deleters, Delete(d) PROVE TypeOK'
<1> USE DEF owner, pump, world
<1>1. ASSUME NEW r \in {rec, None}, DeleteRead(d, r) PROVE TypeOK'
  <2>1. r \in Copy /\ faults' \in Nat
    BY <1>1, GetEffect DEF DeleteRead
  <2> QED
    BY <1>1, <2>1 DEF DeleteRead, TypeOK
<1>2. CASE DeleteMark(d)
  <2>1. [dcopy[d] EXCEPT !.deleting = TRUE] \in Record
    <3>1. dcopy[d] \in Copy /\ dcopy[d] # None /\ 0 \in Nat /\ "Running" \in Active
      BY <1>2 DEF DeleteMark, TypeOK, Active
    <3> QED
      BY <3>1, Edited
  <2>2. rec' \in Copy /\ faults' \in Nat
    BY <1>2, <2>1, PutEffect DEF DeleteMark
  <2> QED
    BY <1>2, <2>2 DEF DeleteMark, TypeOK, Copy
<1>3. CASE DeleteDrain(d)
  <2>1. events' \subseteq Nat /\ faults' \in Nat /\ cancelled' \in BOOLEAN
    <3>1. events \subseteq Nat /\ cancelled \in BOOLEAN /\ owned \in BOOLEAN
      BY DEF TypeOK
    <3>2. (events' = {} \/ events' = events) /\ (Fault \/ UNCHANGED faults)
      BY <1>3 DEF DeleteDrain, Drain
    <3>3. cancelled' \in BOOLEAN
      BY <1>3, <3>1 DEF DeleteDrain
    <3> QED
      BY <3>1, <3>2, <3>3, FaultEffect
  <2> QED
    BY <1>3, <2>1 DEF DeleteDrain, TypeOK
<1>4. CASE DeleteSummary(d)
  <2>1. rec' \in Copy /\ faults' \in Nat
    BY <1>4 DEF DeleteSummary, DeleteRecord, Fault, TypeOK, Copy
  <2> QED
    BY <1>4, <2>1 DEF DeleteSummary, TypeOK
<1> QED
  BY <1>1, <1>2, <1>3, <1>4 DEF Delete

\* A reaper goes to another step, or gives up what it has listed.
LEMMA GotoEffect ==
  ASSUME TypeOK, NEW p \in Reapers, reap[p] # "idle",
         NEW where \in {"idle", "look", "drain", "delete", "fail", "mark"}, ReapGoto(p, where)
  PROVE  /\ reap' \in [Reapers -> {"idle", "look", "drain", "delete", "fail", "mark"}]
         /\ rcopy' \in [Reapers -> Copy]
         /\ \A q \in Reapers : reap'[q] # "idle" => rcopy'[q] # None
         /\ reap'[p] = where /\ rcopy'[p] \in {rcopy[p], None}
         /\ \A q \in Reapers \ {p} : reap'[q] = reap[q] /\ rcopy'[q] = rcopy[q]
  BY DEF TypeOK, ReapGoto, Copy

\* The steps of a reaper.
LEMMA TypeReap == ASSUME TypeOK, NEW p \in Reapers, Reap(p) PROVE TypeOK'
<1> USE DEF owner, pump, world
<1>1. CASE ReapList(p)
  BY <1>1 DEF ReapList, TypeOK
<1>2. ASSUME NEW aged \in BOOLEAN, ReapLook(p, aged) PROVE TypeOK'
  <2>1. \A present : Verdict(rcopy[p], present, aged) \in {"idle", "drain", "fail", "mark"}
    BY DEF Verdict
  <2>2. reap[p] # "idle" /\ faults' \in Nat
    BY <1>2, FaultEffect DEF ReapLook
  <2>3. PICK where \in {"idle", "drain", "fail", "mark"} : ReapGoto(p, where)
    BY <1>2, <2>1 DEF ReapLook
  <2> QED
    BY <1>2, <2>2, <2>3, GotoEffect DEF ReapLook, TypeOK
<1>3. CASE ReapDrain(p)
  <2>1. reap[p] # "idle" /\ faults' \in Nat /\ events' \subseteq Nat
    <3>1. events \subseteq Nat
      BY DEF TypeOK
    <3>2. /\ reap[p] # "idle" /\ (events' = {} \/ events' = events)
          /\ Fault \/ UNCHANGED faults
      BY <1>3 DEF ReapDrain, Drain
    <3> QED
      BY <3>1, <3>2, FaultEffect
  <2>2. PICK where \in {"idle", "delete"} : ReapGoto(p, where)
    BY <1>3 DEF ReapDrain
  <2> QED
    BY <1>3, <2>1, <2>2, GotoEffect DEF ReapDrain, TypeOK
<1>4. CASE ReapDelete(p)
  <2>1. reap[p] # "idle" /\ faults' \in Nat /\ rec' \in Copy
    BY <1>4 DEF ReapDelete, DeleteRecord, Fault, TypeOK, Copy
  <2> QED
    BY <1>4, <2>1, GotoEffect DEF ReapDelete, TypeOK
<1>5. CASE ReapWrite(p)
  <2>1. reap[p] # "idle" /\ rcopy[p] \in Copy /\ rcopy[p] # None
    BY <1>5 DEF ReapWrite, TypeOK
  <2>2. "Failed" \in Active \cup Terminal /\ 0 \in Nat
    BY DEF Terminal
  <2>3. /\ [rcopy[p] EXCEPT !.status = "Failed"] \in Record
        /\ [rcopy[p] EXCEPT !.deleting = TRUE] \in Record
    BY <2>1, <2>2, Edited
  <2>4. rec' \in Copy /\ faults' \in Nat
    BY <1>5, <2>3, PutEffect DEF ReapWrite
  <2> QED
    BY <1>5, <2>1, <2>4, GotoEffect DEF ReapWrite, TypeOK
<1> QED
  BY <1>1, <1>2, <1>3, <1>4, <1>5 DEF Reap

LEMMA TypeStep == TypeOK /\ [Next]_vars => TypeOK'
<1> SUFFICES ASSUME TypeOK, [Next]_vars PROVE TypeOK'
  OBVIOUS
<1>1. CASE Leave \/ Die
  BY <1>1 DEF Leave, Die, TypeOK, owner, pump
<1>2. CASE UNCHANGED vars
  BY <1>2 DEF vars, TypeOK
<1> QED
  BY <1>1, <1>2, TypeWorker, TypeBridge, TypeDelete, TypeReap DEF Next

\* Every step of the worker, the bridge, the deletions and the reapers keeps
\* the record, the event log and the copies of the record well formed, and
\* nobody is at a step that needs a record without one.
THEOREM TaskTypeCorrect == Spec => []TypeOK
<1>1. Init => TypeOK
  BY TypeInit
<1>2. TypeOK /\ [Next]_vars => TypeOK'
  BY TypeStep
<1> QED
  BY <1>1, <1>2, PTL DEF Spec

-----------------------------------------------------------------------------
(* The outcome.                                                            *)

\* The invariant without its condition.
Settled == HeldFits /\ NotYet /\ OneOutcome /\ BridgeLate

\* Once disturbed, always disturbed.
LEMMA StaysDisturbed ==
  ASSUME TypeOK, [Next]_vars, Undisturbed'
  PROVE  Undisturbed
<1> USE DEF Undisturbed, owner, pump, world
<1>1. CASE Worker
  BY <1>1 DEF Worker, Starting, Ending, Create, Own, StartRead, StartWrite, AppendLog,
     SendProgress, SummaryRead, SummaryWrite, EndRead, EndWrite
<1>2. CASE Bridge
  BY <1>2 DEF Bridge, BridgeRead, BridgeWrite, BridgeStop
<1>3. ASSUME NEW d \in Deleters, Delete(d) PROVE Undisturbed
  BY <1>3 DEF Delete, DeleteRead, DeleteMark, DeleteDrain, DeleteSummary, TypeOK
<1>4. ASSUME NEW p \in Reapers, Reap(p) PROVE Undisturbed
  BY <1>4 DEF Reap, ReapList, ReapLook, ReapDrain, ReapDelete, ReapWrite
<1>5. CASE Leave \/ Die
  BY <1>5 DEF Leave, Die
<1>6. CASE UNCHANGED vars
  BY <1>6 DEF vars
<1> QED
  BY <1>1, <1>2, <1>3, <1>4, <1>5, <1>6 DEF Next

\* A step that leaves the record, the copies and the steps of their holders
\* alone, or only moves a worker that holds nothing.
LEMMA SettledQuiet ==
  ASSUME Settled, UNCHANGED <<rec, bridge, read, reap, rcopy>>, live' => live,
         \/ UNCHANGED <<work, mine>>
         \/ work' = "done"
         \/ work \notin {"done", "new"} /\ work' \notin {"starting", "summing", "closing", "new"}
  PROVE  Settled'
  BY DEF Settled, HeldFits, NotYet, OneOutcome, BridgeLate, Ended

\* The worker reads a record: it is not of an ended task.
LEMMA SettledHold ==
  ASSUME TypeOK, TypeOK', Settled, UNCHANGED <<rec, bridge, read, reap, rcopy, live>>,
         rec # None, work \notin {"done", "new"},
         work' \in {"starting", "summing", "closing"},
         mine' # None, mine'.deleting = rec.deleting,
         work' # "closing" => mine'.status = rec.status
  PROVE  Settled'
<1>1. rec \in Record /\ Active \cap Terminal = {}
  BY DEF TypeOK, Copy, Active, Terminal
<1>2. rec.status \in Active \cup Terminal /\ ~Ended(rec)
  BY <1>1 DEF Settled, NotYet, Record
<1>3. rec.status \in Active
  BY <1>2 DEF Ended
<1>4. HeldFits'
  BY <1>3 DEF Settled, HeldFits, Ended
<1>5. NotYet'
  BY DEF Settled, NotYet, Ended
<1> QED
  BY <1>4, <1>5 DEF Settled, OneOutcome, BridgeLate, Ended

\* Before the worker is done somebody writes what is not an outcome.
LEMMA SettledWrite ==
  ASSUME TypeOK, TypeOK', Settled, UNCHANGED <<reap, rcopy, live>>,
         work # "done", work' \in {"made", "run", "ending", "done"} \/ UNCHANGED <<work, mine>>,
         work' # "new",
         bridge' = "write" => bridge = "write" /\ UNCHANGED read,
         NEW r \in Record, r.status \in Active, ~r.deleting,
         \/ rec' = rec
         \/ /\ rec' # None /\ rec'.status = r.status /\ rec'.deleting = r.deleting
            /\ rec # None => rec'.ver = rec.ver + 1
  PROVE  Settled'
<1>1. Active \cap Terminal = {}
  BY DEF Active, Terminal
<1>2. ~Ended(rec) /\ \A p \in Reapers : ~Ended(rcopy[p])
  BY DEF Settled, NotYet
<1>3. ~Ended(rec') /\ (rec' # None => ~rec'.deleting)
  BY <1>1, <1>2 DEF Ended, Settled, NotYet
<1>4. HeldFits'
  BY DEF Settled, HeldFits, Ended
<1>5. NotYet'
  <2>1. bridge' = "write" => rec' # None /\ ~read'.deleting /\ read'.ver <= rec'.ver
    <3> SUFFICES ASSUME bridge' = "write" PROVE rec' # None /\ ~read'.deleting /\ read'.ver <= rec'.ver
      OBVIOUS
    <3>1. rec # None /\ ~read.deleting /\ read.ver <= rec.ver /\ read # None
      BY DEF Settled, NotYet, TypeOK
    <3>2. rec.ver \in Nat /\ read.ver \in Nat
      BY <3>1 DEF TypeOK, Copy, Record
    <3> QED
      BY <3>1, <3>2
  <2>2. work' \in {"starting", "summing", "closing"} => rec' # None /\ ~mine'.deleting
    BY DEF Settled, NotYet
  <2>3. \A p \in Reapers : rcopy[p] # None => ~rcopy[p].deleting
    BY DEF Settled, NotYet
  <2> QED
    BY <1>2, <1>3, <2>1, <2>2, <2>3 DEF NotYet
<1> QED
  BY <1>2, <1>3, <1>4, <1>5 DEF Settled, OneOutcome, BridgeLate, Ended

LEMMA SettledWorker ==
  ASSUME TypeOK, TypeOK', Settled, Worker
  PROVE  Settled'
<1> USE DEF owner, pump, world
<1>1. CASE Create
  <2> DEFINE r == [status |-> "Pending", deleting |-> FALSE, seq |-> 0, ver |-> 0]
  <2>1. r \in Record /\ r.status \in Active /\ ~r.deleting /\ Put(r)
    BY <1>1 DEF Create, Record, Active
  <2> HIDE DEF r
  <2> QED
    BY <1>1, <2>1, PutEffect, SettledWrite DEF Create
<1>2. CASE Own \/ AppendLog \/ SendProgress
  BY <1>2, SettledQuiet DEF Own, AppendLog, SendProgress
<1>3. ASSUME NEW r \in {rec, None}, StartRead(r) \/ SummaryRead(r) PROVE Settled'
  <2>1. CASE r = None
    BY <1>3, <2>1, SettledQuiet DEF StartRead, SummaryRead
  <2>2. CASE r # None
    BY <1>3, <2>2, SettledHold DEF StartRead, SummaryRead
  <2> QED
    BY <2>1, <2>2
<1>4. CASE StartWrite
  <2> DEFINE r == [mine EXCEPT !.status = "Running"]
  <2>1. mine \in Copy /\ mine # None /\ ~mine.deleting /\ 0 \in Nat /\ "Running" \in Active
    BY <1>4 DEF StartWrite, Settled, NotYet, TypeOK, Active
  <2>2. r \in Record /\ r.status = "Running" /\ r.deleting = mine.deleting
    BY <2>1 DEF Copy, Record
  <2>3. Put(r)
    BY <1>4 DEF StartWrite
  <2> HIDE DEF r
  <2>4. r.status \in Active /\ ~r.deleting
    BY <2>1, <2>2
  <2> QED
    BY <1>4, <2>2, <2>3, <2>4, PutEffect, SettledWrite DEF StartWrite
<1>5. CASE SummaryWrite
  <2>1. mine \in Record /\ ~mine.deleting /\ mine.status \in Active /\ Put(mine)
    BY <1>5 DEF SummaryWrite, Settled, NotYet, HeldFits, TypeOK, Copy
  <2> QED
    BY <1>5, <2>1, PutEffect, SettledWrite DEF SummaryWrite
<1>6. ASSUME NEW r \in {rec, None}, NEW s \in Terminal, EndRead(s, r) PROVE Settled'
  <2>1. UNCHANGED <<rec, bridge, read, reap, rcopy, live>> /\ work \notin {"done", "new"}
    BY <1>6 DEF EndRead, Outcome
  <2>2. CASE r = None
    BY <1>6, <2>1, <2>2, SettledQuiet DEF EndRead
  <2>3. CASE r # None
    <3>1. rec # None /\ rec \in Copy /\ seq \in Nat
      BY <2>3 DEF TypeOK
    <3>2. mine' # None /\ mine'.deleting = rec.deleting /\ work' = "closing"
      <4>1. /\ [rec EXCEPT !.status = s, !.seq = seq] \in Record
            /\ [rec EXCEPT !.status = s, !.seq = seq].deleting = rec.deleting
        BY <3>1 DEF Copy, Record, Active, Terminal
      <4>2. mine' = [rec EXCEPT !.status = s, !.seq = seq] /\ work' = "closing"
        BY <1>6, <2>3 DEF EndRead
      <4> QED
        BY <4>1, <4>2
    <3> QED
      BY <2>1, <3>1, <3>2, SettledHold
  <2> QED
    BY <2>2, <2>3
<1>7. CASE EndWrite
  <2>1. mine \in Record /\ ~mine.deleting /\ Put(mine) /\ rec # None
    BY <1>7 DEF EndWrite, Settled, NotYet, TypeOK, Copy
  <2>2. /\ UNCHANGED <<bridge, read, reap, rcopy, live>> /\ work' = "done"
        /\ \A p \in Reapers : ~Ended(rcopy[p])
    BY <1>7 DEF EndWrite, Settled, NotYet
  <2>3. rec' = rec \/ (rec'.ver = rec.ver + 1)
    BY <2>1, PutEffect
  <2>4. CASE rec' = rec
    BY <2>2, <2>4, SettledQuiet
  <2>5. CASE rec'.ver = rec.ver + 1
    <3>1. BridgeLate'
      <4>1. bridge = "write" => read.ver \in Nat /\ read.ver <= rec.ver
        BY <1>7 DEF EndWrite, Settled, NotYet, TypeOK, Copy, Record
      <4>2. rec.ver \in Nat
        BY <2>1 DEF TypeOK, Copy, Record
      <4> QED
        BY <2>2, <2>5, <4>1, <4>2 DEF BridgeLate
    <3>2. HeldFits' /\ NotYet' /\ OneOutcome'
      BY <2>2 DEF Settled, HeldFits, NotYet, OneOutcome, Ended
    <3> QED
      BY <3>1, <3>2 DEF Settled
  <2> QED
    BY <2>3, <2>4, <2>5
<1> QED
  BY <1>1, <1>2, <1>3, <1>4, <1>5, <1>6, <1>7 DEF Worker, Starting, Ending

LEMMA SettledBridge ==
  ASSUME TypeOK, TypeOK', Settled, Bridge
  PROVE  Settled'
<1> USE DEF owner, pump, world
<1>1. ASSUME NEW r \in {rec, None}, BridgeRead(r) PROVE Settled'
  <2>1. UNCHANGED <<rec, work, mine, reap, rcopy, live>>
    BY <1>1 DEF BridgeRead
  <2>2. CASE r # None /\ r.status \in Active
    <3>1. rec # None /\ rec = r /\ rec \in Copy /\ seq \in Nat /\ "Running" \in Active
      BY <2>2 DEF TypeOK, Active
    <3>2. read'.status = rec.status /\ read'.deleting = rec.deleting /\ read'.ver = rec.ver
          /\ rec.ver \in Nat
      <4>1. /\ [rec EXCEPT !.seq = seq].status = rec.status
            /\ [rec EXCEPT !.seq = seq].deleting = rec.deleting
            /\ [rec EXCEPT !.seq = seq].ver = rec.ver /\ rec.ver \in Nat
        BY <3>1 DEF Copy, Record
      <4>2. read' = [rec EXCEPT !.seq = seq]
        BY <1>1, <2>2, <3>1 DEF BridgeRead
      <4> QED
        BY <4>1, <4>2
    <3>3. ~Ended(rec)
      BY <2>2, <3>1 DEF Ended, Active, Terminal
    <3> QED
      BY <2>1, <2>2, <3>1, <3>2, <3>3
         DEF Settled, HeldFits, NotYet, OneOutcome, BridgeLate, Ended
  <2>3. CASE ~(r # None /\ r.status \in Active)
    BY <1>1, <2>1, <2>3, SettledQuiet DEF BridgeRead
  <2> QED
    BY <2>2, <2>3
<1>2. CASE BridgeWrite
  <2>1. /\ UNCHANGED <<work, mine, reap, rcopy, live>> /\ bridge = "write" /\ bridge' = "idle"
        /\ read \in Record /\ read.status \in Active
    BY <1>2 DEF BridgeWrite, Settled, HeldFits, TypeOK, Copy
  <2>2. CASE rec' = rec
    BY <2>1, <2>2 DEF Settled, HeldFits, NotYet, OneOutcome, BridgeLate, Ended
  <2>3. CASE rec' # rec
    <3>1. Unchanged /\ Put(read)
      BY <1>2, <2>3 DEF BridgeWrite
    <3>2. rec' # None /\ rec'.status = read.status /\ rec'.deleting = read.deleting
          /\ (rec # None => rec'.ver = rec.ver + 1)
      BY <2>1, <2>3, <3>1, PutEffect
    <3>3. CASE work # "done"
      <4>1. ~read.deleting /\ work # "new"
        BY <2>1, <3>1, <3>3 DEF Settled, NotYet, Unchanged
      <4> QED
        BY <2>1, <3>2, <3>3, <4>1, SettledWrite
    <3>4. CASE work = "done"
      <4>1. ~Ended(rec')
        BY <2>1, <3>2 DEF Ended, Active, Terminal
      <4>2. rec.ver = read.ver /\ read.ver \in Nat
        BY <2>1, <3>1 DEF Unchanged, Record
      <4>3. Ended(rec) => ~OneReaper
        BY <2>1, <4>2 DEF Settled, BridgeLate
      <4>4. OneOutcome'
        BY <2>1, <4>1, <4>3 DEF Settled, OneOutcome, Ended
      <4> QED
        BY <2>1, <3>4, <4>1, <4>4 DEF Settled, HeldFits, NotYet, BridgeLate, Ended
    <3> QED
      BY <3>3, <3>4
  <2> QED
    BY <2>2, <2>3
<1>3. CASE BridgeStop
  <2>1. UNCHANGED <<rec, work, mine, read, reap, rcopy, live>> /\ bridge' = "off"
    BY <1>3 DEF BridgeStop
  <2> QED
    BY <2>1 DEF Settled, HeldFits, NotYet, OneOutcome, BridgeLate, Ended
<1> QED
  BY <1>1, <1>2, <1>3 DEF Bridge

\* A reaper moves on, with the record it has or with none.
LEMMA SettledGoto ==
  ASSUME TypeOK, Settled, UNCHANGED <<rec, work, mine, bridge, read, live>>,
         NEW p \in Reapers, reap[p] # "idle",
         NEW where \in {"idle", "drain", "delete", "fail", "mark"}, ReapGoto(p, where),
         where = "mark" => Ended(rcopy[p]),
         where \in {"drain", "delete"} => rcopy[p].deleting,
         live => where # "fail"
  PROVE  Settled'
<1>1. /\ reap'[p] = where /\ rcopy'[p] \in {rcopy[p], None}
      /\ where # "idle" => rcopy'[p] = rcopy[p]
      /\ \A q \in Reapers \ {p} : reap'[q] = reap[q] /\ rcopy'[q] = rcopy[q]
  BY GotoEffect DEF ReapGoto
<1>2. \A q \in Reapers : rcopy'[q] # None => rcopy'[q] = rcopy[q]
  BY <1>1
<1>3. HeldFits'
  BY <1>1 DEF Settled, HeldFits, Ended
<1>4. NotYet'
  BY <1>2 DEF Settled, NotYet, Ended
<1>5. OneOutcome'
  BY <1>2 DEF Settled, OneOutcome, Ended
<1> QED
  BY <1>3, <1>4, <1>5 DEF Settled, BridgeLate, Ended

LEMMA SettledReap ==
  ASSUME TypeOK, TypeOK', Settled, live, NEW p \in Reapers, Reap(p)
  PROVE  Settled'
<1> USE DEF owner, pump, world
<1>1. CASE ReapList(p)
  <2>1. /\ UNCHANGED <<rec, work, mine, bridge, read, live>> /\ rec # None
        /\ reap'[p] = "look" /\ rcopy'[p] = rec
        /\ \A q \in Reapers \ {p} : reap'[q] = reap[q] /\ rcopy'[q] = rcopy[q]
    BY <1>1 DEF ReapList, TypeOK
  <2>2. HeldFits' /\ NotYet' /\ BridgeLate'
    BY <2>1 DEF Settled, HeldFits, NotYet, BridgeLate, Ended
  <2>3. OneOutcome'
    BY <2>1 DEF Settled, OneOutcome, Ended
  <2> QED
    BY <2>2, <2>3 DEF Settled
<1>2. ASSUME NEW aged \in BOOLEAN, ReapLook(p, aged) PROVE Settled'
  <2>1. rcopy[p] # None /\ reap[p] # "idle" /\ ReapGoto(p, Verdict(rcopy[p], TRUE, aged))
    BY <1>2 DEF ReapLook, TypeOK
  <2> DEFINE where == Verdict(rcopy[p], TRUE, aged)
  <2>2. /\ where \in {"idle", "drain", "mark"}
        /\ where = "mark" => Ended(rcopy[p])
        /\ where = "drain" => rcopy[p].deleting
    BY <2>1 DEF Verdict, Ended
  <2> HIDE DEF where
  <2> QED
    BY <1>2, <2>1, <2>2, SettledGoto DEF ReapLook, where
<1>3. CASE ReapDrain(p)
  <2>1. reap[p] = "drain" /\ rcopy[p].deleting
    BY <1>3 DEF ReapDrain, Settled, HeldFits
  <2>2. PICK where \in {"idle", "delete"} : ReapGoto(p, where)
    BY <1>3 DEF ReapDrain
  <2> QED
    BY <1>3, <2>1, <2>2, SettledGoto DEF ReapDrain
<1>4. CASE ReapDelete(p)
  <2>1. /\ reap[p] = "delete" /\ rcopy[p] # None /\ rcopy[p].deleting
        /\ UNCHANGED <<work, mine, bridge, read, live>> /\ ReapGoto(p, "idle")
        /\ rec' = rec \/ rec' = None
    BY <1>4 DEF ReapDelete, DeleteRecord, Settled, HeldFits, TypeOK
  <2>2. CASE rec' = rec
    BY <2>1, <2>2, SettledGoto
  <2>3. CASE rec' = None
    <3>1. /\ reap'[p] = "idle" /\ rcopy'[p] = None
          /\ \A q \in Reapers \ {p} : reap'[q] = reap[q] /\ rcopy'[q] = rcopy[q]
      BY <2>1 DEF ReapGoto, TypeOK
    <3>2. work = "done"
      BY <2>1 DEF Settled, NotYet
    <3>3. OneOutcome'
      BY <2>3, <3>1 DEF Settled, OneOutcome, Ended, OneReaper
    <3> QED
      BY <2>1, <2>3, <3>1, <3>2, <3>3 DEF Settled, HeldFits, NotYet, BridgeLate, Ended
  <2> QED
    BY <2>1, <2>2, <2>3
<1>5. CASE ReapWrite(p)
  <2>1. /\ reap[p] = "mark" /\ rcopy[p] \in Copy /\ rcopy[p] # None /\ Ended(rcopy[p])
        /\ UNCHANGED <<work, mine, bridge, read, live>> /\ ReapGoto(p, "idle")
    BY <1>5 DEF ReapWrite, Settled, HeldFits, TypeOK
  <2> DEFINE r == [rcopy[p] EXCEPT !.deleting = TRUE]
  <2>2. r \in Record /\ r.status = rcopy[p].status /\ r.deleting = TRUE
    BY <2>1, Edited, 0 \in Nat, "Running" \in Active DEF Active
  <2>3. Put(r)
    BY <1>5, <2>1 DEF ReapWrite
  <2> HIDE DEF r
  <2>4. CASE rec' = rec
    BY <2>1, <2>4, SettledGoto
  <2>5. CASE rec' # rec
    <3>1. /\ rec' # None /\ rec'.status = rcopy[p].status /\ rec'.deleting = TRUE
          /\ rec # None => rec'.ver = rec.ver + 1
      BY <2>2, <2>3, <2>5, PutEffect
    <3>2. Ended(rec')
      BY <2>1, <3>1 DEF Ended
    <3>3. /\ reap'[p] = "idle" /\ rcopy'[p] = None
          /\ \A q \in Reapers \ {p} : reap'[q] = reap[q] /\ rcopy'[q] = rcopy[q]
      BY <2>1 DEF ReapGoto, TypeOK
    <3>4. work = "done"
      BY <2>1 DEF Settled, NotYet
    <3>5. OneOutcome'
      BY <2>1, <3>1, <3>2, <3>3 DEF Settled, OneOutcome, Ended
    <3>6. BridgeLate'
      <4> SUFFICES ASSUME bridge = "write", OneReaper PROVE read.ver < rec'.ver
        BY <2>1, <3>1 DEF BridgeLate
      <4>1. Ended(rec) /\ rec # None
        BY <2>1 DEF Settled, OneOutcome, Ended
      <4>2. read.ver < rec.ver
        BY <4>1 DEF Settled, BridgeLate
      <4>3. read.ver \in Nat /\ rec.ver \in Nat
        BY <4>1 DEF TypeOK, Copy, Record
      <4> QED
        BY <3>1, <4>1, <4>2, <4>3
    <3> QED
      BY <2>1, <3>3, <3>4, <3>5, <3>6 DEF Settled, HeldFits, NotYet, Ended
  <2> QED
    BY <2>4, <2>5
<1> QED
  BY <1>1, <1>2, <1>3, <1>4, <1>5 DEF Reap

LEMMA TaskStep == TaskInv /\ [Next]_vars => TaskInv'
<1> SUFFICES ASSUME TaskInv, [Next]_vars PROVE TaskInv'
  OBVIOUS
<1>1. TypeOK /\ TypeOK'
  BY TypeStep DEF TaskInv
<1> SUFFICES ASSUME Undisturbed' PROVE Settled'
  BY <1>1 DEF TaskInv, Settled
<1>2. Undisturbed
  BY <1>1, StaysDisturbed
<1>3. Settled /\ live
  BY <1>2 DEF TaskInv, Settled, Undisturbed
<1>4. ASSUME NEW d \in Deleters, Delete(d) PROVE FALSE
  <2>1. del[d] = "idle" /\ del'[d] = "idle"
    BY <1>2 DEF Undisturbed
  <2> QED
    BY <1>1, <1>4, <2>1 DEF Delete, DeleteRead, DeleteMark, DeleteDrain, DeleteSummary, TypeOK
<1>5. CASE Leave \/ Die \/ UNCHANGED vars
  BY <1>3, <1>5, SettledQuiet DEF Leave, Die, vars, owner, pump, world
<1> QED
  BY <1>1, <1>3, <1>4, <1>5, SettledWorker, SettledBridge, SettledReap DEF Next

LEMMA TaskInit == Init => TaskInv
<1> SUFFICES ASSUME Init PROVE TaskInv
  OBVIOUS
<1>1. TypeOK
  BY TypeInit
<1>2. \A p \in Reapers : reap[p] = "idle" /\ rcopy[p] = None
  BY DEF Init
<1>3. rec = None /\ work = "new" /\ bridge = "off"
  BY DEF Init
<1> QED
  BY <1>1, <1>2, <1>3 DEF TaskInv, HeldFits, NotYet, OneOutcome, BridgeLate, Ended

\* Until the owner leaves the registry or somebody asks for a deletion, there is
\* at most one outcome, all copies agree on it, and nobody holds a record that
\* could replace it.
THEOREM TaskSafe == Spec => []TaskInv
<1>1. Init => TaskInv
  BY TaskInit
<1>2. TaskInv /\ [Next]_vars => TaskInv'
  BY TaskStep
<1> QED
  BY <1>1, <1>2, PTL DEF Spec

\* No step of the worker, the bridge or a reaper replaces an outcome.
LEMMA OutcomeStep ==
  ASSUME TaskInv, [Next]_vars, Ended(rec), Undisturbed, rec.deleting => OneReaper,
         rec' # None
  PROVE  rec'.status = rec.status
<1> USE DEF owner, pump, world
<1>1. TypeOK /\ Settled /\ live
  BY DEF TaskInv, Settled, Undisturbed
<1>2. work = "done"
  BY <1>1 DEF Settled, NotYet
<1>3. CASE Worker
  BY <1>2, <1>3 DEF Worker, Starting, Ending, Create, Own, StartRead, StartWrite, AppendLog,
     SendProgress, SummaryRead, SummaryWrite, EndRead, EndWrite, Outcome
<1>4. CASE Bridge
  <2>1. ASSUME BridgeWrite PROVE ~Unchanged
    <3>1. read.ver < rec.ver /\ rec # None /\ read # None
      BY <1>1, <2>1 DEF BridgeWrite, Settled, BridgeLate, Ended, TypeOK
    <3>2. read.ver \in Nat /\ rec.ver \in Nat
      BY <1>1, <3>1 DEF TypeOK, Copy, Record
    <3> QED
      BY <3>1, <3>2 DEF Unchanged
  <2> QED
    BY <1>4, <2>1 DEF Bridge, BridgeRead, BridgeWrite, BridgeStop
<1>5. ASSUME NEW d \in Deleters, Delete(d) PROVE rec' = rec
  BY <1>5 DEF Delete, DeleteRead, DeleteMark, DeleteDrain, DeleteSummary, Undisturbed
<1>6. ASSUME NEW p \in Reapers, Reap(p) PROVE rec'.status = rec.status
  <2>1. CASE ReapWrite(p)
    <3>1. reap[p] = "mark" /\ Ended(rcopy[p]) /\ rcopy[p] \in Copy
      BY <1>1, <2>1 DEF ReapWrite, Settled, HeldFits, TypeOK
    <3>2. rcopy[p].status = rec.status /\ rcopy[p] # None
      BY <1>1, <3>1 DEF Settled, OneOutcome, Ended
    <3>3. /\ [rcopy[p] EXCEPT !.deleting = TRUE] \in Record
          /\ [rcopy[p] EXCEPT !.deleting = TRUE].status = rcopy[p].status
      BY <3>1, <3>2, Edited, 0 \in Nat, "Running" \in Active DEF Active
    <3>4. Put([rcopy[p] EXCEPT !.deleting = TRUE])
      BY <2>1, <3>1 DEF ReapWrite
    <3> QED
      BY <1>1, <3>2, <3>3, <3>4, PutEffect
  <2> QED
    BY <1>6, <2>1 DEF Reap, ReapList, ReapLook, ReapDrain, ReapDelete, DeleteRecord
<1>7. CASE Leave \/ Die \/ UNCHANGED vars
  BY <1>7 DEF Leave, Die, vars
<1> QED
  BY <1>3, <1>4, <1>5, <1>6, <1>7 DEF Next

\* The outcome of a task stays what it is: see OutcomeKept.
THEOREM OutcomeStays == Spec => OutcomeKept
<1>1. TaskInv /\ [Next]_vars =>
        [/\ Ended(rec) /\ Undisturbed /\ (rec.deleting => OneReaper) /\ rec' # None
         => rec'.status = rec.status]_vars
  BY OutcomeStep
<1>2. Spec => [][Next]_vars
  BY DEF Spec
<1> QED
  BY <1>1, <1>2, TaskSafe, PTL DEF OutcomeKept
=============================================================================
