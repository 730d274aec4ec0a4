---------------------------- MODULE GcLeaseProofs ---------------------------
(***************************************************************************)
(* Proofs about GcLease, for any sets of jobs and instances and any terms. *)
(*                                                                         *)
(* TimelyInv, inductive under the timing the lease is designed for, says    *)
(* that a live record has a holder that has not released it, so a record   *)
(* read as expired belongs to a dead instance and nobody can delete it;    *)
(* the version check then lets one of several takers win.  DecisionStands  *)
(* is inductive under any timing.                                          *)
(***************************************************************************)
EXTENDS GcLease, TLAPS

USE LeaseAssumption

\* The initial state: no record, every job idle.
LEMMA LeaseInit == Init => TimelyInv /\ DecisionStands
<1> SUFFICES ASSUME Init PROVE TimelyInv /\ DecisionStands
  OBVIOUS
<1>1. TypeOK
  <2>1. term \in [Jobs -> Span] /\ pc \in [Jobs -> Steps]
    BY DEF Init, Span, Steps
  <2>2. obs \in [Jobs -> Nat] /\ age \in [Jobs -> Nat]
    BY DEF Init
  <2> QED
    BY <2>1, <2>2 DEF Init, TypeOK
<1>2. cell = None /\ \A j \in Jobs : pc[j] = "idle"
  BY DEF Init, Jobs
<1> QED
  BY <1>1, <1>2 DEF TimelyInv, HolderOwns, RecordOwned, DeletesOwn, Observed,
     DecisionStands

\* A record being written has the type of a record, whatever is left of its
\* term.
LEMMA WrittenRecord ==
  ASSUME TypeOK, NEW j \in Jobs
  PROVE  /\ Granted(j) \in Span
         /\ [holder |-> Name(j), left |-> Granted(j), ver |-> obs[j] + 1] \in Record
<1>1. Granted(j) \in Span
  BY DEF TypeOK, Granted, Span, Jobs
<1> QED
  BY <1>1 DEF TypeOK, Record, Jobs

\* Every step of the code keeps the types.
LEMMA TypeStep == TypeOK /\ [AnyNext]_state /\ UNCHANGED timely => TypeOK'
<1> SUFFICES ASSUME TypeOK, [AnyNext]_state, UNCHANGED timely PROVE TypeOK'
  OBVIOUS
<1>1. CASE UNCHANGED state
  BY <1>1 DEF TypeOK, state
<1>2. ASSUME NEW j \in Jobs,
             \/ RequestCheck(j) \/ StartCheck(j) \/ GiveUp(j)
             \/ StartGc(j)
      PROVE  TypeOK'
  BY <1>2 DEF TypeOK, RequestCheck, StartCheck, GiveUp, StartGc, Goto, Steps
<1>3. ASSUME NEW j \in Jobs, AcquireRead(j) PROVE TypeOK'
  BY <1>3 DEF TypeOK, AcquireRead, Goto, Steps, Refused, Record, Jobs
<1>4. ASSUME NEW j \in Jobs, AcquireWrite(j) PROVE TypeOK'
  BY <1>4, WrittenRecord
     DEF TypeOK, AcquireWrite, WriteRecord, Forget, Goto, Steps, Refused, Jobs
<1>5. ASSUME NEW j \in Jobs, AcquireFails(j) PROVE TypeOK'
  BY <1>5, WrittenRecord
     DEF TypeOK, AcquireFails, WriteRecord, Forget, Goto, Steps, Refused, Jobs
<1>6. ASSUME NEW j \in Jobs,
             ReleaseRead(j) \/ ReleaseDelete(j) \/ ReleaseFails(j)
      PROVE  TypeOK'
  BY <1>6 DEF TypeOK, ReleaseRead, ReleaseDelete, ReleaseFails, RecordDeleted,
     Goto, Steps, Jobs
<1>7. ASSUME NEW j \in Jobs, Done(j) PROVE TypeOK'
  BY <1>7 DEF TypeOK, Done, Goto, Steps, Span, Jobs
<1>8. ASSUME NEW i \in Instances, Crash(i) PROVE TypeOK'
  BY <1>8 DEF TypeOK, Crash, Steps, Span, Record
<1>9. CASE Tick
  BY <1>9 DEF TypeOK, Tick, Span, Record
<1> QED
  BY <1>1, <1>2, <1>3, <1>4, <1>5, <1>6, <1>7, <1>8, <1>9
     DEF AnyNext, Work, LeaseStep, Jobs

\* The timely steps are steps of the code under any timing.
LEMMA TimelyIsAny == TimelyNext => AnyNext
  BY DEF TimelyNext, AnyNext

\* How time passes is settled once and for all.
LEMMA TimingKept ==
  [Next]_vars => /\ [AnyNext]_state /\ UNCHANGED timely
                 /\ timely => [TimelyNext]_state
<1>1. Next => /\ AnyNext /\ UNCHANGED timely
              /\ timely => TimelyNext
  BY TimelyIsAny DEF Next
<1> QED
  BY <1>1 DEF vars

\* Type correctness under any timing and any failures.
THEOREM LeaseTypeCorrect == Spec => []TypeOK
<1>1. Init => TypeOK
  BY LeaseInit DEF TimelyInv
<1>2. TypeOK /\ [Next]_vars => TypeOK'
  BY TypeStep, TimingKept
<1> QED
  BY <1>1, <1>2, PTL DEF Spec

-----------------------------------------------------------------------------

\* The steps that move a job without touching the record.
LEMMA IdleStep ==
  ASSUME TimelyInv, NEW j \in Jobs,
         \/ RequestCheck(j) \/ StartCheck(j) \/ GiveUp(j)
         \/ StartGc(j)
  PROVE  HolderOwns' /\ RecordOwned' /\ DeletesOwn' /\ Observed'
<1>1. /\ pc' \in [Jobs -> Steps] /\ \A k \in Jobs \ {j} : pc'[k] = pc[k]
      /\ UNCHANGED <<cell, obs, age, term>>
      /\ j \in Jobs => /\ pc[j] \in {"idle", "asked", "try"}
                         /\ pc'[j] \in {"asked", "try", "release"}
  BY DEF TimelyInv, TypeOK, RequestCheck, StartCheck, GiveUp, StartGc,
     Goto, Steps, Jobs
<1> QED
  BY <1>1 DEF TimelyInv, HolderOwns, RecordOwned, DeletesOwn, Observed, Jobs

\* Reading: a record that is not the reader's own and has expired belongs to
\* a dead instance.
LEMMA AcquireReadStep ==
  ASSUME TimelyInv, DistinctNames, NEW j \in Jobs, AcquireRead(j)
  PROVE  HolderOwns' /\ RecordOwned' /\ DeletesOwn' /\ Observed'
<1>1. /\ \A k \in Jobs \ {j} : pc'[k] = pc[k] /\ obs'[k] = obs[k] /\ age'[k] = age[k]
      /\ UNCHANGED <<cell, term>>
      /\ pc[j] = "try" /\ pc'[j] \in {"idle", "try", "write"} /\ age'[j] = 0
      /\ pc'[j] = "write" =>
           \/ cell = None /\ obs'[j] = 0
           \/ /\ cell # None /\ obs'[j] = cell.ver
              /\ cell.holder = Name(j) \/ cell.left < 0
  BY DEF TimelyInv, TypeOK, AcquireRead, Goto, Refused, Expired, Jobs
<1>2. HolderOwns' /\ RecordOwned' /\ DeletesOwn'
  BY <1>1 DEF TimelyInv, HolderOwns, RecordOwned, DeletesOwn, Jobs
<1>3. ASSUME cell # None, cell.holder = Name(j) \/ cell.left < 0
      PROVE  cell.holder = Gone /\ cell.left < 0
  <2>1. cell \in Record
    BY <1>3 DEF TimelyInv, TypeOK
  <2>2. cell.holder # Name(j)
    BY <1>1, <1>3 DEF TimelyInv, RecordOwned, DistinctNames
  <2> QED
    BY <1>3, <2>1, <2>2 DEF TimelyInv, RecordOwned, Record, Span
<1>4. Observed'
  BY <1>1, <1>3 DEF TimelyInv, TypeOK, Observed, Jobs, Record
<1> QED
  BY <1>2, <1>4

\* Writing: the winner takes a free or dead record, and every other reader is
\* left with an older version.
LEMMA AcquireWriteStep ==
  ASSUME TimelyInv, DistinctNames, NEW j \in Jobs, AcquireWrite(j)
  PROVE  HolderOwns' /\ RecordOwned' /\ DeletesOwn' /\ Observed'
<1>1. /\ \A k \in Jobs \ {j} : /\ pc'[k] = pc[k] /\ obs'[k] = obs[k]
                               /\ age'[k] = age[k] /\ term'[k] = term[k]
      /\ pc[j] = "write" /\ pc'[j] \in {"idle", "try", "hold"} /\ j \in Jobs
  BY DEF TimelyInv, TypeOK, AcquireWrite, Forget, Goto, Refused, Jobs
<1>2. CASE ~Matches(j)
  <2>1. UNCHANGED cell /\ pc'[j] # "hold"
    BY <1>2 DEF TimelyInv, TypeOK, AcquireWrite, Goto, Refused, Jobs
  <2> QED
    BY <1>1, <2>1 DEF TimelyInv, HolderOwns, RecordOwned, DeletesOwn, Observed, Jobs
<1>3. CASE Matches(j)
  <2>1. cell # None => cell \in Record /\ cell.left < 0 /\ cell.ver = obs[j]
    BY <1>1, <1>3 DEF TimelyInv, TypeOK, Matches, Observed, Record
  <2>2. cell # None => cell.holder = Gone
    BY <2>1 DEF TimelyInv, RecordOwned, Record, Span
  <2>3. /\ cell' = [holder |-> Name(j), left |-> Ttl[j], ver |-> obs[j] + 1]
        /\ term'[j] = Ttl[j] /\ pc'[j] = "hold"
    BY <1>1, <1>3 DEF TimelyInv, TypeOK, AcquireWrite, WriteRecord, Granted, Goto,
       Observed
  <2>4. cell' \in Record /\ cell' # None
    BY <2>3 DEF TimelyInv, TypeOK, Record, Span, Jobs
  <2>5. \A k \in Jobs \ {j} : pc[k] # "hold" /\ pc[k] # "delete"
    BY <2>2 DEF TimelyInv, HolderOwns, DeletesOwn
  <2>6. HolderOwns' /\ RecordOwned' /\ DeletesOwn'
    BY <1>1, <2>3, <2>4, <2>5 DEF HolderOwns, RecordOwned, DeletesOwn, Jobs
  <2>7. \A k \in Jobs \ {j} : pc[k] = "write" /\ obs[k] > 0 => obs[k] < obs[j] + 1
    BY <2>1 DEF TimelyInv, TypeOK, Observed, Record, Jobs
  <2>8. Observed'
    BY <1>1, <2>3, <2>4, <2>7 DEF TimelyInv, TypeOK, Observed, DistinctNames, Jobs
  <2> QED
    BY <2>6, <2>8
<1> QED
  BY <1>2, <1>3

\* Releasing: the record deleted is the job's own, and nobody is waiting to
\* take it over.
LEMMA ReleaseStep ==
  ASSUME TimelyInv, DistinctNames, NEW j \in Jobs,
         ReleaseRead(j) \/ ReleaseDelete(j)
  PROVE  HolderOwns' /\ RecordOwned' /\ DeletesOwn' /\ Observed'
<1>1. /\ \A k \in Jobs \ {j} : pc'[k] = pc[k]
      /\ UNCHANGED <<obs, age, term>>
      /\ pc[j] \in {"release", "delete"} /\ pc'[j] \in {"idle", "delete"}
      /\ j \in Jobs
  BY DEF TimelyInv, TypeOK, ReleaseRead, ReleaseDelete, Goto, Jobs
<1>2. CASE ReleaseRead(j)
  <2>1. /\ UNCHANGED cell
        /\ IF cell # None /\ cell.holder = Name(j) THEN pc'[j] = "delete"
                                                   ELSE pc'[j] = "idle"
    BY <1>2, <1>1 DEF TimelyInv, TypeOK, ReleaseRead, Goto
  <2> QED
    BY <1>1, <2>1 DEF TimelyInv, HolderOwns, RecordOwned, DeletesOwn, Observed,
       DistinctNames, Jobs
<1>3. CASE ReleaseDelete(j)
  <2>1. cell' = None /\ pc[j] = "delete" /\ pc'[j] = "idle"
    BY <1>3, <1>1 DEF TimelyInv, TypeOK, ReleaseDelete, RecordDeleted, Goto
  <2>2. cell # None /\ cell.holder = Name(j)
    BY <2>1 DEF TimelyInv, DeletesOwn
  <2>3. \A k \in Jobs \ {j} : pc[k] # "hold" /\ pc[k] # "delete"
    BY <2>2 DEF TimelyInv, HolderOwns, DeletesOwn, DistinctNames
  <2>4. \A k \in Jobs : pc[k] = "write" => ~(obs[k] > 0)
    BY <2>1, <2>2 DEF TimelyInv, Observed
  <2> QED
    BY <1>1, <2>1, <2>3, <2>4 DEF TimelyInv, HolderOwns, RecordOwned, DeletesOwn,
       Observed, Jobs
<1> QED
  BY <1>2, <1>3

\* Ending a pass: the term has started to run, so no reader has read the
\* record its holder replaced.
LEMMA DoneStep ==
  ASSUME TimelyInv, DistinctNames, NEW j \in Jobs, Worked(j), Done(j)
  PROVE  HolderOwns' /\ RecordOwned' /\ DeletesOwn' /\ Observed'
<1>1. /\ \A k \in Jobs \ {j} : pc'[k] = pc[k] /\ term'[k] = term[k]
      /\ UNCHANGED <<cell, obs, age>>
      /\ pc[j] = "hold" /\ pc'[j] = "release" /\ j \in Jobs /\ term[j] # Ttl[j]
  BY DEF TimelyInv, TypeOK, Done, Worked, Goto, Jobs, Span
<1>2. cell # None /\ cell.holder = Name(j) /\ cell.left >= 0
  BY <1>1 DEF TimelyInv, HolderOwns
<1>3. \A k \in Jobs : pc[k] = "write" => ~(obs[k] > 0)
  BY <1>1, <1>2 DEF TimelyInv, Observed
<1> QED
  BY <1>1, <1>2, <1>3 DEF TimelyInv, HolderOwns, RecordOwned, DeletesOwn, Observed,
     DistinctNames, Jobs

\* A crash leaves the record to nobody; the jobs of other instances keep
\* theirs.
LEMMA CrashStep ==
  ASSUME TimelyInv, DistinctNames, NEW i \in Instances, Crash(i)
  PROVE  HolderOwns' /\ RecordOwned' /\ DeletesOwn' /\ Observed'
<1> DEFINE Mine(j) == InstanceOf[j] = i
<1>1. /\ \A j \in Jobs : IF Mine(j) THEN pc'[j] = "idle"
                         ELSE /\ pc'[j] = pc[j] /\ obs'[j] = obs[j]
                              /\ term'[j] = term[j]
      /\ UNCHANGED age
  BY DEF Crash
<1>2. CASE \E j \in Jobs : Mine(j) /\ cell # None /\ cell.holder = Name(j)
  <2>1. PICK j \in Jobs : Mine(j) /\ cell # None /\ cell.holder = Name(j)
    BY <1>2
  <2>2. cell' = [cell EXCEPT !.holder = Gone] /\ cell \in Record
    BY <1>2, <2>1 DEF Crash, TimelyInv, TypeOK
  <2>3. /\ cell' \in Record /\ cell' # None /\ cell'.holder = Gone
        /\ cell'.left = cell.left /\ cell'.ver = cell.ver
    BY <2>2 DEF Record
  <2>4. \A k \in Jobs : pc[k] \in {"hold", "delete"} => Mine(k)
    BY <2>1 DEF TimelyInv, HolderOwns, DeletesOwn, DistinctNames
  <2>5. HolderOwns' /\ RecordOwned' /\ DeletesOwn'
    BY <1>1, <2>3, <2>4 DEF TimelyInv, HolderOwns, RecordOwned, DeletesOwn, Jobs
  <2>6. Observed'
    BY <1>1, <2>1, <2>3 DEF TimelyInv, Observed, Jobs
  <2> QED
    BY <2>5, <2>6
<1>3. CASE ~ \E j \in Jobs : Mine(j) /\ cell # None /\ cell.holder = Name(j)
  <2>1. cell' = cell
    BY <1>3 DEF Crash
  <2>2. \A k \in Jobs : cell # None /\ cell.holder = Name(k) => ~Mine(k)
    BY <1>3
  <2> QED
    BY <1>1, <2>1, <2>2 DEF TimelyInv, HolderOwns, RecordOwned, DeletesOwn,
       Observed, Jobs
<1> QED
  BY <1>2, <1>3

\* Time passes only while every job is idle or working within its term.
LEMMA TickStep ==
  ASSUME TimelyInv, Prompt, Tick
  PROVE  HolderOwns' /\ RecordOwned' /\ DeletesOwn' /\ Observed'
<1>1. UNCHANGED pc /\ \A j \in Jobs : term[j] > 0 => term'[j] = term[j] - 1
  BY DEF TimelyInv, TypeOK, Tick, Span
<1>2. cell = None => cell' = None
  BY DEF Tick
<1>3. ASSUME cell # None
      PROVE  /\ cell' # None /\ cell'.holder = cell.holder
             /\ cell.left > 0 => cell'.left = cell.left - 1
  <2>1. cell \in Record
    BY <1>3 DEF TimelyInv, TypeOK
  <2>2. CASE cell.left < 0
    BY <2>1, <2>2, <1>3 DEF Tick, Record, Span
  <2>3. CASE ~(cell.left < 0)
    <3>1. cell' = [cell EXCEPT !.left = cell.left - 1]
      BY <2>3, <1>3 DEF Tick
    <3>2. cell' \in Record
      BY <2>1, <2>3, <3>1 DEF Record, Span
    <3> QED
      BY <2>1, <3>1, <3>2 DEF Record
  <2> QED
    BY <2>2, <2>3
<1>4. HolderOwns' /\ DeletesOwn' /\ Observed'
  BY <1>1, <1>3 DEF TimelyInv, TypeOK, Prompt, HolderOwns, DeletesOwn, Observed,
     Span, Jobs
<1>5. RecordOwned'
  <2> SUFFICES ASSUME cell' # None, cell'.holder # Gone PROVE RecordOwned'
    BY DEF RecordOwned
  <2>1. cell # None /\ cell.holder # Gone
    BY <1>2, <1>3
  <2>2. PICK j \in Jobs : /\ cell.holder = Name(j)
                            /\ pc[j] \in {"hold", "release", "delete"}
    BY <2>1 DEF TimelyInv, RecordOwned
  <2>3. pc[j] = "hold" /\ cell.left > 0
    BY <2>2 DEF Prompt, TimelyInv, HolderOwns
  <2>4. cell \in Record
    BY <2>1 DEF TimelyInv, TypeOK
  <2>5. cell'.left >= 0 /\ cell'.holder = Name(j) /\ pc'[j] = "hold"
    BY <1>1, <1>3, <2>1, <2>2, <2>3, <2>4 DEF Record, Span
  <2> QED
    BY <2>5 DEF RecordOwned
<1> QED
  BY <1>4, <1>5

\* TimelyInv is inductive under the timing the lease is designed for.
LEMMA TimelyInvStep == 
  DistinctNames /\ TimelyInv /\ [TimelyNext]_state /\ UNCHANGED timely => TimelyInv'
<1> SUFFICES ASSUME DistinctNames, TimelyInv, [TimelyNext]_state, UNCHANGED timely
             PROVE  TimelyInv'
  OBVIOUS
<1>1. TypeOK'
  BY TypeStep, TimelyIsAny DEF TimelyInv
<1>2. HolderOwns' /\ RecordOwned' /\ DeletesOwn' /\ Observed'
  <2>1. CASE UNCHANGED state
    BY <2>1 DEF state, TimelyInv, HolderOwns, RecordOwned, DeletesOwn, Observed
  <2>2. ASSUME NEW j \in Jobs, LeaseStep(j)
        PROVE  HolderOwns' /\ RecordOwned' /\ DeletesOwn' /\ Observed'
    BY <2>2, AcquireReadStep, AcquireWriteStep, ReleaseStep DEF LeaseStep
  <2>3. CASE Work
    BY <2>2, <2>3, IdleStep, CrashStep DEF Work
  <2>4. ASSUME NEW j \in Jobs, StartGc(j)
        PROVE  HolderOwns' /\ RecordOwned' /\ DeletesOwn' /\ Observed'
    BY <2>4, IdleStep DEF Jobs
  <2> QED
    BY <2>1, <2>3, <2>4, DoneStep, TickStep DEF TimelyNext
<1> QED
  BY <1>1, <1>2 DEF TimelyInv

\* LeaseInv holds throughout: when time passes as the lease is designed for,
\* and there is one job of a kind per instance, a live record has a holder
\* that has not released it, whatever crashes.
THEOREM LeaseOwned == DistinctNames => (Spec => []LeaseInv)
<1> SUFFICES ASSUME DistinctNames PROVE Spec => []LeaseInv
  OBVIOUS
<1>1. Init => LeaseInv
  BY LeaseInit DEF LeaseInv
<1>2. LeaseInv /\ [Next]_vars => LeaseInv'
  BY TimelyInvStep, TimingKept DEF LeaseInv
<1> QED
  BY <1>1, <1>2, PTL DEF Spec

\* Under that timing, and with one job of a kind per instance, try_acquire_lease
\* gives the lease to at most one holder, whatever crashes.
THEOREM LeaseExclusive == DistinctNames => (Spec => []MutualExclusion)
<1> SUFFICES ASSUME DistinctNames PROVE Spec => []MutualExclusion
  OBVIOUS
<1>1. Spec => []LeaseInv
  BY LeaseOwned
<1>2. LeaseInv => MutualExclusion
  BY DEF LeaseInv, TimelyInv, HolderOwns, MutualExclusion, Holds, DistinctNames
<1> QED
  BY <1>1, <1>2, PTL

-----------------------------------------------------------------------------

\* Under any timing and any failures, a decision to take over that was not
\* undone by a deletion stands while the version does.
LEMMA DecisionStep ==
  TypeOK /\ DecisionStands /\ [AnyNext]_state => DecisionStands'
<1> SUFFICES ASSUME TypeOK, DecisionStands, [AnyNext]_state,
                    NEW j \in Jobs,
                    pc'[j] = "write", j \notin stale', obs'[j] > 0
             PROVE  /\ cell' # None /\ obs'[j] <= cell'.ver
                    /\ obs'[j] = cell'.ver =>
                         cell'.holder = Name(j) \/ cell'.left < 0
  BY DEF DecisionStands
<1> DEFINE Goal == /\ cell' # None /\ obs'[j] <= cell'.ver
                   /\ obs'[j] = cell'.ver =>
                        cell'.holder = Name(j) \/ cell'.left < 0
<1> USE DEF Jobs
<1>1. CASE UNCHANGED state
  BY <1>1 DEF state, DecisionStands
<1>2. ASSUME NEW k \in Jobs,
             \/ RequestCheck(k) \/ StartCheck(k) \/ GiveUp(k)
             \/ StartGc(k)
             \/ ReleaseRead(k) \/ Done(k)
      PROVE  Goal
  <2>1. pc[j] = "write" /\ UNCHANGED <<cell, obs, stale>>
    BY <1>2 DEF TypeOK, RequestCheck, StartCheck, GiveUp, StartGc,
         ReleaseRead, Done, Goto
  <2> QED
    BY <2>1 DEF DecisionStands
<1>3. ASSUME NEW k \in Jobs, AcquireRead(k) PROVE Goal
  <2>1. CASE j = k
    BY <1>3, <2>1 DEF TypeOK, AcquireRead, Goto, Refused, Expired, Record
  <2>2. CASE j # k
    BY <1>3, <2>2 DEF TypeOK, AcquireRead, Goto, DecisionStands
  <2> QED
    BY <2>1, <2>2
<1>4. ASSUME NEW k \in Jobs, AcquireWrite(k) \/ AcquireFails(k) PROVE Goal
  <2>1. j # k
    BY <1>4 DEF TypeOK, AcquireWrite, AcquireFails, Goto, Refused
  <2>2. pc[j] = "write" /\ obs'[j] = obs[j] /\ j \notin stale
    BY <1>4, <2>1 DEF TypeOK, AcquireWrite, AcquireFails, Forget, Goto
  <2>3. CASE UNCHANGED cell
    BY <2>2, <2>3 DEF DecisionStands
  <2>4. CASE Matches(k) /\ WriteRecord(k)
    <3>1. cell # None => cell \in Record /\ cell.ver = obs[k]
      BY <2>4 DEF TypeOK, Matches
    <3>2. cell' # None /\ cell'.ver = obs[k] + 1
      BY <2>4, WrittenRecord DEF WriteRecord
    <3>3. cell # None /\ obs[j] <= cell.ver
      BY <2>2 DEF DecisionStands
    <3> QED
      BY <2>2, <3>1, <3>2, <3>3 DEF TypeOK, Record
  <2> QED
    BY <1>4, <2>3, <2>4 DEF AcquireWrite, AcquireFails
<1>5. ASSUME NEW k \in Jobs, ReleaseDelete(k) \/ ReleaseFails(k) PROVE Goal
  <2>1. pc[j] = "write" /\ UNCHANGED obs
    BY <1>5 DEF TypeOK, ReleaseDelete, ReleaseFails, Goto
  <2>2. ~RecordDeleted
    BY <2>1 DEF RecordDeleted
  <2>3. UNCHANGED <<cell, stale>>
    BY <1>5, <2>2 DEF ReleaseDelete, ReleaseFails
  <2> QED
    BY <2>1, <2>3 DEF DecisionStands
<1>6. ASSUME NEW i \in Instances, Crash(i) PROVE Goal
  <2>1. InstanceOf[j] # i /\ pc[j] = "write" /\ obs'[j] = obs[j] /\ j \notin stale
    BY <1>6 DEF Crash
  <2>2. CASE \E k \in Jobs : InstanceOf[k] = i /\ cell # None
                                 /\ cell.holder = Name(k)
    <3>1. cell # None /\ cell.holder # Name(j) /\ cell \in Record
      BY <2>1, <2>2 DEF TypeOK, Name
    <3>2. cell' = [cell EXCEPT !.holder = Gone]
      BY <1>6, <2>2 DEF Crash
    <3>3. cell' \in Record /\ cell'.ver = cell.ver /\ cell'.left = cell.left
      BY <3>1, <3>2 DEF Record
    <3> QED
      BY <2>1, <3>1, <3>3 DEF DecisionStands
  <2>3. CASE ~ \E k \in Jobs : InstanceOf[k] = i /\ cell # None
                                   /\ cell.holder = Name(k)
    BY <1>6, <2>1, <2>3 DEF Crash, DecisionStands
  <2> QED
    BY <2>2, <2>3
<1>7. CASE Tick
  <2>1. pc[j] = "write" /\ UNCHANGED obs /\ j \notin stale
    BY <1>7 DEF Tick
  <2>2. cell # None /\ cell \in Record
    BY <2>1 DEF TypeOK, DecisionStands
  <2>3. CASE cell.left < 0
    BY <1>7, <2>1, <2>3 DEF Tick, DecisionStands
  <2>4. CASE ~(cell.left < 0)
    <3>1. cell' = [cell EXCEPT !.left = cell.left - 1]
      BY <1>7, <2>2, <2>4 DEF Tick
    <3>2. cell' \in Record
      BY <2>2, <2>4, <3>1 DEF Record, Span
    <3> QED
      BY <2>1, <2>2, <2>4, <3>1, <3>2 DEF Record, DecisionStands
  <2> QED
    BY <2>3, <2>4
<1> QED
  BY <1>1, <1>2, <1>3, <1>4, <1>5, <1>6, <1>7 DEF AnyNext, Work, LeaseStep

\* Under any timing and any failures, DecisionStands holds throughout.
THEOREM DecisionsStand == Spec => []DecisionStands
<1> DEFINE Inv == TypeOK /\ DecisionStands
<1>1. Init => Inv
  BY LeaseInit DEF TimelyInv
<1>2. Inv /\ [Next]_vars => Inv'
  BY TypeStep, DecisionStep, TimingKept
<1> QED
  BY <1>1, <1>2, PTL DEF Spec

\* An acquisition that wins on a record not deleted since it was read takes
\* nothing from a live holder, under any timing and any failures.
THEOREM LiveHolderKept == Spec => TakesOverOnlyExpired
<1> DEFINE Inv == TypeOK /\ DecisionStands
           Kept == \A j \in Jobs :
                     (/\ pc[j] = "write" /\ pc'[j] # "write" /\ j \notin stale
                      /\ cell' # cell /\ cell' # None /\ cell'.holder = Name(j))
                     => cell = None \/ cell.holder = Name(j) \/ cell.left < 0
<1>1. Init => Inv
  BY LeaseInit DEF TimelyInv
<1>2. Inv /\ [Next]_vars => Inv'
  BY TypeStep, DecisionStep, TimingKept
<1>3. Inv /\ [Next]_vars => [Kept]_vars
  <2> SUFFICES ASSUME Inv, AnyNext, NEW j \in Jobs,
                      pc[j] = "write", pc'[j] # "write", j \notin stale,
                      cell' # cell, cell' # None, cell'.holder = Name(j)
               PROVE  cell = None \/ cell.holder = Name(j) \/ cell.left < 0
    BY TimelyIsAny DEF Next
  <2>1. CASE AcquireWrite(j) \/ AcquireFails(j)
    <3>1. Matches(j)
      BY <2>1 DEF AcquireWrite, AcquireFails
    <3> QED
      BY <3>1 DEF Matches, DecisionStands, TypeOK, Record, Jobs
  <2>2. ASSUME NEW i \in Instances, Crash(i) PROVE FALSE
    <3>1. cell \in Record /\ cell' = [cell EXCEPT !.holder = Gone]
      BY <2>2 DEF Crash, TypeOK
    <3> QED
      BY <3>1 DEF Record
  <2>3. CASE Tick
    BY <2>3 DEF Tick
  <2>4. ASSUME NEW k \in Jobs, k # j,
               \/ RequestCheck(k) \/ StartCheck(k) \/ GiveUp(k)
               \/ StartGc(k) \/ Done(k) \/ LeaseStep(k)
               \/ AcquireFails(k) \/ ReleaseFails(k)
        PROVE  FALSE
    BY <2>4 DEF TypeOK, RequestCheck, StartCheck, GiveUp, StartGc, Done,
       LeaseStep, AcquireRead, AcquireWrite, ReleaseRead,
       ReleaseDelete, AcquireFails, ReleaseFails, Goto, Jobs
  <2>5. ASSUME \/ RequestCheck(j) \/ StartCheck(j) \/ GiveUp(j)
               \/ StartGc(j) \/ Done(j) \/ ReleaseFails(j)
               \/ AcquireRead(j) \/ ReleaseRead(j) \/ ReleaseDelete(j)
        PROVE  FALSE
    BY <2>5 DEF RequestCheck, StartCheck, GiveUp, StartGc,
       Done, AcquireRead, ReleaseRead, ReleaseDelete, ReleaseFails
  <2> QED
    BY <2>1, <2>2, <2>3, <2>4, <2>5 DEF AnyNext, Work, LeaseStep, Jobs
<1> QED
  BY <1>1, <1>2, <1>3, PTL DEF Spec, TakesOverOnlyExpired
=============================================================================
