------------------------------ MODULE GcLease -------------------------------
(***************************************************************************)
(* The distributed gc lease (server/worker/cluster.rs) and the jobs that   *)
(* take it: the garbage collection loop of every instance and the          *)
(* integrity checks.  A pass started through the API takes no lease and is *)
(* not part of the protocol.                                               *)
(*                                                                         *)
(* The lease is one versioned cell of the KV store.  Acquiring and         *)
(* releasing are a read followed by a write, two awaits between which      *)
(* anything may happen.  Time is relative: the record counts down to its   *)
(* expiry, so the model needs no bound on the clock.                       *)
(***************************************************************************)
EXTENDS Integers, FiniteSets

CONSTANTS
    Gcs,        \* the garbage collection loops, one per instance
    Checks,     \* integrity check tasks
    InstanceOf, \* the instance a job runs on
    Ttl,        \* the lease term each job asks for, in ticks
    MaxVersion, \* bound: versions of one record
    MaxFaults,  \* bound: failures and crashes explored
    Gone,       \* the holder name of an instance that died
    None        \* no record

Jobs == Gcs \cup Checks
Instances == {InstanceOf[j] : j \in Jobs}

VARIABLES
    cell,   \* the lease record: holder, time left (-1: expired), version
    pc,     \* where each job stands
    obs,    \* the version a job read before its write; 0: no record
    age,    \* ticks since a job last read the record, or gave up on it
    term,   \* ticks left of the term a job was granted
    stale,  \* jobs whose record was deleted after they read it
    faults, \* failures so far
    timely  \* whether time passes as the lease is designed for

state == <<cell, pc, obs, age, term, stale, faults>>
vars == <<state, timely>>

\* "{instance_id}:gc" and "{instance_id}:check".
Name(j) == <<InstanceOf[j], IF j \in Gcs THEN "gc" ELSE "check">>

Steps == {"idle", "asked", "try", "write", "hold", "release", "delete"}

Span == {n \in Int : n >= -1}

Record == [holder: {Name(j) : j \in Jobs} \cup {Gone}, left: Span,
           ver: Nat \ {0}]

ASSUME LeaseAssumption ==
    /\ Gcs \cap Checks = {}
    /\ DOMAIN InstanceOf = Jobs
    /\ Ttl \in [Jobs -> Nat \ {0}]
    /\ MaxVersion \in Nat /\ MaxFaults \in Nat
    /\ None \notin Record
    /\ \A j \in Jobs : Name(j) # Gone

TypeOK ==
    /\ cell \in Record \cup {None}
    /\ pc \in [Jobs -> Steps]
    /\ obs \in [Jobs -> Nat] /\ age \in [Jobs -> Nat] /\ term \in [Jobs -> Span]
    /\ stale \subseteq Jobs
    /\ faults \in Nat /\ timely \in BOOLEAN

Init ==
    /\ cell = None
    /\ pc = [j \in Jobs |-> "idle"]
    /\ obs = [j \in Jobs |-> 0]
    /\ age = [j \in Jobs |-> 1]
    /\ term = [j \in Jobs |-> -1]
    /\ stale = {} /\ faults = 0 /\ timely \in BOOLEAN

Goto(j, step) == pc' = [pc EXCEPT ![j] = step]

-----------------------------------------------------------------------------
(* Starting jobs.                                                          *)

\* A tick of the collection loop at which gc_due holds.
StartGc(j) ==
    /\ j \in Gcs /\ pc[j] = "idle"
    /\ Goto(j, "try")
    /\ UNCHANGED <<cell, obs, age, term, stale, faults>>

\* start_check: refused while any instance has a check task pending or
\* running.
RequestCheck(j) ==
    /\ j \in Checks /\ pc[j] = "idle"
    /\ \A k \in Checks : pc[k] \notin {"try", "write", "hold"}
    /\ Goto(j, "asked")
    /\ UNCHANGED <<cell, obs, age, term, stale, faults>>

\* The task is created, marked running and spawned.
StartCheck(j) ==
    /\ j \in Checks /\ pc[j] = "asked"
    /\ Goto(j, "try")
    /\ UNCHANGED <<cell, obs, age, term, stale, faults>>

\* The check is cancelled, runs out of attempts or meets a permanent error.
\* Its LeaseGuard exists already, and releases the lease when it is dropped.
GiveUp(j) ==
    /\ j \in Checks /\ pc[j] = "try"
    /\ Goto(j, "release")
    /\ UNCHANGED <<cell, obs, age, term, stale, faults>>

-----------------------------------------------------------------------------
(* try_acquire_lease.                                                      *)

\* Mutant: any record may be taken over.
ExpiredAlways(r) == TRUE

\* Mutant: no record expires.
ExpiredNever(r) == FALSE

\* now > renewed_at + ttl_secs.
Expired(r) == r.left < 0

\* A job that did not get the lease: the loop waits for its next tick, a
\* check tries again.
Refused(j) == IF j \in Gcs THEN "idle" ELSE "try"

\* get_versioned, and the decision taken on what it returned.
AcquireRead(j) ==
    /\ pc[j] = "try"
    /\ IF cell = None \/ cell.holder = Name(j) \/ Expired(cell)
         THEN /\ Goto(j, "write")
              /\ obs' = [obs EXCEPT ![j] = IF cell = None THEN 0 ELSE cell.ver]
         ELSE /\ Goto(j, Refused(j))
              /\ UNCHANGED obs
    /\ age' = [age EXCEPT ![j] = 0]
    /\ stale' = stale \ {j}
    /\ UNCHANGED <<cell, term, faults>>

\* Mutant: an unconditional put.
MatchesAlways(j) == TRUE

\* The condition of put_if_version and put_if_absent.
Matches(j) == IF cell = None THEN obs[j] = 0 ELSE obs[j] = cell.ver

\* What is left of the term when the record is written.
Granted(j) == IF age[j] > Ttl[j] THEN -1 ELSE Ttl[j] - age[j]

\* Mutant: versions start at 0.
WriteFromZero(j) ==
    /\ obs[j] < MaxVersion
    /\ cell' = [holder |-> Name(j), left |-> Granted(j), ver |-> obs[j]]

\* Mutant: a write that keeps the version it replaces.
WriteUnversioned(j) ==
    /\ obs[j] < MaxVersion
    /\ cell' = [holder |-> Name(j), left |-> Granted(j),
                ver |-> IF obs[j] = 0 THEN 1 ELSE obs[j]]

\* On success the version is expected_version.unwrap_or(0) + 1.
WriteRecord(j) ==
    /\ obs[j] < MaxVersion
    /\ cell' = [holder |-> Name(j), left |-> Granted(j), ver |-> obs[j] + 1]

\* What the call read is forgotten when it returns.
Forget(j) ==
    /\ obs' = [obs EXCEPT ![j] = 0] /\ age' = [age EXCEPT ![j] = 0]
    /\ stale' = stale \ {j}

\* put_if_version of the renewed record, or put_if_absent of a new one.
AcquireWrite(j) ==
    /\ pc[j] = "write"
    /\ IF Matches(j)
         THEN /\ WriteRecord(j)
              /\ term' = [term EXCEPT ![j] = Granted(j)]
              /\ Goto(j, "hold")
         ELSE /\ Goto(j, Refused(j))
              /\ UNCHANGED <<cell, term>>
    /\ Forget(j)
    /\ UNCHANGED faults

\* A call of the acquisition fails.  The conditional write may have been
\* applied; the job takes the error for a refusal all the same.
AcquireFails(j) ==
    /\ pc[j] \in {"try", "write"}
    /\ faults < MaxFaults
    /\ faults' = faults + 1
    /\ \/ UNCHANGED cell
       \/ pc[j] = "write" /\ Matches(j) /\ WriteRecord(j)
    /\ Goto(j, Refused(j))
    /\ Forget(j)
    /\ UNCHANGED term

-----------------------------------------------------------------------------
(* release_lease.                                                          *)

\* The pass or the check is over.  Most exits of a check mark its task before
\* they release, so the next check may already be asking for the lease.
Done(j) ==
    /\ j \in Jobs /\ pc[j] = "hold"
    /\ Goto(j, "release")
    /\ term' = [term EXCEPT ![j] = -1]
    /\ UNCHANGED <<cell, obs, age, stale, faults>>

\* The record is read; its version is not used.
ReleaseRead(j) ==
    /\ pc[j] = "release"
    /\ Goto(j, IF cell # None /\ cell.holder = Name(j) THEN "delete" ELSE "idle")
    /\ UNCHANGED <<cell, obs, age, term, stale, faults>>

\* Everyone between the read and the write of an acquisition holds a version
\* of a record that no longer exists.
RecordDeleted ==
    /\ cell' = None
    /\ stale' = stale \cup {k \in Jobs : pc[k] = "write" /\ obs[k] > 0}

\* An unconditional delete.
ReleaseDelete(j) ==
    /\ pc[j] = "delete"
    /\ RecordDeleted
    /\ Goto(j, "idle")
    /\ UNCHANGED <<obs, age, term, faults>>

\* A release fails; the error is ignored.  A failed delete may have happened.
ReleaseFails(j) ==
    /\ pc[j] \in {"release", "delete"}
    /\ faults < MaxFaults
    /\ faults' = faults + 1
    /\ Goto(j, "idle")
    /\ \/ UNCHANGED <<cell, stale>>
       \/ pc[j] = "delete" /\ RecordDeleted
    /\ UNCHANGED <<obs, age, term>>

-----------------------------------------------------------------------------

\* An instance dies.  It comes back under a new instance id, so nobody will
\* ever renew the record it leaves.
Crash(i) ==
    /\ faults < MaxFaults
    /\ faults' = faults + 1
    /\ pc' = [j \in Jobs |-> IF InstanceOf[j] = i THEN "idle" ELSE pc[j]]
    /\ cell' = IF \E j \in Jobs : InstanceOf[j] = i /\ cell # None
                                      /\ cell.holder = Name(j)
                 THEN [cell EXCEPT !.holder = Gone] ELSE cell
    /\ obs' = [j \in Jobs |-> IF InstanceOf[j] = i THEN 0 ELSE obs[j]]
    /\ term' = [j \in Jobs |-> IF InstanceOf[j] = i THEN -1 ELSE term[j]]
    /\ stale' = {j \in stale : InstanceOf[j] # i}
    /\ UNCHANGED age

\* Time passes.
Tick ==
    /\ cell' = IF cell = None \/ cell.left < 0 THEN cell
                 ELSE [cell EXCEPT !.left = @ - 1]
    /\ age' = [j \in Jobs |->
                 IF age[j] = 0 \/ (pc[j] = "write" /\ age[j] <= Ttl[j])
                   THEN age[j] + 1 ELSE age[j]]
    /\ term' = [j \in Jobs |-> IF term[j] < 0 THEN -1 ELSE term[j] - 1]
    /\ UNCHANGED <<pc, obs, stale, faults>>

\* What a job does with the lease cell.
LeaseStep(j) ==
    \/ AcquireRead(j) \/ AcquireWrite(j) \/ ReleaseRead(j) \/ ReleaseDelete(j)

\* A garbage collection loop looks at the lease once per tick of its timer.
Rested(j) == age[j] > 0

Work ==
    \/ \E j \in Jobs :
         RequestCheck(j) \/ StartCheck(j) \/ GiveUp(j) \/ LeaseStep(j)
    \/ \E i \in Instances : Crash(i)

\* Any timing, and calls may fail.
AnyNext ==
    \/ Work
    \/ \E j \in Jobs :
         StartGc(j) \/ Done(j) \/ AcquireFails(j) \/ ReleaseFails(j)
    \/ Tick

\* The timing the lease is designed for: the calls of one acquisition or
\* release take no time and do not fail, a job that holds the lease works for
\* at least a tick and finishes within its term.
Prompt ==
    \A j \in Jobs : \/ pc[j] \in {"idle", "asked"}
                    \/ pc[j] = "hold" /\ term[j] > 0

Worked(j) == term[j] < Ttl[j]

TimelyNext ==
    \/ Work
    \/ \E j \in Jobs : (Rested(j) /\ StartGc(j)) \/ (Worked(j) /\ Done(j))
    \/ Prompt /\ Tick

Next ==
    /\ UNCHANGED timely
    /\ \/ timely /\ TimelyNext
       \/ ~timely /\ AnyNext

Spec == Init /\ [][Next]_vars

-----------------------------------------------------------------------------
(* Why the lease works, under the timing it is designed for.               *)

\* One job of a kind per instance: the holder names tell the jobs apart.
DistinctNames == \A j, k \in Jobs : Name(j) = Name(k) => j = k

\* A working job owns the record, for the time it was granted.
HolderOwns ==
    \A j \in Jobs : pc[j] = "hold" =>
      /\ cell # None /\ cell.holder = Name(j)
      /\ cell.left = term[j] /\ term[j] >= 0

\* The record is live and its holder has not released it yet, or its holder
\* is dead.
RecordOwned ==
    cell # None =>
      \/ cell.holder = Gone
      \/ /\ cell.left >= 0
         /\ \E j \in Jobs : /\ cell.holder = Name(j)
                            /\ pc[j] \in {"hold", "release", "delete"}

\* A release that has read its own record still finds it.
DeletesOwn ==
    \A j \in Jobs : pc[j] = "delete" => cell # None /\ cell.holder = Name(j)

\* A job about to take over a record it read as expired: the record has not
\* been deleted since, and if it has been taken over, then only just.
Observed ==
    \A j \in Jobs : pc[j] = "write" =>
      /\ age[j] = 0
      /\ obs[j] > 0 =>
           /\ cell # None /\ obs[j] <= cell.ver
           /\ obs[j] = cell.ver => cell.left < 0
           /\ \A k \in Jobs : cell.holder = Name(k) =>
                pc[k] = "hold" /\ term[k] = Ttl[k]

\* What is inductive while time passes as the lease is designed for.
TimelyInv == TypeOK /\ HolderOwns /\ RecordOwned /\ DeletesOwn /\ Observed
LeaseInv == timely => TimelyInv

\* Under any timing, a version read and not deleted since is still current
\* only if what the job decided on still holds.
DecisionStands ==
    \A j \in Jobs : pc[j] = "write" /\ j \notin stale /\ obs[j] > 0 =>
      /\ cell # None /\ obs[j] <= cell.ver
      /\ obs[j] = cell.ver => cell.holder = Name(j) \/ cell.left < 0

-----------------------------------------------------------------------------
(* Properties.                                                             *)

\* A job works under the lease within the term it was granted.
Holds(j) == pc[j] = "hold" /\ term[j] >= 0

\* At most one holder at a time, under the timing the lease is designed for.
MutualExclusion ==
    timely => \A j, k \in Jobs : Holds(j) /\ Holds(k) => j = k

\* Nobody takes the lease from a live holder: an acquisition decided on a
\* record that still exists wins only if the record is free, its own or
\* expired at the moment of the write, not merely when it was read.
TakesOverOnlyExpired ==
    [][\A j \in Jobs :
         (/\ pc[j] = "write" /\ pc'[j] # "write" /\ j \notin stale
          /\ cell' # cell /\ cell' # None /\ cell'.holder = Name(j))
         => cell = None \/ cell.holder = Name(j) \/ cell.left < 0]_vars

\* Under that timing the collection loops keep ticking, calls return, jobs end, a
\* check makes a bounded number of attempts, time passes.
Timed(A) == timely /\ A /\ UNCHANGED timely
Fairness ==
    /\ \A j \in Jobs :
         /\ WF_vars(Timed(Rested(j) /\ StartGc(j))) /\ WF_vars(Timed(LeaseStep(j)))
         /\ WF_vars(Timed(Worked(j) /\ Done(j)))
         /\ WF_vars(Timed(StartCheck(j))) /\ WF_vars(Timed(GiveUp(j)))
    /\ SF_vars(Timed(Prompt /\ Tick))

LiveSpec == Spec /\ Fairness

\* A lease left behind by a dead instance is taken over.
LeaseRecovered ==
    (timely /\ cell # None /\ cell.holder = Gone) ~> \E j \in Jobs : pc[j] = "hold"
=============================================================================
