------------------------------- MODULE Server -------------------------------
(***************************************************************************)
(* What the control plane of an instance works on: the records in the      *)
(* shared key-value store, the memory of each instance (caches, secrets,   *)
(* loaded stores, its copy of the data model and the inboxes of those who  *)
(* listen to its event bus) and the requests under way.                    *)
(*                                                                         *)
(* A handler is a sequence of steps, one for each read or write of the     *)
(* store that others can observe; most write a record and announce it on   *)
(* the event bus of their own instance afterwards.                         *)
(***************************************************************************)
EXTENDS Integers, Sequences, FiniteSets

CONSTANTS
    Insts, Home,          \* instances; the one the browser is connected to, whose copy
                          \* of the data model is looked at (copies are independent)
    Repos, Stores, Users, Paths,
    Normal,               \* a path with a double slash -> what it should be
    chart_path,           \* the legacy path of a Helm chart -> its path
    ManifestOf,           \* the path of a Docker tag -> that of its manifest
    Role,                 \* a role besides "admin"
    Under,                \* the paths under the directory that is deleted in bulk
    Reqs, Ask,            \* requests; [kind, inst, as, on, to] of each
    PermKinds, OwnKinds,  \* kinds that a role may grant; that one may ask about oneself
    RingCap,              \* capacity of the broadcast ring of an event bus
    MaxFaults,
    None


VARIABLES
    kv,       \* repos, stores, users, role, arts, tree, blobs, recs (of blobs), stale
              \* (Helm indices), jwt, settings, tasks
    mem,      \* instance -> users, roles, verified (caches), jwt, settings, refresh, stores
    reqs,     \* requests under way
    drain,    \* worker -> [repo, pc, todo] of its drain of deleted repositories
    mat,      \* instance -> [pc, model, got, batch, inbox] of the materializer
    scan,     \* instance -> [seen, got] of the state scanner
    client,   \* [pc, view, inbox, sure] of the browser; not sure when it
              \* may have missed what was published as it connected
    ports,    \* instance -> Docker listeners that run: repository -> address
    parts,    \* the background work of this workload
    faults,   \* how many are left
    risk      \* what happened that a promise made below excepts

live == <<mat, scan, client>>
vars == <<kv, mem, reqs, drain, live, ports, parts, faults, risk>>

\* What events are about; a task is named by the request that began it.
Tasks == DOMAIN kv.tasks
Things == Repos \cup Stores \cup Users \cup Tasks

\* Who drains deleted repositories: the cleanup loop of each instance, and the
\* collector in its passes.
Drainers == Insts \cup {"gc"}
NoDrain == [repo |-> None, pc |-> "idle", todo |-> {}]

Tags == DOMAIN ManifestOf
OddPaths == Tags \cup DOMAIN Normal \cup DOMAIN chart_path

-----------------------------------------------------------------------------
(* Requests.                                                               *)

Empty == [x \in {} |-> None]
Put(f, k, v) == [x \in DOMAIN f \cup {k} |-> IF x = k THEN v ELSE f[x]]
Drop(f, k) == [x \in DOMAIN f \ {k} |-> f[x]]
Start(r) == [ask |-> Ask[r], pc |-> "start", who |-> None, got |-> None, todo |-> <<>>, ev |-> <<>>, answer |-> None]
Kind(r) == reqs[r].ask.kind
Where(r) == reqs[r].ask.inst
Inst(r) == mem[Where(r)]
As(r) == reqs[r].ask.as
On(r) == reqs[r].ask.on
To(r) == reqs[r].ask.to
At(r, pc) == reqs[r].pc = pc
Goto(r, pc) == reqs' = [reqs EXCEPT ![r].pc = pc]
Keep(r, pc, got) == reqs' = [reqs EXCEPT ![r].pc = pc, ![r].got = got]
Answered(r, what, got) == [reqs[r] EXCEPT !.pc = "done", !.who = None, !.got = got, !.todo = <<>>, !.ev = <<>>, !.answer = what]
Reply(r, what) == reqs' = [reqs EXCEPT ![r] = Answered(r, what, None)]
Done(r) == At(r, "done") /\ reqs[r].answer = "ok"
Busy == {r \in DOMAIN reqs : reqs[r].pc \notin {"start", "done"}}
Rest == \A r \in DOMAIN reqs : At(r, "done")
Risk(tags) == risk' = risk \cup tags
Aside == UNCHANGED <<drain, live, ports, parts, faults>>
Kept == UNCHANGED mem /\ Aside

\* A role record is "grants", "denies" or None.
\* Who asks: what the caches of the instance have of the user and of the role,
\* if the kind of request needs it and the user has it, or what was looked up.
NeedsRole(r, u) == Kind(r) \in PermKinds /\ u # None /\ Role \in u.roles
CachedUser(r) == As(r) \in DOMAIN Inst(r).users
Resolved(r) ==
    \/ At(r, "go")
    \/ At(r, "start") /\ CachedUser(r) /\ (NeedsRole(r, Inst(r).users[As(r)]) => Role \in DOMAIN Inst(r).roles)
Who(r) ==
    IF At(r, "go") THEN reqs[r].who
    ELSE LET u == Inst(r).users[As(r)] IN [user |-> u, role |-> IF NeedsRole(r, u) THEN Inst(r).roles[Role] ELSE None]
Asks(r, kind) == Kind(r) = kind /\ Resolved(r)

\* Only admins get past the first line of most handlers.
is_admin(u) == u # None /\ "admin" \in u.roles
require_admin(r) == is_admin(Who(r).user)

\* Requests that change the same files at the same time.
FileKinds == {"put", "delete", "bulk_delete", "clone_repo", "clean", "check"}
Touched(q) == IF Kind(q) \in {"clone_repo", "clean", "check"} THEN Paths \cup OddPaths ELSE IF Kind(q) = "bulk_delete" THEN Under ELSE {To(q)}
Overlap(r) == IF \E q \in Busy \ {r} : Kind(q) \in FileKinds /\ Touched(q) \cap Touched(r) # {} THEN {"overlap"} ELSE {}

\* Integrity checks that hold the lease, and whether one may have listed the
\* stores or read a repository before what is written now.
Leased == {q \in Busy : Kind(q) = "check" /\ reqs[q].pc \notin {"chk_create", "lease"}}
During == IF \E q \in Leased : reqs[q].pc \notin {"chk_repos", "chk_stores"} THEN {"during_check"} ELSE {}

-----------------------------------------------------------------------------
(* Records.                                                                *)

\* get_repo and list_repos hide a repository that is being deleted.
Shows(rec) == rec # None /\ ~rec.deleting
get_repo(n) == IF Shows(kv.repos[n]) THEN kv.repos[n] ELSE None
list_repos == {n \in Repos : Shows(kv.repos[n])}

\* The repository is the one that a file was meant for.
Meant(g) == Shows(kv.repos[g.repo]) /\ kv.repos[g.repo].made = g.in

\* The records or entries at a path.
Of(set, n, p) == {x \in set : x.repo = n /\ x.path = p}

\* Who wrote the record one sees of a thing.
Version(t) ==
    IF t \in Repos THEN IF Shows(kv.repos[t]) THEN kv.repos[t].by ELSE None
    ELSE IF t \in Stores THEN kv.stores[t]
    ELSE IF t \in Users THEN IF kv.users[t] = None THEN None ELSE kv.users[t].by
    ELSE kv.tasks[t]

-----------------------------------------------------------------------------
(* The event bus: a ring from which every subscriber reads at its own pace. *)

Event(op, t, v) == [op |-> op, on |-> t, val |-> v]
NoInbox == [q |-> <<>>, lag |-> FALSE]
\* Mutant: the ring grows.
ReceivedAll(box, evs) == [q |-> box.q \o evs, lag |-> box.lag]
Received(box, evs) ==
    LET q == box.q \o evs
    IN IF Len(q) > RingCap THEN [q |-> SubSeq(q, Len(q) - RingCap + 1, Len(q)), lag |-> TRUE]
       ELSE [q |-> q, lag |-> box.lag]

publish(i, evs) ==
    /\ mat' = IF mat[i].pc = "down" THEN mat ELSE [mat EXCEPT ![i].inbox = Received(@, evs)]
    /\ client' = IF i # Home \/ client.pc = "off" THEN client
                 ELSE IF client.pc = "on" THEN [client EXCEPT !.inbox = Received(@, evs)]
                 ELSE [client EXCEPT !.sure = FALSE]

\* An event that is not so any more may follow the one that undid it.
Reversed(evs) ==
    IF \E k \in DOMAIN evs : (evs[k].op = "deleted") = (Version(evs[k].on) # None) THEN {"reversed"} ELSE {}

\* The last thing a handler does: the instance forgets what it has cached of a
\* user whose record was written, and publishes.
invalidate_user(m, u) == [m EXCEPT !.users = Drop(@, u), !.verified = Drop(@, u)]
Announce(r) ==
    /\ At(r, "announce")
    /\ LET users == {reqs[r].ev[k].on : k \in DOMAIN reqs[r].ev} \cap Users
       IN mem' = IF users = {} \/ Kind(r) = "post_restore" THEN mem
                 ELSE [mem EXCEPT ![Where(r)] = invalidate_user(@, CHOOSE u \in users : TRUE)]
    /\ publish(Where(r), reqs[r].ev)
    /\ Risk(Reversed(reqs[r].ev))
    /\ IF Kind(r) = "post_restore" THEN Goto(r, "restore") ELSE Reply(r, "ok")
    /\ UNCHANGED <<kv, drain, scan, ports, parts, faults>>

\* A record is written; what is to be announced of it comes next.
Written(r, op, t) ==
    reqs' = [reqs EXCEPT ![r].pc = "announce", ![r].got = None, ![r].ev = <<Event(op, t, r)>>]

\* An instance, or the connection of the client, is lost with the request.
Stops(r) ==
    /\ faults > 0 /\ faults' = faults - 1
    /\ r \in Busy
    /\ Reply(r, None)
    /\ Risk({"stopped"})
    /\ UNCHANGED <<kv, mem, drain, live, ports, parts>>
=============================================================================
