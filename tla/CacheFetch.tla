----------------------------- MODULE CacheFetch -----------------------------
(***************************************************************************)
(* A cache repository (core/src/repo/cache.rs) and the map of fetches in   *)
(* flight (core/src/inflight.rs), for one artifact.                        *)
(*                                                                         *)
(* Requests for the artifact run concurrently on several instances, which  *)
(* share the KV record and have a map each.  On a miss the first request   *)
(* of an instance becomes the leader: it holds a guard from before the     *)
(* upstream request until its background task has committed the record.    *)
(* The others wait for the leader's Notify and look at the cache again.    *)
(* The upstream is external: it publishes, withdraws, and is unreachable   *)
(* at times.                                                               *)
(***************************************************************************)
EXTENDS Integers

CONSTANTS
    Gets, Heads,  \* requests, by method
    Instances,
    InstanceOf,   \* the instance that serves a request
    Ttl,          \* cache_ttl_secs; only 0 is special
    MaxVersion,   \* bound: versions published upstream
    MaxFaults,    \* bound: failures and crashes explored
    None

Requests == Gets \cup Heads

Versions == 1..MaxVersion

ASSUME CacheAssumption ==
    /\ Gets \cap Heads = {}
    /\ InstanceOf \in [Requests -> Instances]
    /\ Ttl \in Nat /\ MaxVersion \in Nat /\ MaxFaults \in Nat
    /\ None \notin Requests \cup Versions \cup [ver: Versions, fresh: BOOLEAN]

VARIABLES
    upstream,  \* [ver, state]
    rec,       \* the cached artifact record, or None
    leader,    \* per instance, the request whose key is in the inflight map
    pc,        \* where a request, or its background task, stands
    seen,      \* the version of the expired record a request read, or None
    notify,    \* the leader whose Notify a request got, or None
    woken,     \* requests whose Notified future is ready
    got,       \* the version a leader is fetching, or None
    reply,     \* what the client got: kind and version
    saved,     \* requests whose record was committed
    faults

kv    == <<rec, saved>>
local == <<seen, notify, got>>
vars  == <<upstream, rec, leader, pc, seen, notify, woken, got, reply,
           saved, faults>>

Steps == {"begin", "claim", "recheck", "register", "wait", "reread", "head",
          "fetch", "stream", "commit", "drop", "notify", "end", "done"}

Kinds == {"none", "hit", "stale", "fetched", "streaming", "complete", "broken",
          "missing", "error", "gone"}

TypeOK ==
    /\ upstream \in [ver: 0..MaxVersion, state: {"absent", "present", "down"}]
    /\ upstream.state = "present" => upstream.ver > 0
    /\ rec \in [ver: Versions, fresh: BOOLEAN] \cup {None}
    /\ leader \in [Instances -> Requests \cup {None}]
    /\ pc \in [Requests -> Steps]
    /\ seen \in [Requests -> Versions \cup {None}]
    /\ notify \in [Requests -> Requests \cup {None}]
    /\ woken \subseteq Requests
    /\ got \in [Requests -> Versions \cup {None}]
    /\ reply \in [Requests -> [kind: Kinds, ver: Versions \cup {None}]]
    /\ saved \subseteq Requests
    /\ faults \in Nat

Nothing(kind) == [kind |-> kind, ver |-> None]

Init ==
    /\ upstream = [ver |-> 0, state |-> "absent"]
    /\ rec = None
    /\ leader = [i \in Instances |-> None]
    /\ pc = [r \in Requests |-> "begin"]
    /\ seen = [r \in Requests |-> None]
    /\ notify = [r \in Requests |-> None]
    /\ got = [r \in Requests |-> None]
    /\ reply = [r \in Requests |-> Nothing("none")]
    /\ woken = {} /\ saved = {} /\ faults = 0

Goto(r, step) == pc' = [pc EXCEPT ![r] = step]

Answer(r, kind, ver) == reply' = [reply EXCEPT ![r] = [kind |-> kind, ver |-> ver]]

-----------------------------------------------------------------------------
(* The upstream and the cached record.                                     *)

Publish ==
    /\ upstream.state # "down" /\ upstream.ver < MaxVersion
    /\ upstream' = [ver |-> upstream.ver + 1, state |-> "present"]
    /\ UNCHANGED <<kv, leader, pc, local, woken, reply, faults>>

\* The artifact is withdrawn, or an outage begins or ends.
Turn ==
    /\ \E st \in {"absent", "present", "down"} :
         /\ st = "present" => upstream.ver > 0
         /\ upstream' = [ver |-> upstream.ver, state |-> st]
    /\ UNCHANGED <<kv, leader, pc, local, woken, reply, faults>>

\* now - updated_at reaches cache_ttl_secs.
Expire ==
    /\ rec # None /\ rec.fresh
    /\ rec' = [rec EXCEPT !.fresh = FALSE]
    /\ UNCHANGED <<upstream, saved, leader, pc, local, woken, reply, faults>>

\* The record is deleted by a cleanup policy or through the API.
Evict ==
    /\ rec # None
    /\ rec' = None
    /\ UNCHANGED <<upstream, saved, leader, pc, local, woken, reply, faults>>

-----------------------------------------------------------------------------
(* CacheRepo::get and CacheRepo::head up to the upstream request.          *)

\* cache_ttl_secs == 0 || age < cache_ttl_secs.
Valid(x) == Ttl = 0 \/ x.fresh

\* The cached record is read: a hit, or on to the upstream.
Begin(r) ==
    /\ pc[r] = "begin"
    /\ IF rec # None /\ Valid(rec)
         THEN /\ Answer(r, "hit", rec.ver)
              /\ Goto(r, "done")
              /\ UNCHANGED seen
         ELSE /\ seen' = [seen EXCEPT ![r] = IF rec = None THEN None ELSE rec.ver]
              /\ Goto(r, IF r \in Heads THEN "head" ELSE "claim")
              /\ UNCHANGED reply
    /\ UNCHANGED <<upstream, kv, leader, notify, got, woken, faults>>

\* What a request answers when the upstream has no content for it.
NoContent(r) ==
    IF upstream.state # "down" THEN Answer(r, "missing", None)
    ELSE IF seen[r] # None THEN Answer(r, "stale", seen[r])
    ELSE Answer(r, "error", None)

Available == upstream.state = "present"

\* A HEAD request is passed on, and caches nothing.
HeadUpstream(r) ==
    /\ pc[r] = "head"
    /\ IF Available THEN Answer(r, "fetched", upstream.ver) ELSE NoContent(r)
    /\ Goto(r, "done")
    /\ UNCHANGED <<upstream, kv, leader, local, woken, faults>>

-----------------------------------------------------------------------------
(* InflightMap::try_claim.                                                 *)

Following(r) ==
    /\ notify' = [notify EXCEPT ![r] = leader[InstanceOf[r]]]
    /\ Goto(r, "register")
    /\ UNCHANGED leader

\* Fast path: the snapshot is read without the lock.
ClaimFast(r) ==
    /\ pc[r] = "claim"
    /\ IF leader[InstanceOf[r]] # None
         THEN Following(r)
         ELSE Goto(r, "recheck") /\ UNCHANGED <<leader, notify>>
    /\ UNCHANGED <<upstream, kv, seen, got, woken, reply, faults>>

\* Mutant: the snapshot is not read again under the lock.
ClaimUnchecked(r) ==
    /\ pc[r] = "recheck"
    /\ leader' = [leader EXCEPT ![InstanceOf[r]] = r]
    /\ Goto(r, "fetch")
    /\ UNCHANGED <<upstream, kv, local, woken, reply, faults>>

\* Slow path: under the shard's lock, the snapshot is read again.
ClaimSlow(r) ==
    /\ pc[r] = "recheck"
    /\ IF leader[InstanceOf[r]] # None
         THEN Following(r)
         ELSE /\ leader' = [leader EXCEPT ![InstanceOf[r]] = r]
              /\ Goto(r, "fetch")
              /\ UNCHANGED notify
    /\ UNCHANGED <<upstream, kv, seen, got, woken, reply, faults>>

\* notify.notified(): from here on the follower is woken by notify_waiters.
Register(r) ==
    /\ pc[r] = "register"
    /\ Goto(r, "wait")
    /\ UNCHANGED <<upstream, kv, leader, local, woken, reply, faults>>

Wake(r) ==
    /\ pc[r] = "wait" /\ r \in woken
    /\ Goto(r, "reread")
    /\ UNCHANGED <<upstream, kv, leader, local, woken, reply, faults>>

\* The follower serves what the cache now has, expired or not.
Reread(r) ==
    /\ pc[r] = "reread"
    /\ IF rec # None THEN Answer(r, "hit", rec.ver) ELSE Answer(r, "missing", None)
    /\ Goto(r, "done")
    /\ UNCHANGED <<upstream, kv, leader, local, woken, faults>>

-----------------------------------------------------------------------------
(* The leader and its background task.                                     *)

\* Mutant: the response is not remembered.
FetchForgotten(r) ==
    /\ pc[r] = "fetch" /\ Available
    /\ Answer(r, "streaming", upstream.ver)
    /\ Goto(r, "stream")
    /\ UNCHANGED <<upstream, kv, leader, local, woken, faults>>

\* The upstream answers.  With content, the task is spawned and the client
\* starts to receive; otherwise the handler returns and drops the guard.
Fetch(r) ==
    /\ pc[r] = "fetch"
    /\ IF Available
         THEN /\ got' = [got EXCEPT ![r] = upstream.ver]
              /\ Answer(r, "streaming", upstream.ver)
              /\ Goto(r, "stream")
         ELSE /\ NoContent(r)
              /\ Goto(r, "drop")
              /\ UNCHANGED got
    /\ UNCHANGED <<upstream, kv, leader, seen, notify, woken, faults>>

\* Mutant: the guard is dropped when the response is under way.
StreamEndsUnguarded(r) ==
    /\ pc[r] = "stream"
    /\ Goto(r, "commit")
    /\ leader' = [leader EXCEPT ![InstanceOf[r]] = None]
    /\ UNCHANGED <<upstream, kv, local, woken, reply, faults>>

\* The body has been written and its hash agrees with X-Checksum-Blake3.
StreamEnds(r) ==
    /\ pc[r] = "stream"
    /\ Goto(r, "commit")
    /\ UNCHANGED <<upstream, kv, leader, local, woken, reply, faults>>

\* put_artifact, after the claim of the blob.
Commit(r) ==
    /\ pc[r] = "commit"
    /\ rec' = [ver |-> got[r], fresh |-> TRUE]
    /\ saved' = saved \cup {r}
    /\ Goto(r, "drop")
    /\ UNCHANGED <<upstream, leader, local, woken, reply, faults>>

\* An error in the body, the hash, the blob store or the KV store: the client
\* sees a broken transfer, unless it has gone.
TaskFails(r) ==
    /\ pc[r] \in {"stream", "commit"}
    /\ faults < MaxFaults
    /\ faults' = faults + 1
    /\ IF reply[r].kind = "streaming" THEN Answer(r, "broken", got[r])
                                      ELSE UNCHANGED reply
    /\ Goto(r, "drop")
    /\ UNCHANGED <<upstream, kv, leader, local, woken>>

\* Mutant: the key stays in the map.
DropKeeping(r) ==
    /\ pc[r] = "drop"
    /\ Goto(r, "notify")
    /\ UNCHANGED <<upstream, kv, leader, local, woken, reply, faults>>

\* InflightGuard::drop: the key is removed under the lock...
DropGuard(r) ==
    /\ pc[r] = "drop"
    /\ leader' = [leader EXCEPT ![InstanceOf[r]] = None]
    /\ Goto(r, "notify")
    /\ UNCHANGED <<upstream, kv, local, woken, reply, faults>>

\* ... and then the waiters are woken.
NotifyWaiters(r) ==
    /\ pc[r] = "notify"
    /\ woken' = woken \cup {w \in Requests : pc[w] = "wait" /\ notify[w] = r}
    /\ Goto(r, "end")
    /\ UNCHANGED <<upstream, kv, leader, local, reply, faults>>

\* The channel to the client is closed.
End(r) ==
    /\ pc[r] = "end"
    /\ IF reply[r].kind = "streaming" THEN Answer(r, "complete", got[r])
                                      ELSE UNCHANGED reply
    /\ Goto(r, "done")
    /\ UNCHANGED <<upstream, kv, leader, local, woken, faults>>

-----------------------------------------------------------------------------

\* The client goes away.  A handler is dropped where it awaits, with the guard
\* it may hold; a background task goes on.
Disconnect(r) ==
    /\ reply[r].kind \in {"none", "streaming"}
    /\ pc[r] \in {"head", "wait", "reread", "fetch", "stream", "commit"}
    /\ faults < MaxFaults
    /\ faults' = faults + 1
    /\ Answer(r, "gone", None)
    /\ Goto(r, CASE pc[r] \in {"head", "wait", "reread"} -> "done"
                 [] pc[r] = "fetch" -> "drop"
                 [] OTHER -> pc[r])
    /\ UNCHANGED <<upstream, kv, leader, local, woken>>

\* An instance restarts: its requests, tasks and map are gone.
Crash(i) ==
    /\ faults < MaxFaults
    /\ faults' = faults + 1
    /\ leader' = [leader EXCEPT ![i] = None]
    /\ pc' = [r \in Requests |->
                IF InstanceOf[r] = i /\ pc[r] # "begin" THEN "done" ELSE pc[r]]
    /\ reply' = [r \in Requests |->
                   IF InstanceOf[r] = i /\ pc[r] \notin {"begin", "done"}
                     THEN Nothing("gone") ELSE reply[r]]
    /\ UNCHANGED <<upstream, kv, local, woken>>

Handler(r) ==
    \/ Begin(r) \/ HeadUpstream(r) \/ ClaimFast(r) \/ ClaimSlow(r)
    \/ Register(r) \/ Wake(r) \/ Reread(r) \/ Fetch(r)

Task(r) ==
    StreamEnds(r) \/ Commit(r) \/ DropGuard(r) \/ NotifyWaiters(r) \/ End(r)

Next ==
    \/ Publish \/ Turn \/ Expire \/ Evict
    \/ \E r \in Requests : Handler(r) \/ Task(r) \/ TaskFails(r) \/ Disconnect(r)
    \/ \E i \in Instances : Crash(i)

Spec == Init /\ [][Next]_vars

\* Handlers and tasks run on.  Assumed of the environment: the upstream answers
\* or breaks the connection (no timeout bounds the wait), and clients read what
\* they are sent.
Fairness == \A r \in Requests : WF_vars(Handler(r)) /\ WF_vars(Task(r))

FairSpec == Spec /\ Fairness

-----------------------------------------------------------------------------
(* Properties.                                                             *)

Leading == {"fetch", "stream", "commit", "drop"}

\* The map names exactly the request of the instance that is fetching: "only
\* one caller fetches from upstream per (repo, path)".
OneFetch ==
    \A r \in Requests : pc[r] \in Leading <=> leader[InstanceOf[r]] = r

\* The cache never replaces a version by an older one, because the guard is
\* held until the commit.
NeverGoesBack ==
    [][rec # None /\ rec' # None => rec'.ver >= rec.ver]_vars

\* "The client stream only completes successfully after the KV commit
\* succeeds."
CompleteIsSaved ==
    \A r \in Requests : reply[r].kind = "complete" => r \in saved

\* Whoever still receives is served by a task that has not failed, and that
\* has committed before it drops the guard.
StreamBacked ==
    \A r \in Requests : reply[r].kind = "streaming" =>
      \/ pc[r] \in {"stream", "commit"}
      \/ pc[r] \in {"drop", "notify", "end"} /\ r \in saved

\* With one instance, the version being fetched is at least as new as the
\* cached one, and neither is ahead of the upstream.
FetchIsNewest ==
    /\ rec # None => rec.ver <= upstream.ver
    /\ \A r \in Requests : pc[r] \in {"stream", "commit"} =>
         /\ got[r] <= upstream.ver
         /\ rec # None => rec.ver <= got[r]

\* A leader that streams or commits has a version.
Fetched == \A r \in Requests : pc[r] \in {"stream", "commit"} => got[r] # None

OneInstanceOnly == \A r, s \in Requests : InstanceOf[r] = InstanceOf[s]

\* The inductive invariant.
CacheInv ==
    /\ TypeOK /\ Fetched /\ OneFetch /\ StreamBacked /\ CompleteIsSaved
    /\ OneInstanceOnly => FetchIsNewest

\* A key does not stay in the map.
KeyReleased ==
    \A i \in Instances : leader[i] # None ~> leader[i] = None

\* Every request is answered.
Answered ==
    \A r \in Requests : pc[r] = "wait" ~> pc[r] = "done"
=============================================================================
