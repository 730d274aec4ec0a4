-------------------------- MODULE CacheFetchProofs --------------------------
(***************************************************************************)
(* Proofs about CacheFetch, for any requests, instances, versions and      *)
(* failures.  CacheInv is inductive: the inflight map names the request    *)
(* that is fetching (OneFetch), so with one instance nobody else commits   *)
(* between a fetch and its own commit (FetchIsNewest); and a client still  *)
(* receiving after the guard is dropped has been served what was committed *)
(* (StreamBacked).                                                         *)
(***************************************************************************)
EXTENDS CacheFetch, TLAPS

USE CacheAssumption

\* The initial state: nothing cached, nobody fetching.
LEMMA CacheInit == Init => CacheInv
<1> SUFFICES ASSUME Init PROVE CacheInv
  OBVIOUS
<1>1. /\ pc \in [Requests -> Steps]
      /\ reply \in [Requests -> [kind: Kinds, ver: Versions \cup {None}]]
      /\ \A r \in Requests : pc[r] = "begin" /\ reply[r].kind = "none"
  BY DEF Init, Steps, Kinds, Nothing
<1>2. upstream \in [ver: 0..MaxVersion, state: {"absent", "present", "down"}]
  BY DEF Init
<1>3. TypeOK
  BY <1>1, <1>2 DEF Init, TypeOK
<1>4. OneFetch
  BY <1>1 DEF Init, OneFetch, Leading
<1> QED
  BY <1>1, <1>3, <1>4 DEF Init, CacheInv, StreamBacked, CompleteIsSaved,
     FetchIsNewest, Fetched

\* An answer is well typed.
LEMMA AnswerType ==
  ASSUME TypeOK, NEW r \in Requests, NEW kind \in Kinds,
         NEW ver \in Versions \cup {None}, Answer(r, kind, ver)
  PROVE  /\ reply' \in [Requests -> [kind: Kinds, ver: Versions \cup {None}]]
         /\ reply'[r].kind = kind
         /\ \A s \in Requests \ {r} : reply'[s] = reply[s]
  BY DEF TypeOK, Answer

\* What a reachable or unreachable upstream without content makes of a reply.
LEMMA NoContentReply ==
  ASSUME TypeOK, NEW r \in Requests, NoContent(r)
  PROVE  /\ reply' \in [Requests -> [kind: Kinds, ver: Versions \cup {None}]]
         /\ reply'[r].kind \in {"missing", "stale", "error"}
         /\ \A s \in Requests \ {r} : reply'[s] = reply[s]
<1>1. seen[r] \in Versions \cup {None} /\ {"missing", "stale", "error"} \subseteq Kinds
  BY DEF TypeOK, Kinds
<1>2. \E kind \in {"missing", "stale", "error"}, ver \in Versions \cup {None} :
        Answer(r, kind, ver)
  BY <1>1 DEF NoContent
<1> QED
  BY <1>1, <1>2, AnswerType

\* The upstream changes, the record expires or is evicted.
LEMMA EnvironmentStep ==
  ASSUME CacheInv, Publish \/ Turn \/ Expire \/ Evict
  PROVE  CacheInv'
<1>1. UNCHANGED <<leader, pc, seen, notify, woken, got, reply, saved, faults>>
  BY DEF Publish, Turn, Expire, Evict, kv, local
<1>2. /\ upstream' \in [ver: 0..MaxVersion, state: {"absent", "present", "down"}]
      /\ upstream'.state = "present" => upstream'.ver > 0
      /\ upstream'.ver >= upstream.ver
  <2>1. upstream.ver \in 0..MaxVersion
    BY DEF CacheInv, TypeOK
  <2>2. CASE Publish
    BY <2>1, <2>2 DEF Publish
  <2>3. CASE Turn
    BY <2>1, <2>3 DEF Turn
  <2>4. CASE Expire \/ Evict
    BY <2>4 DEF CacheInv, TypeOK, Expire, Evict
  <2> QED
    BY <2>1, <2>2, <2>3, <2>4
<1>3. /\ rec' \in [ver: Versions, fresh: BOOLEAN] \cup {None}
      /\ rec' # None => rec # None /\ rec'.ver = rec.ver
  BY DEF CacheInv, TypeOK, Publish, Turn, Expire, Evict, kv
<1>4. TypeOK'
  BY <1>1, <1>2, <1>3 DEF CacheInv, TypeOK
<1>5. OneFetch' /\ StreamBacked' /\ CompleteIsSaved' /\ Fetched'
  BY <1>1 DEF CacheInv, OneFetch, StreamBacked, CompleteIsSaved, Fetched
<1>6. ASSUME OneInstanceOnly PROVE FetchIsNewest'
  <2>1. \A v \in Versions : v <= upstream.ver => v <= upstream'.ver
    BY <1>2 DEF CacheInv, TypeOK, Versions
  <2>2. \A r \in Requests : pc[r] \in {"stream", "commit"} => got[r] \in Versions
    BY DEF CacheInv, TypeOK, Fetched
  <2>3. rec # None => rec.ver \in Versions
    BY DEF CacheInv, TypeOK
  <2> QED
    BY <1>1, <1>3, <1>6, <2>1, <2>2, <2>3 DEF CacheInv, FetchIsNewest
<1> QED
  BY <1>4, <1>5, <1>6 DEF CacheInv

\* A handler step outside the fetch: it reads, waits or answers.
LEMMA QuietStep ==
  ASSUME CacheInv, NEW r \in Requests,
         \/ Begin(r) \/ HeadUpstream(r) \/ ClaimFast(r) \/ Register(r)
         \/ Wake(r) \/ Reread(r)
  PROVE  CacheInv'
<1>1. /\ UNCHANGED <<upstream, rec, leader, woken, got, saved, faults>>
  BY DEF CacheInv, TypeOK, Begin, HeadUpstream, ClaimFast, Register, Wake, Reread,
     kv, local, Following
<1>2. /\ pc' \in [Requests -> Steps] /\ \A s \in Requests \ {r} : pc'[s] = pc[s]
      /\ pc[r] \in {"begin", "head", "claim", "register", "wait", "reread"}
      /\ pc'[r] \in {"head", "claim", "recheck", "register", "wait", "reread", "done"}
  BY DEF CacheInv, TypeOK, Begin, HeadUpstream, ClaimFast, Register, Wake, Reread,
     Following, Goto, Steps
<1>3. /\ seen' \in [Requests -> Versions \cup {None}]
      /\ notify' \in [Requests -> Requests \cup {None}]
  BY DEF CacheInv, TypeOK, Begin, HeadUpstream, ClaimFast, Register, Wake, Reread,
     Following, local
<1>4. /\ reply' \in [Requests -> [kind: Kinds, ver: Versions \cup {None}]]
      /\ \A s \in Requests \ {r} : reply'[s] = reply[s]
      /\ reply'[r] = reply[r] \/ reply'[r].kind \notin {"streaming", "complete"}
  <2>1. CASE Begin(r)
    BY <2>1 DEF CacheInv, TypeOK, Begin, Answer, Kinds
  <2>2. CASE HeadUpstream(r)
    <3>1. CASE Available
      <4>1. upstream.ver \in Versions
        BY <3>1 DEF CacheInv, TypeOK, Available, Versions
      <4> QED
        BY <2>2, <3>1, <4>1 DEF CacheInv, TypeOK, HeadUpstream, Answer, Kinds
    <3>2. CASE ~Available
      BY <2>2, <3>2, NoContentReply DEF CacheInv, HeadUpstream
    <3> QED
      BY <3>1, <3>2
  <2>3. CASE Reread(r)
    BY <2>3 DEF CacheInv, TypeOK, Reread, Answer, Kinds
  <2>4. CASE ClaimFast(r) \/ Register(r) \/ Wake(r)
    BY <2>4 DEF CacheInv, TypeOK, ClaimFast, Register, Wake
  <2> QED
    BY <2>1, <2>2, <2>3, <2>4
<1>5. TypeOK'
  BY <1>1, <1>2, <1>3, <1>4 DEF CacheInv, TypeOK
<1>6. OneFetch' /\ Fetched'
  BY <1>1, <1>2 DEF CacheInv, OneFetch, Fetched, Leading
<1>7. StreamBacked' /\ CompleteIsSaved'
  BY <1>1, <1>2, <1>4 DEF CacheInv, StreamBacked, CompleteIsSaved
<1>8. OneInstanceOnly => FetchIsNewest'
  BY <1>1, <1>2 DEF CacheInv, FetchIsNewest
<1> QED
  BY <1>5, <1>6, <1>7, <1>8 DEF CacheInv

\* Leader election: the key is absent, so nobody of this instance is fetching.
LEMMA ClaimSlowStep ==
  ASSUME CacheInv, NEW r \in Requests, ClaimSlow(r)
  PROVE  CacheInv'
<1> DEFINE i == InstanceOf[r]
<1>1. /\ UNCHANGED <<upstream, rec, seen, woken, got, reply, saved, faults>>
      /\ \A s \in Requests \ {r} : pc'[s] = pc[s]
      /\ pc[r] = "recheck" /\ pc'[r] \in {"register", "fetch"}
  BY DEF CacheInv, TypeOK, ClaimSlow, kv, local, Following, Goto
<1>2. TypeOK'
  <2>0. \E step \in {"register", "fetch"} : pc' = [pc EXCEPT ![r] = step]
    BY DEF ClaimSlow, Following, Goto
  <2>1. pc' \in [Requests -> Steps]
    BY <2>0 DEF CacheInv, TypeOK, Steps
  <2>3. leader' = leader \/ leader' = [leader EXCEPT ![i] = r]
    BY DEF ClaimSlow, Following
  <2>4. leader' \in [Instances -> Requests \cup {None}]
    BY <2>3 DEF CacheInv, TypeOK
  <2>2. notify' \in [Requests -> Requests \cup {None}]
    BY DEF CacheInv, TypeOK, ClaimSlow, Following
  <2> QED
    BY <1>1, <2>1, <2>2, <2>4 DEF CacheInv, TypeOK
<1>3. OneFetch'
  <2>1. CASE leader[i] # None
    BY <1>1, <2>1 DEF CacheInv, TypeOK, OneFetch, Leading, ClaimSlow, Following, Goto
  <2>2. CASE leader[i] = None
    <3>1. /\ leader'[i] = r /\ \A j \in Instances \ {i} : leader'[j] = leader[j]
          /\ pc'[r] = "fetch" /\ i \in Instances
      BY <2>2 DEF CacheInv, TypeOK, ClaimSlow, Goto
    <3>2. \A s \in Requests \ {r} :
            InstanceOf[s] = i => pc[s] \notin Leading /\ leader'[i] # s
      BY <2>2, <3>1 DEF CacheInv, OneFetch
    <3>3. \A s \in Requests \ {r} : InstanceOf[s] # i =>
            leader'[InstanceOf[s]] = leader[InstanceOf[s]]
      BY <3>1
    <3> QED
      BY <1>1, <3>1, <3>2, <3>3 DEF CacheInv, OneFetch, Leading
  <2> QED
    BY <2>1, <2>2
<1>4. StreamBacked' /\ CompleteIsSaved' /\ Fetched'
  BY <1>1 DEF CacheInv, StreamBacked, CompleteIsSaved, Fetched
<1>5. OneInstanceOnly => FetchIsNewest'
  BY <1>1 DEF CacheInv, FetchIsNewest
<1> QED
  BY <1>2, <1>3, <1>4, <1>5 DEF CacheInv

\* The leader asks the upstream: what it gets is as new as anything cached.
LEMMA FetchStep ==
  ASSUME CacheInv, NEW r \in Requests, Fetch(r)
  PROVE  CacheInv'
<1>1. /\ UNCHANGED <<upstream, rec, leader, seen, notify, woken, saved, faults>>
      /\ pc' \in [Requests -> Steps] /\ \A s \in Requests \ {r} : pc'[s] = pc[s]
      /\ pc[r] = "fetch" /\ pc'[r] \in {"stream", "drop"}
  BY DEF CacheInv, TypeOK, Fetch, kv, Goto, Steps
<1>2. OneFetch'
  BY <1>1 DEF CacheInv, OneFetch, Leading
<1>3. CASE Available
  <2>1. upstream.ver \in Versions
    BY <1>3 DEF CacheInv, TypeOK, Available, Versions
  <2>2. /\ got' = [got EXCEPT ![r] = upstream.ver]
        /\ pc'[r] = "stream" /\ Answer(r, "streaming", upstream.ver)
    BY <1>3 DEF CacheInv, TypeOK, Fetch, Goto
  <2>3. /\ reply' \in [Requests -> [kind: Kinds, ver: Versions \cup {None}]]
        /\ reply'[r].kind = "streaming"
        /\ \A s \in Requests \ {r} : reply'[s] = reply[s]
    BY <2>1, <2>2 DEF CacheInv, TypeOK, Answer, Kinds
  <2>4. /\ got' \in [Requests -> Versions \cup {None}] /\ got'[r] = upstream.ver
        /\ \A s \in Requests \ {r} : got'[s] = got[s]
    BY <2>1, <2>2 DEF CacheInv, TypeOK
  <2>5. TypeOK' /\ Fetched'
    BY <1>1, <2>1, <2>3, <2>4 DEF CacheInv, TypeOK, Fetched
  <2>6. StreamBacked' /\ CompleteIsSaved'
    BY <1>1, <2>2, <2>3 DEF CacheInv, StreamBacked, CompleteIsSaved
  <2>7. OneInstanceOnly => FetchIsNewest'
    BY <1>1, <2>1, <2>4 DEF CacheInv, FetchIsNewest, Versions
  <2> QED
    BY <1>2, <2>5, <2>6, <2>7 DEF CacheInv
<1>4. CASE ~Available
  <2>1. UNCHANGED got /\ pc'[r] = "drop" /\ NoContent(r)
    BY <1>4 DEF CacheInv, TypeOK, Fetch, Goto
  <2>2. /\ reply' \in [Requests -> [kind: Kinds, ver: Versions \cup {None}]]
        /\ reply'[r].kind \in {"missing", "stale", "error"}
        /\ \A s \in Requests \ {r} : reply'[s] = reply[s]
    BY <2>1, NoContentReply DEF CacheInv
  <2>3. TypeOK' /\ Fetched'
    BY <1>1, <2>1, <2>2 DEF CacheInv, TypeOK, Fetched
  <2>4. StreamBacked' /\ CompleteIsSaved'
    BY <1>1, <2>2 DEF CacheInv, StreamBacked, CompleteIsSaved
  <2>5. OneInstanceOnly => FetchIsNewest'
    BY <1>1, <2>1 DEF CacheInv, FetchIsNewest
  <2> QED
    BY <1>2, <2>3, <2>4, <2>5 DEF CacheInv
<1> QED
  BY <1>3, <1>4

\* The end of the body leaves the record and the map alone.
LEMMA StreamEndsStep ==
  ASSUME CacheInv, NEW r \in Requests, StreamEnds(r)
  PROVE  CacheInv'
<1>1. /\ UNCHANGED <<upstream, rec, leader, seen, notify, woken, got, reply,
                    saved, faults>>
      /\ pc' \in [Requests -> Steps] /\ \A s \in Requests \ {r} : pc'[s] = pc[s]
      /\ pc[r] = "stream" /\ pc'[r] = "commit"
  BY DEF CacheInv, TypeOK, StreamEnds, kv, local, Goto, Steps
<1>2. TypeOK' /\ Fetched' /\ OneFetch'
  BY <1>1 DEF CacheInv, TypeOK, Fetched, OneFetch, Leading
<1>3. StreamBacked' /\ CompleteIsSaved'
  BY <1>1 DEF CacheInv, StreamBacked, CompleteIsSaved
<1>4. OneInstanceOnly => FetchIsNewest'
  BY <1>1 DEF CacheInv, FetchIsNewest
<1> QED
  BY <1>2, <1>3, <1>4 DEF CacheInv

\* Two requests of one instance do not fetch at the same time.
LEMMA LeadersApart ==
  ASSUME CacheInv, OneInstanceOnly, NEW r \in Requests, NEW s \in Requests,
         pc[r] \in Leading, pc[s] \in Leading
  PROVE  r = s
  BY DEF CacheInv, OneFetch, OneInstanceOnly

\* The commit writes what the leader fetched.
LEMMA CommitStep ==
  ASSUME CacheInv, NEW r \in Requests, Commit(r)
  PROVE  CacheInv'
<1>1. /\ UNCHANGED <<upstream, leader, seen, notify, woken, got, reply, faults>>
      /\ pc' \in [Requests -> Steps] /\ \A s \in Requests \ {r} : pc'[s] = pc[s]
      /\ pc[r] = "commit" /\ pc'[r] = "drop"
      /\ saved' = saved \cup {r}
  BY DEF CacheInv, TypeOK, Commit, local, Goto, Steps
<1>2. /\ rec' \in [ver: Versions, fresh: BOOLEAN] /\ rec' # None
      /\ rec'.ver = got[r] /\ got[r] \in Versions
  <2>1. got[r] \in Versions
    BY <1>1 DEF CacheInv, TypeOK, Fetched
  <2>2. rec' = [ver |-> got[r], fresh |-> TRUE]
    BY DEF Commit
  <2>3. rec' \in [ver: Versions, fresh: BOOLEAN]
    BY <2>1, <2>2
  <2> QED
    BY <2>1, <2>2, <2>3
<1>3. TypeOK' /\ Fetched' /\ OneFetch'
  BY <1>1, <1>2 DEF CacheInv, TypeOK, Fetched, OneFetch, Leading
<1>4. StreamBacked' /\ CompleteIsSaved'
  BY <1>1 DEF CacheInv, StreamBacked, CompleteIsSaved
<1>5. ASSUME OneInstanceOnly PROVE FetchIsNewest'
  <2>1. \A s \in Requests : pc'[s] \notin {"stream", "commit"}
    BY <1>1, <1>5, LeadersApart DEF Leading
  <2> QED
    BY <1>1, <1>2, <1>5, <2>1 DEF CacheInv, FetchIsNewest
<1> QED
  BY <1>3, <1>4, <1>5 DEF CacheInv

\* A failed task tells the client and drops the guard.
LEMMA TaskFailsStep ==
  ASSUME CacheInv, NEW r \in Requests, TaskFails(r)
  PROVE  CacheInv'
<1>1. /\ UNCHANGED <<upstream, rec, leader, seen, notify, woken, got, saved>>
      /\ pc' \in [Requests -> Steps] /\ \A s \in Requests \ {r} : pc'[s] = pc[s]
      /\ pc[r] \in {"stream", "commit"} /\ pc'[r] = "drop" /\ faults' \in Nat
  BY DEF CacheInv, TypeOK, TaskFails, kv, local, Goto, Steps
<1>2. /\ reply' \in [Requests -> [kind: Kinds, ver: Versions \cup {None}]]
      /\ \A s \in Requests \ {r} : reply'[s] = reply[s]
      /\ reply'[r].kind # "streaming"
      /\ reply'[r].kind = "complete" => reply[r].kind = "complete"
  <2>1. CASE reply[r].kind = "streaming"
    <3>1. got[r] \in Versions \cup {None} /\ "broken" \in Kinds
      BY DEF CacheInv, TypeOK, Kinds
    <3> QED
      BY <2>1, <3>1, AnswerType DEF CacheInv, TaskFails
  <2>2. CASE reply[r].kind # "streaming"
    BY <2>2 DEF CacheInv, TypeOK, TaskFails
  <2> QED
    BY <2>1, <2>2
<1>3. TypeOK' /\ Fetched' /\ OneFetch'
  BY <1>1, <1>2 DEF CacheInv, TypeOK, Fetched, OneFetch, Leading
<1>4. StreamBacked' /\ CompleteIsSaved'
  BY <1>1, <1>2 DEF CacheInv, StreamBacked, CompleteIsSaved
<1>5. OneInstanceOnly => FetchIsNewest'
  BY <1>1 DEF CacheInv, FetchIsNewest
<1> QED
  BY <1>3, <1>4, <1>5 DEF CacheInv

\* Dropping the guard removes the leader's own key.
LEMMA DropGuardStep ==
  ASSUME CacheInv, NEW r \in Requests, DropGuard(r)
  PROVE  CacheInv'
<1> DEFINE i == InstanceOf[r]
<1>1. /\ UNCHANGED <<upstream, rec, seen, notify, woken, got, reply, saved,
                    faults>>
      /\ pc' \in [Requests -> Steps] /\ \A s \in Requests \ {r} : pc'[s] = pc[s]
      /\ pc[r] = "drop" /\ pc'[r] = "notify"
      /\ leader' = [leader EXCEPT ![i] = None]
  BY DEF CacheInv, TypeOK, DropGuard, kv, local, Goto, Steps
<1>2. leader[i] = r
  BY <1>1 DEF CacheInv, OneFetch, Leading
<1>3. TypeOK' /\ Fetched'
  BY <1>1 DEF CacheInv, TypeOK, Fetched
<1>4. OneFetch'
  BY <1>1, <1>2 DEF CacheInv, TypeOK, OneFetch, Leading
<1>5. StreamBacked' /\ CompleteIsSaved'
  BY <1>1 DEF CacheInv, StreamBacked, CompleteIsSaved
<1>6. OneInstanceOnly => FetchIsNewest'
  BY <1>1 DEF CacheInv, FetchIsNewest
<1> QED
  BY <1>3, <1>4, <1>5, <1>6 DEF CacheInv

\* Waking the followers and closing the channel.
LEMMA FinishStep ==
  ASSUME CacheInv, NEW r \in Requests, NotifyWaiters(r) \/ End(r)
  PROVE  CacheInv'
<1>1. /\ UNCHANGED <<upstream, rec, leader, seen, notify, got, saved, faults>>
      /\ pc' \in [Requests -> Steps] /\ \A s \in Requests \ {r} : pc'[s] = pc[s]
      /\ \/ pc[r] = "notify" /\ pc'[r] = "end" /\ UNCHANGED reply
         \/ pc[r] = "end" /\ pc'[r] = "done"
      /\ woken' \subseteq Requests
  BY DEF CacheInv, TypeOK, NotifyWaiters, End, kv, local, Goto, Steps
<1>2. /\ reply' \in [Requests -> [kind: Kinds, ver: Versions \cup {None}]]
      /\ \A s \in Requests \ {r} : reply'[s] = reply[s]
      /\ pc[r] = "end" => reply'[r].kind # "streaming"
      /\ reply'[r].kind = "complete" => reply[r].kind \in {"streaming", "complete"}
  <2>1. CASE End(r) /\ reply[r].kind = "streaming"
    <3>1. got[r] \in Versions \cup {None} /\ "complete" \in Kinds
      BY DEF CacheInv, TypeOK, Kinds
    <3> QED
      BY <2>1, <3>1, AnswerType DEF CacheInv, End
  <2>2. CASE End(r) /\ reply[r].kind # "streaming"
    BY <2>2 DEF CacheInv, TypeOK, End
  <2>3. CASE NotifyWaiters(r)
    BY <2>3 DEF CacheInv, TypeOK, NotifyWaiters
  <2> QED
    BY <2>1, <2>2, <2>3
<1>3. TypeOK' /\ Fetched' /\ OneFetch'
  BY <1>1, <1>2 DEF CacheInv, TypeOK, Fetched, OneFetch, Leading
<1>4. StreamBacked' /\ CompleteIsSaved'
  BY <1>1, <1>2 DEF CacheInv, StreamBacked, CompleteIsSaved
<1>5. OneInstanceOnly => FetchIsNewest'
  BY <1>1 DEF CacheInv, FetchIsNewest
<1> QED
  BY <1>3, <1>4, <1>5 DEF CacheInv

\* A client that leaves takes its handler along, not its background task.
LEMMA DisconnectStep ==
  ASSUME CacheInv, NEW r \in Requests, Disconnect(r)
  PROVE  CacheInv'
<1>1. /\ UNCHANGED <<upstream, rec, leader, seen, notify, woken, got, saved>>
      /\ pc' \in [Requests -> Steps] /\ \A s \in Requests \ {r} : pc'[s] = pc[s]
      /\ \/ pc[r] \in {"head", "wait", "reread"} /\ pc'[r] = "done"
         \/ pc[r] = "fetch" /\ pc'[r] = "drop"
         \/ pc[r] \in {"stream", "commit"} /\ pc'[r] = pc[r]
      /\ faults' \in Nat
  BY DEF CacheInv, TypeOK, Disconnect, kv, local, Goto, Steps
<1>2. /\ reply' \in [Requests -> [kind: Kinds, ver: Versions \cup {None}]]
      /\ \A s \in Requests \ {r} : reply'[s] = reply[s]
      /\ reply'[r].kind = "gone"
  BY DEF CacheInv, TypeOK, Disconnect, Answer, Kinds
<1>3. TypeOK' /\ Fetched' /\ OneFetch'
  BY <1>1, <1>2 DEF CacheInv, TypeOK, Fetched, OneFetch, Leading
<1>4. StreamBacked' /\ CompleteIsSaved'
  BY <1>1, <1>2 DEF CacheInv, StreamBacked, CompleteIsSaved
<1>5. OneInstanceOnly => FetchIsNewest'
  BY <1>1 DEF CacheInv, FetchIsNewest
<1> QED
  BY <1>3, <1>4, <1>5 DEF CacheInv

\* A crash takes the map, the handlers and the tasks together.
LEMMA CrashStep ==
  ASSUME CacheInv, NEW i \in Instances, Crash(i)
  PROVE  CacheInv'
<1>1. /\ UNCHANGED <<upstream, rec, seen, notify, woken, got, saved>>
      /\ pc' \in [Requests -> Steps]
      /\ \A s \in Requests : \/ pc'[s] = pc[s] /\ InstanceOf[s] # i
                             \/ pc'[s] \in {"begin", "done"} /\ InstanceOf[s] = i
      /\ leader' = [leader EXCEPT ![i] = None]
      /\ faults' \in Nat
  BY DEF CacheInv, TypeOK, Crash, kv, local, Steps
<1>2. /\ reply' \in [Requests -> [kind: Kinds, ver: Versions \cup {None}]]
      /\ \A s \in Requests :
           \/ reply'[s] = reply[s] /\ InstanceOf[s] # i
           \/ reply'[s] = reply[s] /\ pc[s] \in {"begin", "done"}
           \/ reply'[s].kind = "gone"
  <2>1. Nothing("gone") \in [kind: Kinds, ver: Versions \cup {None}]
        /\ Nothing("gone").kind = "gone"
    BY DEF Nothing, Kinds
  <2> QED
    BY <2>1 DEF CacheInv, TypeOK, Crash
<1>3. TypeOK' /\ Fetched' /\ OneFetch'
  BY <1>1, <1>2 DEF CacheInv, TypeOK, Fetched, OneFetch, Leading
<1>4. StreamBacked' /\ CompleteIsSaved'
  BY <1>1, <1>2 DEF CacheInv, StreamBacked, CompleteIsSaved
<1>5. OneInstanceOnly => FetchIsNewest'
  BY <1>1 DEF CacheInv, FetchIsNewest
<1> QED
  BY <1>3, <1>4, <1>5 DEF CacheInv

\* CacheInv is inductive.
LEMMA CacheInvStep == CacheInv /\ [Next]_vars => CacheInv'
<1> SUFFICES ASSUME CacheInv, [Next]_vars PROVE CacheInv'
  OBVIOUS
<1>1. CASE UNCHANGED vars
  <2>1. TypeOK' /\ Fetched' /\ OneFetch'
    BY <1>1 DEF vars, CacheInv, TypeOK, Fetched, OneFetch
  <2>2. StreamBacked' /\ CompleteIsSaved' /\ (OneInstanceOnly => FetchIsNewest')
    BY <1>1 DEF vars, CacheInv, StreamBacked, CompleteIsSaved, FetchIsNewest
  <2> QED
    BY <2>1, <2>2 DEF CacheInv
<1>2. ASSUME NEW r \in Requests, Handler(r) PROVE CacheInv'
  BY <1>2, QuietStep, ClaimSlowStep, FetchStep DEF Handler
<1>3. ASSUME NEW r \in Requests, Task(r) PROVE CacheInv'
  BY <1>3, StreamEndsStep, CommitStep, DropGuardStep, FinishStep DEF Task
<1> QED
  BY <1>1, <1>2, <1>3, EnvironmentStep, TaskFailsStep, DisconnectStep, CrashStep
     DEF Next

\* "Only one caller fetches from upstream per (repo, path)", on each instance,
\* and a transfer that completes has been cached.
THEOREM CacheSafe == Spec => []CacheInv
  BY CacheInit, CacheInvStep, PTL DEF Spec

\* Every step keeps the records, the map and the requests well formed.
THEOREM CacheTypeCorrect == Spec => []TypeOK
<1>1. CacheInv => TypeOK
  BY DEF CacheInv
<1> QED
  BY <1>1, CacheSafe, PTL

\* The parts of CacheInv that a reader of the code relies on.
THEOREM FetchesApart == Spec => [](OneFetch /\ CompleteIsSaved)
<1>1. CacheInv => OneFetch /\ CompleteIsSaved
  BY DEF CacheInv
<1> QED
  BY <1>1, CacheSafe, PTL

\* With one instance the cache never replaces a version by an older one.
THEOREM CacheMonotonic == OneInstanceOnly => (Spec => NeverGoesBack)
<1> SUFFICES ASSUME OneInstanceOnly PROVE Spec => NeverGoesBack
  OBVIOUS
<1>1. CacheInv /\ [Next]_vars =>
        [rec # None /\ rec' # None => rec'.ver >= rec.ver]_vars
  <2> SUFFICES ASSUME CacheInv, Next, rec # None, rec' # None
               PROVE  rec'.ver >= rec.ver
    OBVIOUS
  <2>1. rec.ver \in Versions /\ rec \in [ver: Versions, fresh: BOOLEAN]
    BY DEF CacheInv, TypeOK
  <2>2. ASSUME NEW r \in Requests, Commit(r) PROVE rec'.ver >= rec.ver
    <3>1. rec'.ver = got[r] /\ pc[r] = "commit"
      BY <2>2 DEF Commit
    <3>2. got[r] \in Versions /\ rec.ver <= got[r]
      BY <3>1 DEF CacheInv, TypeOK, Fetched, FetchIsNewest
    <3> QED
      BY <2>1, <3>1, <3>2 DEF Versions
  <2>3. CASE UNCHANGED rec
    BY <2>1, <2>3 DEF Versions
  <2>4. CASE Expire
    BY <2>1, <2>4 DEF Expire, Versions
  <2> QED
    BY <2>2, <2>3, <2>4 DEF Next, Handler, Task, Publish, Turn, Evict,
       Begin, HeadUpstream, ClaimFast, ClaimSlow, Register, Wake, Reread, Fetch,
       StreamEnds, DropGuard, NotifyWaiters, End, TaskFails, Disconnect, Crash, kv
<1> QED
  BY <1>1, CacheSafe, PTL DEF Spec, NeverGoesBack
=============================================================================
