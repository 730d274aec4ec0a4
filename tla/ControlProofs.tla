--------------------------- MODULE ControlProofs ---------------------------
(***************************************************************************)
(* Proofs about ControlPlane: what was decided about users, tokens and     *)
(* settings stands, and the records of repositories live as promised, for  *)
(* any instances, requests, workloads and failures.                        *)
(***************************************************************************)
EXTENDS ControlPlane, FiniteSetTheorems, SequenceTheorems, TLAPS

-----------------------------------------------------------------------------
(* Shapes.  W stands for the values that are only passed on.               *)

Request(W) == [ask : W, pc : W, who : W, got : W, todo : W, ev : W, answer : W]
Memory(W) == [users : W, roles : W, verified : W, jwt : W, settings : W, refresh : W, stores : W]
Store(W) ==
    [repos : W, stores : W, users : W, role : W, arts : W, tree : W, blobs : W, recs : W, stale : W,
     jwt : W, settings : W, tasks : W]

ReqsIn(W) == reqs \in [DOMAIN reqs -> Request(W)]
MemIn(W) == mem \in [Insts -> Memory(W)]
KvIn(W) == kv \in Store(W)
\* A step of the refresh is one of four.
RefreshPcs == {"settings", "use_settings", "jwt", "use_jwt"}
Shaped ==
    /\ \E W : ReqsIn(W)
    /\ \E W : MemIn(W)
    /\ \E W : KvIn(W)
    /\ \E W : kv.users \in [Users -> W]
    /\ \A i \in Insts : mem[i].refresh.pc \in RefreshPcs

-----------------------------------------------------------------------------
(* What a step does to a request.                                          *)

Turns(r, p) ==
    /\ DOMAIN reqs' = DOMAIN reqs
    /\ \A q \in DOMAIN reqs : q # r => reqs'[q] = reqs[q]
    /\ reqs'[r].ask = reqs[r].ask /\ reqs'[r].pc = p
    /\ \E W : ReqsIn(W)'

LEMMA SetRequest ==
  ASSUME NEW W, ReqsIn(W), NEW r \in DOMAIN reqs, NEW V, NEW v \in Request(V),
         reqs' = [reqs EXCEPT ![r] = v]
  PROVE  /\ DOMAIN reqs' = DOMAIN reqs /\ reqs'[r] = v
         /\ \A q \in DOMAIN reqs : q # r => reqs'[q] = reqs[q]
         /\ \E U : ReqsIn(U)'
<1>1. DOMAIN reqs' = DOMAIN reqs /\ reqs'[r] = v
  BY DEF ReqsIn
<1>2. \A q \in DOMAIN reqs : q # r => reqs'[q] = reqs[q]
  BY DEF ReqsIn
<1>3. ReqsIn(W \cup V)'
  <2>1. \A q \in DOMAIN reqs' : reqs'[q] \in Request(W \cup V)
    <3>1. v \in Request(W \cup V)
      BY DEF Request
    <3>2. \A q \in DOMAIN reqs : reqs[q] \in Request(W \cup V)
      BY DEF Request, ReqsIn
    <3> QED BY <3>1, <3>2, <1>1, <1>2
  <2>2. reqs' = [q \in DOMAIN reqs' |-> reqs'[q]]
    BY <1>1 DEF ReqsIn
  <2> QED BY <2>1, <2>2 DEF ReqsIn
<1> QED BY <1>1, <1>2, <1>3

LEMMA GotoTurns ==
  ASSUME NEW W, ReqsIn(W), NEW r \in DOMAIN reqs, NEW p, Goto(r, p)
  PROVE  Turns(r, p) /\ reqs'[r].got = reqs[r].got /\ reqs'[r].answer = reqs[r].answer
<1> DEFINE v == [reqs[r] EXCEPT !.pc = p]
<1>1. reqs[r] \in Request(W)
  BY DEF ReqsIn
<1>2. v \in Request(W \cup {p})
  BY <1>1 DEF Request
<1>3. v.pc = p /\ v.ask = reqs[r].ask /\ v.got = reqs[r].got /\ v.answer = reqs[r].answer
  BY <1>1 DEF Request
<1>4. reqs' = [reqs EXCEPT ![r] = v]
  BY DEF Goto
<1> HIDE DEF v
<1> QED BY <1>2, <1>3, <1>4, SetRequest DEF Turns

LEMMA KeepTurns ==
  ASSUME NEW W, ReqsIn(W), NEW r \in DOMAIN reqs, NEW p, NEW g, Keep(r, p, g)
  PROVE  Turns(r, p) /\ reqs'[r].got = g /\ reqs'[r].answer = reqs[r].answer
<1> DEFINE v == [reqs[r] EXCEPT !.pc = p, !.got = g]
<1>1. reqs[r] \in Request(W)
  BY DEF ReqsIn
<1>2. v \in Request(W \cup {p, g})
  BY <1>1 DEF Request
<1>3. v.pc = p /\ v.ask = reqs[r].ask /\ v.got = g /\ v.answer = reqs[r].answer
  BY <1>1 DEF Request
<1>4. reqs' = [reqs EXCEPT ![r] = v]
  BY <1>1 DEF Keep, ReqsIn
<1> HIDE DEF v
<1> QED BY <1>2, <1>3, <1>4, SetRequest DEF Turns

LEMMA AnsweredTurns ==
  ASSUME NEW W, ReqsIn(W), NEW r \in DOMAIN reqs, NEW what, NEW g,
         reqs' = [reqs EXCEPT ![r] = Answered(r, what, g)]
  PROVE  Turns(r, "done") /\ reqs'[r].got = g /\ reqs'[r].answer = what
<1> DEFINE v == Answered(r, what, g)
<1>1. reqs[r] \in Request(W)
  BY DEF ReqsIn
<1>2. v \in Request(W \cup {"done", None, <<>>, what, g})
  BY <1>1 DEF Request, Answered
<1>3. v.pc = "done" /\ v.ask = reqs[r].ask /\ v.got = g /\ v.answer = what
  BY <1>1 DEF Request, Answered
<1>4. reqs' = [reqs EXCEPT ![r] = v]
  OBVIOUS
<1> HIDE DEF v
<1> QED BY <1>2, <1>3, <1>4, SetRequest DEF Turns

LEMMA ReplyTurns ==
  ASSUME NEW W, ReqsIn(W), NEW r \in DOMAIN reqs, NEW what, Reply(r, what)
  PROVE  Turns(r, "done") /\ reqs'[r].got = None /\ reqs'[r].answer = what
BY AnsweredTurns DEF Reply

LEMMA WrittenTurns ==
  ASSUME NEW W, ReqsIn(W), NEW r \in DOMAIN reqs, NEW op, NEW t, Written(r, op, t)
  PROVE  Turns(r, "announce")
<1> DEFINE e == <<Event(op, t, r)>>
           v == [reqs[r] EXCEPT !.pc = "announce", !.got = None, !.ev = e]
<1>1. reqs[r] \in Request(W)
  BY DEF ReqsIn
<1> HIDE DEF e
<1>2. v \in Request(W \cup {"announce", None, e})
  BY <1>1 DEF Request
<1>3. v.pc = "announce" /\ v.ask = reqs[r].ask
  BY <1>1 DEF Request
<1>4. reqs' = [reqs EXCEPT ![r] = v]
  BY <1>1 DEF Written, ReqsIn, e
<1> HIDE DEF v
<1> QED BY <1>2, <1>3, <1>4, SetRequest DEF Turns

-----------------------------------------------------------------------------
(* Requests: what they ask never changes, and each kind has its steps.     *)

IdentityKinds ==
    UserKinds \cup {"login", "use", "create_role", "update_role", "delete_role", "revoke_all", "rotate", "put_settings"}
IdentityPcs ==
    {"put_user", "forget", "delete_user", "put_role", "forget_role", "put_jwt", "use_jwt", "put_settings", "use_settings"}
CommonPcs == {"start", "lookup", "go", "done"}

PcFits(kind, pc) ==
    /\ kind \in {"login", "use"} => pc \in CommonPcs
    /\ kind \in {"create_user", "update_user", "set_password"} => pc \in CommonPcs \cup {"put_user", "announce"}
    /\ kind \in {"change_password", "revoke"} => pc \in CommonPcs \cup {"put_user", "forget"}
    /\ kind = "delete_user" => pc \in CommonPcs \cup {"delete_user", "announce"}
    /\ kind \in {"create_role", "update_role", "delete_role"} => pc \in CommonPcs \cup {"put_role", "forget_role"}
    /\ kind \in {"revoke_all", "rotate"} => pc \in CommonPcs \cup {"put_jwt", "use_jwt"}
    /\ kind = "put_settings" => pc \in CommonPcs \cup {"put_settings", "use_settings"}
    /\ kind \notin IdentityKinds => pc \notin IdentityPcs
RequestsFit ==
    \A r \in DOMAIN reqs : r \in Reqs /\ reqs[r].ask = Ask[r] /\ PcFits(Kind(r), reqs[r].pc)

-----------------------------------------------------------------------------
(* Users.                                                                  *)

\* Who is about to delete an admin has counted another.
OtherAdmin ==
    \A r \in DOMAIN reqs :
      (At(r, "delete_user") /\ On(r) \in reqs[r].got) => \E u \in reqs[r].got : u # On(r)
AdminsFit == OtherAdmin /\ LastAdmin

\* A record is changed after it was found, and what revokes a user's tokens has
\* replaced the first secret by the time the caches forget him.
FoundUser ==
    \A r \in DOMAIN reqs : (At(r, "put_user") /\ Kind(r) # "create_user") => reqs[r].got # None
Revoked(r) == Kind(r) \in {"revoke", "change_password"} /\ (At(r, "forget") \/ Done(r))
SecretsKept ==
    Except({"user_race", "restored"})
    \/ \A r \in DOMAIN reqs : (Revoked(r) /\ kv.users[On(r)] # None) => kv.users[On(r)].secret # "init"

-----------------------------------------------------------------------------
(* The global secrets.                                                     *)

\* What is about to be written: a new secret alone, or after the one known.
NextSecrets ==
    \A r \in DOMAIN reqs :
      At(r, "put_jwt") =>
        \/ Kind(r) = "revoke_all" /\ reqs[r].got.new = [cur |-> r, prev |-> None]
        \/ Kind(r) = "rotate" /\ reqs[r].got.new = [cur |-> r, prev |-> reqs[r].got.base.cur]
RevokedAll(r) == Kind(r) = "revoke_all" /\ (At(r, "use_jwt") \/ Done(r))
FirstEnded ==
    Except({"unrefreshed"})
    \/ \A r \in DOMAIN reqs : RevokedAll(r) => "init" \notin {kv.jwt.cur, kv.jwt.prev}

\* While no revocation of all and at most one rotation has begun, the records, the
\* instances and what they have read have the first secrets or those that the
\* rotation wrote.
First == [cur |-> "init", prev |-> None]
Begun(kind) == {r \in DOMAIN reqs : Kind(r) = kind /\ ~At(r, "start")}
Quiet == Begun("revoke_all") = {} /\ \A q, r \in Begun("rotate") : q = r
Rotated(jwt) ==
    \E r \in Begun("rotate") : ~At(r, "put_jwt") /\ jwt = [cur |-> r, prev |-> "init"]
SecretsKnown ==
    \A i \in Insts :
      /\ mem[i].jwt \in {First, kv.jwt}
      /\ mem[i].refresh.pc = "use_jwt" => mem[i].refresh.got \in {First, kv.jwt}
RotatorFits(r) ==
    /\ Kind(r) = "rotate" /\ At(r, "put_jwt") => reqs[r].got.new = [cur |-> r, prev |-> "init"]
    /\ Kind(r) = "rotate" /\ At(r, "use_jwt") => reqs[r].got.new = kv.jwt
    /\ Kind(r) = "login" /\ Done(r) => reqs[r].got.glob \in {"init", kv.jwt.cur}
OneRotation ==
    Quiet => (kv.jwt = First \/ Rotated(kv.jwt)) /\ SecretsKnown /\ \A r \in DOMAIN reqs : RotatorFits(r)

-----------------------------------------------------------------------------
(* The settings.                                                           *)

\* A field is put into what the instance had.
NextSettings ==
    \A r \in DOMAIN reqs :
      At(r, "put_settings") => reqs[r].got.new = [reqs[r].got.base EXCEPT ![On(r)] = r]
HasPut(r) == Kind(r) = "put_settings" /\ (At(r, "use_settings") \/ Done(r))
PutKept ==
    Except({"unmerged", "restored"})
    \/ \A r \in DOMAIN reqs : HasPut(r) => kv.settings[On(r)] # "init"

-----------------------------------------------------------------------------
(* Steps that write neither users nor secrets nor settings, except from a  *)
(* backup, and that do not answer what a decision is about.                *)

\* A request of another kind takes a step of its own.
StalePcs == IdentityPcs \cup {"start"}
Fresh(r) == \E p : p \notin StalePcs /\ Turns(r, p)

\* Users, secrets and settings are as they were, unless a backup is restored.
Unwritten ==
    /\ kv'.jwt = kv.jwt
    /\ \E W : KvIn(W)'
    /\ \/ kv'.users = kv.users /\ kv'.settings = kv.settings
       \/ "restored" \in risk' /\ \E W : kv'.users \in [Users -> W]

\* The instances have, and are about to have, the secrets they had.
SecretsStay ==
    /\ \A i \in Insts : mem'[i].jwt = mem[i].jwt /\ mem'[i].refresh = mem[i].refresh
    /\ \E W : MemIn(W)'

\* A step of a request that no decision is about.
WritingPcs == {"put_user", "forget", "delete_user", "put_jwt", "use_jwt", "put_settings", "use_settings"}
Decisive == {"login", "revoke_all", "put_settings", "revoke", "change_password"}
Calm(r) ==
    /\ \E p : Turns(r, p) /\ p # "start" /\ p \notin WritingPcs /\ PcFits(Kind(r), p)
    /\ Done(r)' => Kind(r) \notin Decisive
    /\ Unwritten /\ SecretsStay /\ risk \subseteq risk'

LEMMA CalmFrom ==
  ASSUME NEW r \in DOMAIN reqs, Kind(r) \notin IdentityKinds, Fresh(r), Unwritten, SecretsStay, risk \subseteq risk'
  PROVE  Calm(r)
<1>1. PICK p : p \notin StalePcs /\ Turns(r, p)
  BY DEF Fresh
<1>2. p # "start" /\ p \notin WritingPcs /\ PcFits(Kind(r), p)
  BY <1>1 DEF StalePcs, IdentityPcs, WritingPcs, PcFits, IdentityKinds, UserKinds
<1>3. Kind(r) \notin Decisive
  BY DEF Decisive, IdentityKinds, UserKinds
<1> QED BY <1>1, <1>2, <1>3 DEF Calm

LEMMA NotIdentity ==
  ASSUME RequestsFit, NEW r \in DOMAIN reqs,
         \/ Kind(r) \notin IdentityKinds
         \/ reqs[r].pc \notin IdentityPcs \cup CommonPcs \cup {"announce"}
  PROVE  Kind(r) \notin IdentityKinds
<1>1. PcFits(Kind(r), reqs[r].pc)
  BY DEF RequestsFit
<1> QED BY <1>1 DEF PcFits, IdentityKinds, UserKinds, IdentityPcs, CommonPcs

LEMMA GotoFresh ==
  ASSUME Shaped, NEW r \in DOMAIN reqs, NEW p, p \notin StalePcs, Goto(r, p)
  PROVE  Fresh(r)
BY GotoTurns DEF Shaped, Fresh

LEMMA KeepFresh ==
  ASSUME Shaped, NEW r \in DOMAIN reqs, NEW p, p \notin StalePcs, NEW g, Keep(r, p, g)
  PROVE  Fresh(r)
BY KeepTurns DEF Shaped, Fresh

LEMMA AnsweredFresh ==
  ASSUME Shaped, NEW r \in DOMAIN reqs, NEW what, NEW g, reqs' = [reqs EXCEPT ![r] = Answered(r, what, g)]
  PROVE  Fresh(r)
BY AnsweredTurns DEF Shaped, Fresh, StalePcs, IdentityPcs

LEMMA ReplyFresh ==
  ASSUME Shaped, NEW r \in DOMAIN reqs, NEW what, Reply(r, what)
  PROVE  Fresh(r)
BY AnsweredFresh DEF Reply

LEMMA WrittenFresh ==
  ASSUME Shaped, NEW r \in DOMAIN reqs, NEW op, NEW t, Written(r, op, t)
  PROVE  Fresh(r)
BY WrittenTurns DEF Shaped, Fresh, StalePcs, IdentityPcs

LEMMA KvSame ==
  ASSUME Shaped, kv' = kv
  PROVE  Unwritten
BY DEF Shaped, Unwritten, KvIn

RecordFields == {"repos", "stores", "role", "arts", "tree", "blobs", "recs", "stale", "tasks"}

LEMMA SetField ==
  ASSUME Shaped, NEW f \in RecordFields, NEW x, kv' = [kv EXCEPT ![f] = x]
  PROVE  Unwritten
<1>0. PICK W : KvIn(W)
  BY DEF Shaped
<1>1. kv' \in Store(W \cup {x})
  <2>1. kv \in Store(W \cup {x})
    BY <1>0 DEF KvIn, Store
  <2> QED BY <2>1 DEF RecordFields, Store
<1>2. kv'.users = kv.users /\ kv'.jwt = kv.jwt /\ kv'.settings = kv.settings
  BY <1>0 DEF KvIn, Store, RecordFields
<1> QED BY <1>1, <1>2 DEF Unwritten, KvIn

LEMMA Kv_repos ==
  ASSUME Shaped, NEW n, NEW x, kv' = [kv EXCEPT !.repos[n] = x]
  PROVE  Unwritten
<1> DEFINE y == [kv.repos EXCEPT ![n] = x]
<1>1. kv' = [kv EXCEPT !["repos"] = y]
  BY DEF Shaped, KvIn, Store
<1> HIDE DEF y
<1> QED BY <1>1, SetField DEF RecordFields

LEMMA Kv_stores ==
  ASSUME Shaped, NEW n, NEW x, kv' = [kv EXCEPT !.stores[n] = x]
  PROVE  Unwritten
<1> DEFINE y == [kv.stores EXCEPT ![n] = x]
<1>1. kv' = [kv EXCEPT !["stores"] = y]
  BY DEF Shaped, KvIn, Store
<1> HIDE DEF y
<1> QED BY <1>1, SetField DEF RecordFields

LEMMA Kv_tasks ==
  ASSUME Shaped, NEW n, NEW x, kv' = [kv EXCEPT !.tasks[n] = x]
  PROVE  Unwritten
<1> DEFINE y == [kv.tasks EXCEPT ![n] = x]
<1>1. kv' = [kv EXCEPT !["tasks"] = y]
  BY DEF Shaped, KvIn, Store
<1> HIDE DEF y
<1> QED BY <1>1, SetField DEF RecordFields

LEMMA Kv_arts ==
  ASSUME Shaped, NEW x, kv' = [kv EXCEPT !.arts = x]
  PROVE  Unwritten
BY SetField DEF RecordFields

LEMMA Kv_tree ==
  ASSUME Shaped, NEW x, kv' = [kv EXCEPT !.tree = x]
  PROVE  Unwritten
BY SetField DEF RecordFields

LEMMA Kv_recs ==
  ASSUME Shaped, NEW x, kv' = [kv EXCEPT !.recs = x]
  PROVE  Unwritten
BY SetField DEF RecordFields

LEMMA Kv_stale ==
  ASSUME Shaped, NEW x, kv' = [kv EXCEPT !.stale = x]
  PROVE  Unwritten
BY SetField DEF RecordFields

LEMMA Kv_role ==
  ASSUME Shaped, NEW x, kv' = [kv EXCEPT !.role = x]
  PROVE  Unwritten
BY SetField DEF RecordFields

LEMMA MemSame ==
  ASSUME Shaped, mem' = mem
  PROVE  SecretsStay
BY DEF Shaped, SecretsStay, MemIn

LEMMA MemField ==
  ASSUME Shaped, NEW i \in Insts, NEW f \in {"users", "roles", "verified", "settings", "stores"}, NEW x,
         mem' = [mem EXCEPT ![i][f] = x]
  PROVE  SecretsStay
<1>0. PICK W : MemIn(W)
  BY DEF Shaped
<1> DEFINE v == [mem[i] EXCEPT ![f] = x]
<1>1. mem[i] \in Memory(W)
  BY <1>0 DEF MemIn
<1>2. v \in Memory(W \cup {x})
  BY <1>1 DEF Memory
<1>3. v.jwt = mem[i].jwt /\ v.refresh = mem[i].refresh
  BY <1>1 DEF Memory
<1>4. mem' = [mem EXCEPT ![i] = v]
  OBVIOUS
<1> HIDE DEF v
<1>5. mem' \in [Insts -> Memory(W \cup {x})]
  <2>1. mem \in [Insts -> Memory(W \cup {x})]
    <3>1. \A j \in Insts : mem[j] \in Memory(W \cup {x})
      BY <1>0 DEF MemIn, Memory
    <3> QED BY <3>1, <1>0 DEF MemIn
  <2> QED BY <2>1, <1>2, <1>4
<1>6. \A j \in Insts : mem'[j].jwt = mem[j].jwt /\ mem'[j].refresh = mem[j].refresh
  BY <1>0, <1>3, <1>4 DEF MemIn
<1> QED BY <1>5, <1>6 DEF SecretsStay, MemIn

LEMMA Placed ==
  ASSUME RequestsFit, NEW r \in DOMAIN reqs
  PROVE  Where(r) \in Insts
BY ControlAssumption DEF RequestsFit, Where

LEMMA MemStores ==
  ASSUME Shaped, RequestsFit, NEW r \in DOMAIN reqs, NEW x, mem' = [mem EXCEPT ![Where(r)].stores = x]
  PROVE  SecretsStay
BY Placed, MemField

LEMMA Kv_blobs ==
  ASSUME Shaped, NEW x, NEW y, kv' = [kv EXCEPT !.blobs = x, !.recs = y]
  PROVE  Unwritten
<1>0. PICK W : KvIn(W)
  BY DEF Shaped
<1>1. kv \in Store(W \cup {x, y})
  BY <1>0 DEF KvIn, Store
<1>2. kv' \in Store(W \cup {x, y})
  BY <1>1 DEF Store
<1>3. kv'.users = kv.users /\ kv'.jwt = kv.jwt /\ kv'.settings = kv.settings
  BY <1>0 DEF KvIn, Store
<1> QED BY <1>2, <1>3 DEF Unwritten, KvIn

LEMMA Kv_tree_tasks ==
  ASSUME Shaped, NEW r, NEW x, NEW y, kv' = [kv EXCEPT !.tree = x, !.tasks[r] = y]
  PROVE  Unwritten
<1> DEFINE z == [kv.tasks EXCEPT ![r] = y]
<1>0. PICK W : KvIn(W)
  BY DEF Shaped
<1>1. kv' = [kv EXCEPT !.tree = x, !.tasks = z]
  BY <1>0 DEF KvIn, Store
<1> HIDE DEF z
<1>2. kv \in Store(W \cup {x, z})
  BY <1>0 DEF KvIn, Store
<1>3. kv' \in Store(W \cup {x, z})
  BY <1>1, <1>2 DEF Store
<1>4. kv'.users = kv.users /\ kv'.jwt = kv.jwt /\ kv'.settings = kv.settings
  BY <1>0, <1>1 DEF KvIn, Store
<1> QED BY <1>3, <1>4 DEF Unwritten, KvIn

LEMMA Kv_users ==
  ASSUME Shaped, "restored" \in risk', NEW n, NEW x, kv' = [kv EXCEPT !.users[n] = x]
  PROVE  Unwritten
<1> DEFINE y == [kv.users EXCEPT ![n] = x]
<1>0. PICK W, U : KvIn(W) /\ kv.users \in [Users -> U]
  BY DEF Shaped
<1>1. kv' = [kv EXCEPT !.users = y]
  BY <1>0 DEF KvIn, Store
<1>2. y \in [Users -> U \cup {x}]
  BY <1>0
<1> HIDE DEF y
<1>3. kv \in Store(W \cup {y})
  BY <1>0 DEF KvIn, Store
<1>4. kv' \in Store(W \cup {y}) /\ kv'.users = y /\ kv'.jwt = kv.jwt
  BY <1>1, <1>3 DEF Store
<1> QED BY <1>2, <1>4 DEF Unwritten, KvIn

LEMMA Kv_settings ==
  ASSUME Shaped, "restored" \in risk', NEW x, kv' = [kv EXCEPT !.settings = x]
  PROVE  Unwritten
<1>0. PICK W, U : KvIn(W) /\ kv.users \in [Users -> U]
  BY DEF Shaped
<1>3. kv \in Store(W \cup {x})
  BY <1>0 DEF KvIn, Store
<1>4. kv' \in Store(W \cup {x}) /\ kv'.users = kv.users /\ kv'.jwt = kv.jwt
  BY <1>3 DEF Store
<1> QED BY <1>0, <1>4 DEF Unwritten, KvIn

LEMMA SetMemory ==
  ASSUME Shaped, NEW i \in Insts, NEW V, NEW v \in Memory(V), v.jwt = mem[i].jwt, v.refresh = mem[i].refresh,
         mem' = [mem EXCEPT ![i] = v]
  PROVE  SecretsStay
<1>0. PICK W : MemIn(W)
  BY DEF Shaped
<1>1. mem' \in [Insts -> Memory(W \cup V)]
  <2>1. \A j \in Insts : mem[j] \in Memory(W \cup V)
    BY <1>0 DEF MemIn, Memory
  <2>2. v \in Memory(W \cup V)
    BY DEF Memory
  <2> QED BY <2>1, <2>2, <1>0 DEF MemIn
<1>2. \A j \in Insts : mem'[j].jwt = mem[j].jwt /\ mem'[j].refresh = mem[j].refresh
  BY <1>0 DEF MemIn
<1> QED BY <1>1, <1>2 DEF SecretsStay, MemIn

LEMMA MemAll ==
  ASSUME Shaped, NEW i \in Insts, NEW s, mem' = [mem EXCEPT ![i] = [invalidate_all(mem[i]) EXCEPT !.settings = s]]
  PROVE  SecretsStay
<1> DEFINE v == [invalidate_all(mem[i]) EXCEPT !.settings = s]
<1>0. PICK W : MemIn(W)
  BY DEF Shaped
<1>1. mem[i] \in Memory(W)
  BY <1>0 DEF MemIn
<1>2. PICK e : e = Empty
  OBVIOUS
<1>3. v \in Memory(W \cup {e, s}) /\ v.jwt = mem[i].jwt /\ v.refresh = mem[i].refresh
  BY <1>1, <1>2 DEF Memory, invalidate_all
<1> HIDE DEF v
<1> QED BY <1>3, SetMemory DEF v

LEMMA MemUsersRoles ==
  ASSUME Shaped, NEW i \in Insts, NEW x, NEW y, mem' = [mem EXCEPT ![i].users = x, ![i].roles = y]
  PROVE  SecretsStay
<1> DEFINE v == [mem[i] EXCEPT !.users = x, !.roles = y]
<1>0. PICK W : MemIn(W)
  BY DEF Shaped
<1>1. mem[i] \in Memory(W)
  BY <1>0 DEF MemIn
<1>2. v \in Memory(W \cup {x, y}) /\ v.jwt = mem[i].jwt /\ v.refresh = mem[i].refresh
  BY <1>1 DEF Memory
<1>3. mem' = [mem EXCEPT ![i] = v]
  BY <1>0, <1>1 DEF MemIn, Memory
<1> HIDE DEF v
<1> QED BY <1>2, <1>3, SetMemory

LEMMA MemForget ==
  ASSUME Shaped, NEW i \in Insts, NEW u, mem' = [mem EXCEPT ![i] = invalidate_user(mem[i], u)]
  PROVE  SecretsStay
<1> DEFINE v == invalidate_user(mem[i], u)
           x == Drop(mem[i].users, u)
           y == Drop(mem[i].verified, u)
<1>0. PICK W : MemIn(W)
  BY DEF Shaped
<1>1. mem[i] \in Memory(W)
  BY <1>0 DEF MemIn
<1>2. v = [mem[i] EXCEPT !.users = x, !.verified = y]
  BY DEF invalidate_user
<1> HIDE DEF v, x, y
<1>3. v \in Memory(W \cup {x, y}) /\ v.jwt = mem[i].jwt /\ v.refresh = mem[i].refresh
  BY <1>1, <1>2 DEF Memory
<1> QED BY <1>3, SetMemory DEF v

-----------------------------------------------------------------------------
(* A request whose fields change one after the other.                      *)

Turn(f, g, r, p) ==
    /\ r \in DOMAIN f /\ DOMAIN g = DOMAIN f /\ \E W : g \in [DOMAIN g -> Request(W)]
    /\ \A q \in DOMAIN f : q # r => g[q] = f[q]
    /\ g[r].ask = f[r].ask /\ g[r].pc = p
OtherFields == {"who", "got", "todo", "ev", "answer"}

LEMMA OneField ==
  ASSUME NEW D, NEW W, NEW f \in [D -> Request(W)], NEW r \in D, NEW k \in OtherFields \cup {"pc"}, NEW x,
         NEW g, g = [f EXCEPT ![r][k] = x]
  PROVE  Turn(f, g, r, IF k = "pc" THEN x ELSE f[r].pc)
<1> DEFINE v == [f[r] EXCEPT ![k] = x]
<1>1. f[r] \in Request(W)
  OBVIOUS
<1>2. v \in Request(W \cup {x})
  BY <1>1 DEF Request, OtherFields
<1>3. v.pc = (IF k = "pc" THEN x ELSE f[r].pc) /\ v.ask = f[r].ask
  BY <1>1 DEF Request, OtherFields
<1>4. g = [f EXCEPT ![r] = v]
  OBVIOUS
<1> HIDE DEF v
<1>5. DOMAIN g = D /\ DOMAIN f = D /\ \A q \in D : q # r => g[q] = f[q]
  BY <1>4
<1>6. g[r] = v
  BY <1>4
<1>7. g \in [D -> Request(W \cup {x})]
  <2>1. \A q \in D : f[q] \in Request(W \cup {x})
    BY DEF Request
  <2>2. \A q \in D : g[q] \in Request(W \cup {x})
    BY <2>1, <1>2, <1>5, <1>6
  <2> QED BY <2>2, <1>4, <1>5
<1> QED BY <1>3, <1>5, <1>6, <1>7 DEF Turn

LEMMA FirstTurn ==
  ASSUME NEW f, NEW W, f \in [DOMAIN f -> Request(W)], NEW r \in DOMAIN f, NEW k \in OtherFields, NEW x,
         NEW g, g = [f EXCEPT ![r][k] = x]
  PROVE  Turn(f, g, r, f[r].pc)
BY OneField DEF OtherFields

LEMMA FirstTurnPc ==
  ASSUME NEW f, NEW W, f \in [DOMAIN f -> Request(W)], NEW r \in DOMAIN f, NEW x,
         NEW g, g = [f EXCEPT ![r].pc = x]
  PROVE  Turn(f, g, r, x)
BY OneField

LEMMA NextTurn ==
  ASSUME NEW f, NEW g, NEW h, NEW r, NEW p, Turn(f, g, r, p), NEW k \in OtherFields, NEW x, h = [g EXCEPT ![r][k] = x]
  PROVE  Turn(f, h, r, p)
<1>1. PICK W : g \in [DOMAIN g -> Request(W)]
  BY DEF Turn
<1>2. r \in DOMAIN g
  BY DEF Turn
<1>3. Turn(g, h, r, g[r].pc)
  BY <1>1, <1>2, FirstTurn
<1> QED BY <1>3 DEF Turn

LEMMA TurnsFresh ==
  ASSUME NEW f, NEW g, f = reqs, g = reqs', NEW r, NEW p, Turn(f, g, r, p), p \notin StalePcs
  PROVE  Fresh(r)
BY DEF Turn, Turns, Fresh, ReqsIn

LEMMA FieldFresh ==
  ASSUME Shaped, NEW r \in DOMAIN reqs, reqs[r].pc \notin StalePcs, NEW k \in OtherFields, NEW x,
         reqs' = [reqs EXCEPT ![r][k] = x]
  PROVE  Fresh(r)
<1>1. PICK f, g : f = reqs /\ g = reqs'
  OBVIOUS
<1>2. Turn(f, g, r, f[r].pc)
  BY <1>1, FirstTurn DEF Shaped, ReqsIn
<1> QED BY <1>1, <1>2, TurnsFresh

LEMMA TodoFresh ==
  ASSUME Shaped, NEW r \in DOMAIN reqs, reqs[r].pc \notin StalePcs, NEW x, reqs' = [reqs EXCEPT ![r].todo = x]
  PROVE  Fresh(r)
BY FieldFresh DEF OtherFields

LEMMA GotFresh ==
  ASSUME Shaped, NEW r \in DOMAIN reqs, reqs[r].pc \notin StalePcs, NEW k, NEW x, reqs' = [reqs EXCEPT ![r].got[k] = x]
  PROVE  Fresh(r)
<1> DEFINE y == [reqs[r].got EXCEPT ![k] = x]
<1>1. reqs' = [reqs EXCEPT ![r].got = y]
  OBVIOUS
<1> HIDE DEF y
<1> QED BY <1>1, FieldFresh DEF OtherFields

LEMMA LookedUpTurn ==
  ASSUME NEW f, NEW W, f \in [DOMAIN f -> Request(W)], NEW r \in DOMAIN f, NEW U,
         NEW g, g = [f EXCEPT ![r].pc = "go", ![r].who = U, ![r].got = None]
  PROVE  Turn(f, g, r, "go")
<1> DEFINE f1 == [f EXCEPT ![r].pc = "go"]
           f2 == [f1 EXCEPT ![r].who = U]
<1>1. f1 = [f EXCEPT ![r].pc = "go"]
  OBVIOUS
<1>2. f2 = [f1 EXCEPT ![r].who = U]
  OBVIOUS
<1>3. g = [f2 EXCEPT ![r].got = None]
  OBVIOUS
<1> HIDE DEF f1, f2
<1>4. Turn(f, f1, r, "go")
  BY <1>1, FirstTurnPc DEF OtherFields
<1>5. Turn(f, f2, r, "go")
  BY <1>2, <1>4, NextTurn DEF OtherFields
<1>6. Turn(f, g, r, "go")
  BY <1>3, <1>5, NextTurn DEF OtherFields
<1> QED BY <1>6

LEMMA FinishTurn ==
  ASSUME NEW f, NEW W, f \in [DOMAIN f -> Request(W)], NEW r \in DOMAIN f,
         NEW g, g = [f EXCEPT ![r].pc = "done", ![r].answer = "ok"]
  PROVE  Turn(f, g, r, "done")
<1> DEFINE f1 == [f EXCEPT ![r].pc = "done"]
<1>1. f1 = [f EXCEPT ![r].pc = "done"]
  OBVIOUS
<1>2. g = [f1 EXCEPT ![r].answer = "ok"]
  OBVIOUS
<1> HIDE DEF f1
<1>3. Turn(f, f1, r, "done")
  BY <1>1, FirstTurnPc DEF OtherFields
<1>4. Turn(f, g, r, "done")
  BY <1>2, <1>3, NextTurn DEF OtherFields
<1> QED BY <1>4

LEMMA FinishFresh ==
  ASSUME Shaped, NEW r \in DOMAIN reqs,
         reqs' = [reqs EXCEPT ![r].pc = "done", ![r].answer = "ok"]
  PROVE  Fresh(r)
<1>1. PICK f, g : f = reqs /\ g = reqs'
  OBVIOUS
<1>2. Turn(f, g, r, "done")
  BY <1>1, FinishTurn, Zenon DEF Shaped, ReqsIn
<1>3. "done" \notin StalePcs
  BY DEF StalePcs, IdentityPcs
<1> QED BY <1>1, <1>2, <1>3, TurnsFresh

LEMMA TakeDocTurn ==
  ASSUME NEW f, NEW W, f \in [DOMAIN f -> Request(W)], NEW r \in DOMAIN f, NEW G, NEW T,
         NEW g, g = [f EXCEPT ![r].pc = "restore", ![r].got = G, ![r].todo = T]
  PROVE  Turn(f, g, r, "restore")
<1> DEFINE f1 == [f EXCEPT ![r].pc = "restore"]
           f2 == [f1 EXCEPT ![r].got = G]
<1>1. f1 = [f EXCEPT ![r].pc = "restore"]
  OBVIOUS
<1>2. f2 = [f1 EXCEPT ![r].got = G]
  OBVIOUS
<1>3. g = [f2 EXCEPT ![r].todo = T]
  OBVIOUS
<1> HIDE DEF f1, f2
<1>4. Turn(f, f1, r, "restore")
  BY <1>1, FirstTurnPc DEF OtherFields
<1>5. Turn(f, f2, r, "restore")
  BY <1>2, <1>4, NextTurn DEF OtherFields
<1>6. Turn(f, g, r, "restore")
  BY <1>3, <1>5, NextTurn DEF OtherFields
<1> QED BY <1>6

LEMMA TakeDocFresh ==
  ASSUME Shaped, NEW r \in DOMAIN reqs, NEW G, NEW T,
         reqs' = [reqs EXCEPT ![r].pc = "restore", ![r].got = G, ![r].todo = T]
  PROVE  Fresh(r)
<1>1. PICK f, g : f = reqs /\ g = reqs'
  OBVIOUS
<1>2. Turn(f, g, r, "restore")
  BY <1>1, TakeDocTurn, Zenon DEF Shaped, ReqsIn
<1>3. "restore" \notin StalePcs
  BY DEF StalePcs, IdentityPcs
<1> QED BY <1>1, <1>2, <1>3, TurnsFresh

LEMMA RestoreOneTurn ==
  ASSUME NEW f, NEW W, f \in [DOMAIN f -> Request(W)], NEW r \in DOMAIN f, NEW E,
         NEW g, g = [f EXCEPT ![r].pc = "announce", ![r].todo = Tail(@), ![r].ev = E]
  PROVE  Turn(f, g, r, "announce")
<1> DEFINE f1 == [f EXCEPT ![r].pc = "announce"]
           f2 == [f1 EXCEPT ![r].todo = Tail(@)]
           x2 == Tail(f1[r].todo)
<1>1. f1 = [f EXCEPT ![r].pc = "announce"]
  OBVIOUS
<1>2. f2 = [f1 EXCEPT ![r].todo = x2]
  OBVIOUS
<1>3. g = [f2 EXCEPT ![r].ev = E]
  OBVIOUS
<1> HIDE DEF f1, f2, x2
<1>4. Turn(f, f1, r, "announce")
  BY <1>1, FirstTurnPc DEF OtherFields
<1>5. Turn(f, f2, r, "announce")
  BY <1>2, <1>4, NextTurn DEF OtherFields
<1>6. Turn(f, g, r, "announce")
  BY <1>3, <1>5, NextTurn DEF OtherFields
<1> QED BY <1>6

LEMMA RestoreOneFresh ==
  ASSUME Shaped, NEW r \in DOMAIN reqs, NEW E,
         reqs' = [reqs EXCEPT ![r].pc = "announce", ![r].todo = Tail(@), ![r].ev = E]
  PROVE  Fresh(r)
<1>1. PICK f, g : f = reqs /\ g = reqs'
  OBVIOUS
<1>2. Turn(f, g, r, "announce")
  BY <1>1, RestoreOneTurn, Zenon DEF Shaped, ReqsIn
<1>3. "announce" \notin StalePcs
  BY DEF StalePcs, IdentityPcs
<1> QED BY <1>1, <1>2, <1>3, TurnsFresh

LEMMA PcTodoTurn ==
  ASSUME NEW f, NEW W, f \in [DOMAIN f -> Request(W)], NEW r \in DOMAIN f, NEW p, NEW T,
         NEW g, g = [f EXCEPT ![r].pc = p, ![r].todo = T]
  PROVE  Turn(f, g, r, p)
<1> DEFINE f1 == [f EXCEPT ![r].pc = p]
<1>1. f1 = [f EXCEPT ![r].pc = p]
  OBVIOUS
<1>2. g = [f1 EXCEPT ![r].todo = T]
  OBVIOUS
<1> HIDE DEF f1
<1>3. Turn(f, f1, r, p)
  BY <1>1, FirstTurnPc DEF OtherFields
<1>4. Turn(f, g, r, p)
  BY <1>2, <1>3, NextTurn DEF OtherFields
<1> QED BY <1>4

LEMMA PcTodoFresh ==
  ASSUME Shaped, NEW r \in DOMAIN reqs, NEW p, NEW T, p \notin StalePcs,
         reqs' = [reqs EXCEPT ![r].pc = p, ![r].todo = T]
  PROVE  Fresh(r)
<1>1. PICK f, g : f = reqs /\ g = reqs'
  OBVIOUS
<1>2. Turn(f, g, r, p)
  BY <1>1, PcTodoTurn, Zenon DEF Shaped, ReqsIn
<1> QED BY <1>1, <1>2, TurnsFresh

LEMMA PcTailTurn ==
  ASSUME NEW f, NEW W, f \in [DOMAIN f -> Request(W)], NEW r \in DOMAIN f, NEW p,
         NEW g, g = [f EXCEPT ![r].pc = p, ![r].todo = Tail(@)]
  PROVE  Turn(f, g, r, p)
<1> DEFINE f1 == [f EXCEPT ![r].pc = p]
           x2 == Tail(f1[r].todo)
<1>1. f1 = [f EXCEPT ![r].pc = p]
  OBVIOUS
<1>2. g = [f1 EXCEPT ![r].todo = x2]
  OBVIOUS
<1> HIDE DEF f1, x2
<1>3. Turn(f, f1, r, p)
  BY <1>1, FirstTurnPc DEF OtherFields
<1>4. Turn(f, g, r, p)
  BY <1>2, <1>3, NextTurn DEF OtherFields
<1> QED BY <1>4

LEMMA PcTailFresh ==
  ASSUME Shaped, NEW r \in DOMAIN reqs, NEW p, p \notin StalePcs,
         reqs' = [reqs EXCEPT ![r].pc = p, ![r].todo = Tail(@)]
  PROVE  Fresh(r)
<1>1. PICK f, g : f = reqs /\ g = reqs'
  OBVIOUS
<1>2. Turn(f, g, r, p)
  BY <1>1, PcTailTurn, Zenon DEF Shaped, ReqsIn
<1> QED BY <1>1, <1>2, TurnsFresh

LEMMA PcTodoGotTurn ==
  ASSUME NEW f, NEW W, f \in [DOMAIN f -> Request(W)], NEW r \in DOMAIN f, NEW p, NEW T, NEW G,
         NEW g, g = [f EXCEPT ![r].pc = p, ![r].todo = T, ![r].got = G]
  PROVE  Turn(f, g, r, p)
<1> DEFINE f1 == [f EXCEPT ![r].pc = p]
           f2 == [f1 EXCEPT ![r].todo = T]
<1>1. f1 = [f EXCEPT ![r].pc = p]
  OBVIOUS
<1>2. f2 = [f1 EXCEPT ![r].todo = T]
  OBVIOUS
<1>3. g = [f2 EXCEPT ![r].got = G]
  OBVIOUS
<1> HIDE DEF f1, f2
<1>4. Turn(f, f1, r, p)
  BY <1>1, FirstTurnPc DEF OtherFields
<1>5. Turn(f, f2, r, p)
  BY <1>2, <1>4, NextTurn DEF OtherFields
<1>6. Turn(f, g, r, p)
  BY <1>3, <1>5, NextTurn DEF OtherFields
<1> QED BY <1>6

LEMMA PcTodoGotFresh ==
  ASSUME Shaped, NEW r \in DOMAIN reqs, NEW p, NEW T, NEW G, p \notin StalePcs,
         reqs' = [reqs EXCEPT ![r].pc = p, ![r].todo = T, ![r].got = G]
  PROVE  Fresh(r)
<1>1. PICK f, g : f = reqs /\ g = reqs'
  OBVIOUS
<1>2. Turn(f, g, r, p)
  BY <1>1, PcTodoGotTurn, Zenon DEF Shaped, ReqsIn
<1> QED BY <1>1, <1>2, TurnsFresh

LEMMA TailFilesTurn ==
  ASSUME NEW f, NEW W, f \in [DOMAIN f -> Request(W)], NEW r \in DOMAIN f, NEW X,
         NEW g, g = [f EXCEPT ![r].todo = Tail(@), ![r].got.files = @ \cup X]
  PROVE  Turn(f, g, r, f[r].pc)
<1> DEFINE f1 == [f EXCEPT ![r].todo = Tail(@)]
           x1 == Tail(f[r].todo)
           x2 == [f1[r].got EXCEPT !.files = @ \cup X]
<1>1. f1 = [f EXCEPT ![r].todo = x1]
  OBVIOUS
<1>2. g = [f1 EXCEPT ![r].got = x2]
  OBVIOUS
<1> HIDE DEF f1, x1, x2
<1>3. Turn(f, f1, r, f[r].pc)
  BY <1>1, FirstTurn DEF OtherFields
<1>4. Turn(f, g, r, f[r].pc)
  BY <1>2, <1>3, NextTurn DEF OtherFields
<1> QED BY <1>4

LEMMA TailFilesFresh ==
  ASSUME Shaped, NEW r \in DOMAIN reqs, NEW X, reqs[r].pc \notin StalePcs,
         reqs' = [reqs EXCEPT ![r].todo = Tail(@), ![r].got.files = @ \cup X]
  PROVE  Fresh(r)
<1>1. PICK f, g : f = reqs /\ g = reqs'
  OBVIOUS
<1>2. Turn(f, g, r, f[r].pc)
  BY <1>1, TailFilesTurn, Zenon DEF Shaped, ReqsIn
<1> QED BY <1>1, <1>2, TurnsFresh

LEMMA TailMergedTurn ==
  ASSUME NEW f, NEW W, f \in [DOMAIN f -> Request(W)], NEW r \in DOMAIN f, NEW X,
         NEW g, g = [f EXCEPT ![r].todo = Tail(@), ![r].got.merged = @ \cup X]
  PROVE  Turn(f, g, r, f[r].pc)
<1> DEFINE f1 == [f EXCEPT ![r].todo = Tail(@)]
           x1 == Tail(f[r].todo)
           x2 == [f1[r].got EXCEPT !.merged = @ \cup X]
<1>1. f1 = [f EXCEPT ![r].todo = x1]
  OBVIOUS
<1>2. g = [f1 EXCEPT ![r].got = x2]
  OBVIOUS
<1> HIDE DEF f1, x1, x2
<1>3. Turn(f, f1, r, f[r].pc)
  BY <1>1, FirstTurn DEF OtherFields
<1>4. Turn(f, g, r, f[r].pc)
  BY <1>2, <1>3, NextTurn DEF OtherFields
<1> QED BY <1>4

LEMMA TailMergedFresh ==
  ASSUME Shaped, NEW r \in DOMAIN reqs, NEW X, reqs[r].pc \notin StalePcs,
         reqs' = [reqs EXCEPT ![r].todo = Tail(@), ![r].got.merged = @ \cup X]
  PROVE  Fresh(r)
<1>1. PICK f, g : f = reqs /\ g = reqs'
  OBVIOUS
<1>2. Turn(f, g, r, f[r].pc)
  BY <1>1, TailMergedTurn, Zenon DEF Shaped, ReqsIn
<1> QED BY <1>1, <1>2, TurnsFresh

LEMMA TailAppliedTurn ==
  ASSUME NEW f, NEW W, f \in [DOMAIN f -> Request(W)], NEW r \in DOMAIN f,
         NEW g, g = [f EXCEPT ![r].todo = Tail(@), ![r].got.applied = TRUE]
  PROVE  Turn(f, g, r, f[r].pc)
<1> DEFINE f1 == [f EXCEPT ![r].todo = Tail(@)]
           x1 == Tail(f[r].todo)
           x2 == [f1[r].got EXCEPT !.applied = TRUE]
<1>1. f1 = [f EXCEPT ![r].todo = x1]
  OBVIOUS
<1>2. g = [f1 EXCEPT ![r].got = x2]
  OBVIOUS
<1> HIDE DEF f1, x1, x2
<1>3. Turn(f, f1, r, f[r].pc)
  BY <1>1, FirstTurn DEF OtherFields
<1>4. Turn(f, g, r, f[r].pc)
  BY <1>2, <1>3, NextTurn DEF OtherFields
<1> QED BY <1>4

LEMMA TailAppliedFresh ==
  ASSUME Shaped, NEW r \in DOMAIN reqs, reqs[r].pc \notin StalePcs,
         reqs' = [reqs EXCEPT ![r].todo = Tail(@), ![r].got.applied = TRUE]
  PROVE  Fresh(r)
<1>1. PICK f, g : f = reqs /\ g = reqs'
  OBVIOUS
<1>2. Turn(f, g, r, f[r].pc)
  BY <1>1, TailAppliedTurn, Zenon DEF Shaped, ReqsIn
<1> QED BY <1>1, <1>2, TurnsFresh

LEMMA TakeFileTurn ==
  ASSUME NEW f, NEW W, f \in [DOMAIN f -> Request(W)], NEW r \in DOMAIN f, NEW X, NEW Y,
         NEW g, g = [f EXCEPT ![r].got.files = @ \ {X}, ![r].got.listed = @ \cup Y]
  PROVE  Turn(f, g, r, f[r].pc)
<1> DEFINE f1 == [f EXCEPT ![r].got.files = @ \ {X}]
           x1 == [f[r].got EXCEPT !.files = @ \ {X}]
           x2 == [f1[r].got EXCEPT !.listed = @ \cup Y]
<1>1. f1 = [f EXCEPT ![r].got = x1]
  OBVIOUS
<1>2. g = [f1 EXCEPT ![r].got = x2]
  OBVIOUS
<1> HIDE DEF f1, x1, x2
<1>3. Turn(f, f1, r, f[r].pc)
  BY <1>1, FirstTurn DEF OtherFields
<1>4. Turn(f, g, r, f[r].pc)
  BY <1>2, <1>3, NextTurn DEF OtherFields
<1> QED BY <1>4

LEMMA TakeFileFresh ==
  ASSUME Shaped, NEW r \in DOMAIN reqs, NEW X, NEW Y, reqs[r].pc \notin StalePcs,
         reqs' = [reqs EXCEPT ![r].got.files = @ \ {X}, ![r].got.listed = @ \cup Y]
  PROVE  Fresh(r)
<1>1. PICK f, g : f = reqs /\ g = reqs'
  OBVIOUS
<1>2. Turn(f, g, r, f[r].pc)
  BY <1>1, TakeFileTurn, Zenon DEF Shaped, ReqsIn
<1> QED BY <1>1, <1>2, TurnsFresh

LEMMA ScanStoreTurn ==
  ASSUME NEW f, NEW W, f \in [DOMAIN f -> Request(W)], NEW r \in DOMAIN f, NEW X, NEW Y,
         NEW g, g = [f EXCEPT ![r].got.stores = @ \ {X}, ![r].got.filter = bloom_union(@, Y)]
  PROVE  Turn(f, g, r, f[r].pc)
<1> DEFINE f1 == [f EXCEPT ![r].got.stores = @ \ {X}]
           x1 == [f[r].got EXCEPT !.stores = @ \ {X}]
           x2 == [f1[r].got EXCEPT !.filter = bloom_union(@, Y)]
<1>1. f1 = [f EXCEPT ![r].got = x1]
  OBVIOUS
<1>2. g = [f1 EXCEPT ![r].got = x2]
  OBVIOUS
<1> HIDE DEF f1, x1, x2
<1>3. Turn(f, f1, r, f[r].pc)
  BY <1>1, FirstTurn DEF OtherFields
<1>4. Turn(f, g, r, f[r].pc)
  BY <1>2, <1>3, NextTurn DEF OtherFields
<1> QED BY <1>4

LEMMA ScanStoreFresh ==
  ASSUME Shaped, NEW r \in DOMAIN reqs, NEW X, NEW Y, reqs[r].pc \notin StalePcs,
         reqs' = [reqs EXCEPT ![r].got.stores = @ \ {X}, ![r].got.filter = bloom_union(@, Y)]
  PROVE  Fresh(r)
<1>1. PICK f, g : f = reqs /\ g = reqs'
  OBVIOUS
<1>2. Turn(f, g, r, f[r].pc)
  BY <1>1, ScanStoreTurn, Zenon DEF Shaped, ReqsIn
<1> QED BY <1>1, <1>2, TurnsFresh

LEMMA ScanRecordsTurn ==
  ASSUME NEW f, NEW W, f \in [DOMAIN f -> Request(W)], NEW r \in DOMAIN f, NEW X, NEW Y,
         NEW g, g = [f EXCEPT ![r].got.stores = @ \ {X}, ![r].got.work = Y]
  PROVE  Turn(f, g, r, f[r].pc)
<1> DEFINE f1 == [f EXCEPT ![r].got.stores = @ \ {X}]
           x1 == [f[r].got EXCEPT !.stores = @ \ {X}]
           x2 == [f1[r].got EXCEPT !.work = Y]
<1>1. f1 = [f EXCEPT ![r].got = x1]
  OBVIOUS
<1>2. g = [f1 EXCEPT ![r].got = x2]
  OBVIOUS
<1> HIDE DEF f1, x1, x2
<1>3. Turn(f, f1, r, f[r].pc)
  BY <1>1, FirstTurn DEF OtherFields
<1>4. Turn(f, g, r, f[r].pc)
  BY <1>2, <1>3, NextTurn DEF OtherFields
<1> QED BY <1>4

LEMMA ScanRecordsFresh ==
  ASSUME Shaped, NEW r \in DOMAIN reqs, NEW X, NEW Y, reqs[r].pc \notin StalePcs,
         reqs' = [reqs EXCEPT ![r].got.stores = @ \ {X}, ![r].got.work = Y]
  PROVE  Fresh(r)
<1>1. PICK f, g : f = reqs /\ g = reqs'
  OBVIOUS
<1>2. Turn(f, g, r, f[r].pc)
  BY <1>1, ScanRecordsTurn, Zenon DEF Shaped, ReqsIn
<1> QED BY <1>1, <1>2, TurnsFresh

LEMMA VerifyTurn ==
  ASSUME NEW f, NEW W, f \in [DOMAIN f -> Request(W)], NEW r \in DOMAIN f, NEW X, NEW Y,
         NEW g, g = [f EXCEPT ![r].got.work = @ \ {X}, ![r].got.missing = @ \cup Y]
  PROVE  Turn(f, g, r, f[r].pc)
<1> DEFINE f1 == [f EXCEPT ![r].got.work = @ \ {X}]
           x1 == [f[r].got EXCEPT !.work = @ \ {X}]
           x2 == [f1[r].got EXCEPT !.missing = @ \cup Y]
<1>1. f1 = [f EXCEPT ![r].got = x1]
  OBVIOUS
<1>2. g = [f1 EXCEPT ![r].got = x2]
  OBVIOUS
<1> HIDE DEF f1, x1, x2
<1>3. Turn(f, f1, r, f[r].pc)
  BY <1>1, FirstTurn DEF OtherFields
<1>4. Turn(f, g, r, f[r].pc)
  BY <1>2, <1>3, NextTurn DEF OtherFields
<1> QED BY <1>4

LEMMA VerifyFresh ==
  ASSUME Shaped, NEW r \in DOMAIN reqs, NEW X, NEW Y, reqs[r].pc \notin StalePcs,
         reqs' = [reqs EXCEPT ![r].got.work = @ \ {X}, ![r].got.missing = @ \cup Y]
  PROVE  Fresh(r)
<1>1. PICK f, g : f = reqs /\ g = reqs'
  OBVIOUS
<1>2. Turn(f, g, r, f[r].pc)
  BY <1>1, VerifyTurn, Zenon DEF Shaped, ReqsIn
<1> QED BY <1>1, <1>2, TurnsFresh

LEMMA PlanTurn ==
  ASSUME NEW f, NEW W, f \in [DOMAIN f -> Request(W)], NEW r \in DOMAIN f, NEW p, NEW X, NEW T,
         NEW g, g = [f EXCEPT ![r].pc = p,
             ![r].got.moved = @ \cup X, ![r].todo = T]
  PROVE  Turn(f, g, r, p)
<1> DEFINE f1 == [f EXCEPT ![r].pc = p]
           f2 == [f1 EXCEPT ![r].got.moved = @ \cup X]
           x2 == [f1[r].got EXCEPT !.moved = @ \cup X]
<1>1. f1 = [f EXCEPT ![r].pc = p]
  OBVIOUS
<1>2. f2 = [f1 EXCEPT ![r].got = x2]
  OBVIOUS
<1>3. g = [f2 EXCEPT ![r].todo = T]
  OBVIOUS
<1> HIDE DEF f1, f2, x2
<1>4. Turn(f, f1, r, p)
  BY <1>1, FirstTurnPc DEF OtherFields
<1>5. Turn(f, f2, r, p)
  BY <1>2, <1>4, NextTurn DEF OtherFields
<1>6. Turn(f, g, r, p)
  BY <1>3, <1>5, NextTurn DEF OtherFields
<1> QED BY <1>6

LEMMA PlanFresh ==
  ASSUME Shaped, NEW r \in DOMAIN reqs, NEW p, NEW X, NEW T, p \notin StalePcs,
         reqs' = [reqs EXCEPT ![r].pc = p,
             ![r].got.moved = @ \cup X, ![r].todo = T]
  PROVE  Fresh(r)
<1>1. PICK f, g : f = reqs /\ g = reqs'
  OBVIOUS
<1>2. Turn(f, g, r, p)
  BY <1>1, PlanTurn, Zenon DEF Shaped, ReqsIn
<1> QED BY <1>1, <1>2, TurnsFresh

LEMMA PlaceTurn ==
  ASSUME NEW f, NEW W, f \in [DOMAIN f -> Request(W)], NEW r \in DOMAIN f, NEW p, NEW X, NEW T,
         NEW g, g = [f EXCEPT ![r].pc = p, ![r].got.applied = FALSE,
             ![r].got.moved = @ \cup X, ![r].todo = T]
  PROVE  Turn(f, g, r, p)
<1> DEFINE f1 == [f EXCEPT ![r].pc = p]
           f2 == [f1 EXCEPT ![r].got.applied = FALSE]
           x2 == [f1[r].got EXCEPT !.applied = FALSE]
           f3 == [f2 EXCEPT ![r].got.moved = @ \cup X]
           x3 == [f2[r].got EXCEPT !.moved = @ \cup X]
<1>1. f1 = [f EXCEPT ![r].pc = p]
  OBVIOUS
<1>2. f2 = [f1 EXCEPT ![r].got = x2]
  OBVIOUS
<1>3. f3 = [f2 EXCEPT ![r].got = x3]
  OBVIOUS
<1>4. g = [f3 EXCEPT ![r].todo = T]
  BY ZenonT(60)
<1> HIDE DEF f1, f2, x2, f3, x3
<1>5. Turn(f, f1, r, p)
  BY <1>1, FirstTurnPc DEF OtherFields
<1>6. Turn(f, f2, r, p)
  BY <1>2, <1>5, NextTurn DEF OtherFields
<1>7. Turn(f, f3, r, p)
  BY <1>3, <1>6, NextTurn DEF OtherFields
<1>8. Turn(f, g, r, p)
  BY <1>4, <1>7, NextTurn DEF OtherFields
<1> QED BY <1>8

LEMMA PlaceFresh ==
  ASSUME Shaped, NEW r \in DOMAIN reqs, NEW p, NEW X, NEW T, p \notin StalePcs,
         reqs' = [reqs EXCEPT ![r].pc = p, ![r].got.applied = FALSE,
             ![r].got.moved = @ \cup X, ![r].todo = T]
  PROVE  Fresh(r)
<1>1. PICK f, g : f = reqs /\ g = reqs'
  OBVIOUS
<1>2. Turn(f, g, r, p)
  BY <1>1, PlaceTurn, Zenon DEF Shaped, ReqsIn
<1> QED BY <1>1, <1>2, TurnsFresh

LEMMA Going ==
  ASSUME RequestsFit, NEW r \in DOMAIN reqs, Kind(r) \notin IdentityKinds, reqs[r].pc # "start"
  PROVE  reqs[r].pc \notin StalePcs
BY DEF RequestsFit, PcFits, StalePcs

LEMMA Calm_create_repo ==
  ASSUME Shaped, RequestsFit, NEW r \in DOMAIN reqs, create_repo(r)
  PROVE  Calm(r)
<1>1. Kind(r) \notin IdentityKinds
  BY NotIdentity DEF create_repo, Asks, IdentityKinds, UserKinds, IdentityPcs, CommonPcs
<1>2. Fresh(r)
  BY GotoFresh, ReplyFresh DEF create_repo, StalePcs, IdentityPcs
<1>3. Unwritten
  BY KvSame DEF create_repo
<1>4. SecretsStay /\ risk \subseteq risk'
  BY MemSame DEF create_repo, Kept
<1> QED BY <1>1, <1>2, <1>3, <1>4, CalmFrom

LEMMA Calm_create_repo_free ==
  ASSUME Shaped, RequestsFit, NEW r \in DOMAIN reqs, create_repo_free(r)
  PROVE  Calm(r)
<1>1. Kind(r) \notin IdentityKinds
  BY NotIdentity DEF create_repo_free, At, IdentityKinds, UserKinds, IdentityPcs, CommonPcs
<1>2. Fresh(r)
  BY GotoFresh, ReplyFresh DEF create_repo_free, StalePcs, IdentityPcs
<1>3. Unwritten
  BY KvSame DEF create_repo_free
<1>4. SecretsStay /\ risk \subseteq risk'
  BY MemSame DEF create_repo_free, Kept
<1> QED BY <1>1, <1>2, <1>3, <1>4, CalmFrom

LEMMA Calm_create_repo_put ==
  ASSUME Shaped, RequestsFit, NEW r \in DOMAIN reqs, create_repo_put(r)
  PROVE  Calm(r)
<1>1. Kind(r) \notin IdentityKinds
  BY NotIdentity DEF create_repo_put, At, IdentityKinds, UserKinds, IdentityPcs, CommonPcs
<1>2. Fresh(r)
  BY WrittenFresh DEF create_repo_put, StalePcs, IdentityPcs
<1>3. Unwritten
  BY Kv_repos DEF create_repo_put
<1>4. SecretsStay /\ risk \subseteq risk'
  BY MemSame DEF create_repo_put, Kept, Risk
<1> QED BY <1>1, <1>2, <1>3, <1>4, CalmFrom

LEMMA Calm_update_repo ==
  ASSUME Shaped, RequestsFit, NEW r \in DOMAIN reqs, update_repo(r)
  PROVE  Calm(r)
<1>1. Kind(r) \notin IdentityKinds
  BY NotIdentity DEF update_repo, Asks, IdentityKinds, UserKinds, IdentityPcs, CommonPcs
<1>2. Fresh(r)
  BY ReplyFresh, KeepFresh DEF update_repo, StalePcs, IdentityPcs
<1>3. Unwritten
  BY KvSame DEF update_repo
<1>4. SecretsStay /\ risk \subseteq risk'
  BY MemSame DEF update_repo, Kept
<1> QED BY <1>1, <1>2, <1>3, <1>4, CalmFrom

LEMMA Calm_update_repo_put ==
  ASSUME Shaped, RequestsFit, NEW r \in DOMAIN reqs, update_repo_put(r)
  PROVE  Calm(r)
<1>1. Kind(r) \notin IdentityKinds
  BY NotIdentity DEF update_repo_put, At, IdentityKinds, UserKinds, IdentityPcs, CommonPcs
<1>2. Fresh(r)
  BY WrittenFresh DEF update_repo_put, StalePcs, IdentityPcs
<1>3. Unwritten
  BY Kv_repos DEF update_repo_put
<1>4. SecretsStay /\ risk \subseteq risk'
  BY MemSame DEF update_repo_put, Kept, Risk
<1> QED BY <1>1, <1>2, <1>3, <1>4, CalmFrom

LEMMA Calm_delete_repo ==
  ASSUME Shaped, RequestsFit, NEW r \in DOMAIN reqs, delete_repo(r)
  PROVE  Calm(r)
<1>1. Kind(r) \notin IdentityKinds
  BY NotIdentity DEF delete_repo, Asks, IdentityKinds, UserKinds, IdentityPcs, CommonPcs
<1>2. Fresh(r)
  BY ReplyFresh, KeepFresh, WrittenFresh DEF delete_repo, StalePcs, IdentityPcs
<1>3. Unwritten
  BY KvSame DEF delete_repo
<1>4. SecretsStay /\ risk \subseteq risk'
  BY MemSame DEF delete_repo, Kept
<1> QED BY <1>1, <1>2, <1>3, <1>4, CalmFrom

LEMMA Calm_delete_repo_mark ==
  ASSUME Shaped, RequestsFit, NEW r \in DOMAIN reqs, delete_repo_mark(r)
  PROVE  Calm(r)
<1>1. Kind(r) \notin IdentityKinds
  BY NotIdentity DEF delete_repo_mark, At, IdentityKinds, UserKinds, IdentityPcs, CommonPcs
<1>2. Fresh(r)
  BY ReplyFresh, WrittenFresh DEF delete_repo_mark, StalePcs, IdentityPcs
<1>3. Unwritten
  BY KvSame, Kv_repos DEF delete_repo_mark
<1>4. SecretsStay /\ risk \subseteq risk'
  BY MemSame DEF delete_repo_mark, Kept
<1> QED BY <1>1, <1>2, <1>3, <1>4, CalmFrom

LEMMA Calm_clone_repo ==
  ASSUME Shaped, RequestsFit, NEW r \in DOMAIN reqs, clone_repo(r)
  PROVE  Calm(r)
<1>1. Kind(r) \notin IdentityKinds
  BY NotIdentity DEF clone_repo, Asks, IdentityKinds, UserKinds, IdentityPcs, CommonPcs
<1>2. Fresh(r)
  BY ReplyFresh, KeepFresh DEF clone_repo, StalePcs, IdentityPcs
<1>3. Unwritten
  BY KvSame, Kv_tasks DEF clone_repo
<1>4. SecretsStay /\ risk \subseteq risk'
  BY MemSame DEF clone_repo, Kept
<1> QED BY <1>1, <1>2, <1>3, <1>4, CalmFrom

LEMMA Calm_clone_reserve ==
  ASSUME Shaped, RequestsFit, NEW r \in DOMAIN reqs, clone_reserve(r)
  PROVE  Calm(r)
<1>1. Kind(r) \notin IdentityKinds
  BY NotIdentity DEF clone_reserve, At, IdentityKinds, UserKinds, IdentityPcs, CommonPcs
<1>2. Fresh(r)
  BY ReplyFresh, KeepFresh DEF clone_reserve, StalePcs, IdentityPcs
<1>3. Unwritten
  BY KvSame, Kv_repos, Kv_tasks DEF clone_reserve
<1>4. SecretsStay /\ risk \subseteq risk'
  BY MemSame DEF clone_reserve, Kept, Risk
<1> QED BY <1>1, <1>2, <1>3, <1>4, CalmFrom

LEMMA Calm_copy_partition ==
  ASSUME Shaped, RequestsFit, NEW r \in DOMAIN reqs, copy_partition(r)
  PROVE  Calm(r)
<1>1. Kind(r) \notin IdentityKinds
  BY NotIdentity DEF copy_partition, At, IdentityKinds, UserKinds, IdentityPcs, CommonPcs
<1>2. Fresh(r)
  BY KeepFresh DEF copy_partition, StalePcs, IdentityPcs
<1>3. Unwritten
  BY Kv_arts, Kv_tree DEF copy_partition
<1>4. SecretsStay /\ risk \subseteq risk'
  BY MemSame DEF copy_partition, Kept, Risk
<1> QED BY <1>1, <1>2, <1>3, <1>4, CalmFrom

LEMMA Calm_clone_next ==
  ASSUME Shaped, RequestsFit, NEW r \in DOMAIN reqs, clone_next(r)
  PROVE  Calm(r)
<1>1. Kind(r) \notin IdentityKinds
  BY NotIdentity DEF clone_next, At, IdentityKinds, UserKinds, IdentityPcs, CommonPcs
<1>2. Fresh(r)
  BY ReplyFresh, KeepFresh DEF clone_next, StalePcs, IdentityPcs
<1>3. Unwritten
  BY KvSame, Kv_tasks DEF clone_next
<1>4. SecretsStay /\ risk \subseteq risk'
  BY MemSame DEF clone_next, Kept
<1> QED BY <1>1, <1>2, <1>3, <1>4, CalmFrom

LEMMA Calm_create_store ==
  ASSUME Shaped, RequestsFit, NEW r \in DOMAIN reqs, create_store(r)
  PROVE  Calm(r)
<1>1. Kind(r) \notin IdentityKinds
  BY NotIdentity DEF create_store, Asks, At, IdentityKinds, UserKinds, IdentityPcs, CommonPcs
<1>2. Fresh(r)
  BY GotoFresh, ReplyFresh DEF create_store, StalePcs, IdentityPcs
<1>3. Unwritten
  BY KvSame DEF create_store
<1>4. SecretsStay /\ risk \subseteq risk'
  BY MemSame DEF create_store, Kept
<1> QED BY <1>1, <1>2, <1>3, <1>4, CalmFrom

LEMMA Calm_create_store_put ==
  ASSUME Shaped, RequestsFit, NEW r \in DOMAIN reqs, create_store_put(r)
  PROVE  Calm(r)
<1>1. Kind(r) \notin IdentityKinds
  BY NotIdentity DEF create_store_put, At, IdentityKinds, UserKinds, IdentityPcs, CommonPcs
<1>2. Fresh(r)
  BY WrittenFresh DEF create_store_put, StalePcs, IdentityPcs
<1>3. Unwritten
  BY Kv_stores DEF create_store_put
<1>4. SecretsStay /\ risk \subseteq risk'
  BY MemStores DEF create_store_put, Risk, Loaded
<1> QED BY <1>1, <1>2, <1>3, <1>4, CalmFrom

LEMMA Calm_update_store ==
  ASSUME Shaped, RequestsFit, NEW r \in DOMAIN reqs, update_store(r)
  PROVE  Calm(r)
<1>1. Kind(r) \notin IdentityKinds
  BY NotIdentity DEF update_store, Asks, IdentityKinds, UserKinds, IdentityPcs, CommonPcs
<1>2. Fresh(r)
  BY GotoFresh, ReplyFresh DEF update_store, StalePcs, IdentityPcs
<1>3. Unwritten
  BY KvSame DEF update_store
<1>4. SecretsStay /\ risk \subseteq risk'
  BY MemSame DEF update_store, Kept
<1> QED BY <1>1, <1>2, <1>3, <1>4, CalmFrom

LEMMA Calm_update_store_put ==
  ASSUME Shaped, RequestsFit, NEW r \in DOMAIN reqs, update_store_put(r)
  PROVE  Calm(r)
<1>1. Kind(r) \notin IdentityKinds
  BY NotIdentity DEF update_store_put, At, IdentityKinds, UserKinds, IdentityPcs, CommonPcs
<1>2. Fresh(r)
  BY WrittenFresh DEF update_store_put, StalePcs, IdentityPcs
<1>3. Unwritten
  BY Kv_stores DEF update_store_put
<1>4. SecretsStay /\ risk \subseteq risk'
  BY MemStores DEF update_store_put, Risk, Loaded
<1> QED BY <1>1, <1>2, <1>3, <1>4, CalmFrom

LEMMA Calm_delete_store ==
  ASSUME Shaped, RequestsFit, NEW r \in DOMAIN reqs, delete_store(r)
  PROVE  Calm(r)
<1>1. Kind(r) \notin IdentityKinds
  BY NotIdentity DEF delete_store, Asks, At, IdentityKinds, UserKinds, IdentityPcs, CommonPcs
<1>2. Fresh(r)
  BY GotoFresh, ReplyFresh DEF delete_store, StalePcs, IdentityPcs
<1>3. Unwritten
  BY KvSame DEF delete_store
<1>4. SecretsStay /\ risk \subseteq risk'
  BY MemSame DEF delete_store, Kept
<1> QED BY <1>1, <1>2, <1>3, <1>4, CalmFrom

LEMMA Calm_delete_store_remove ==
  ASSUME Shaped, RequestsFit, NEW r \in DOMAIN reqs, delete_store_remove(r)
  PROVE  Calm(r)
<1>1. Kind(r) \notin IdentityKinds
  BY NotIdentity DEF delete_store_remove, At, IdentityKinds, UserKinds, IdentityPcs, CommonPcs
<1>2. Fresh(r)
  BY WrittenFresh DEF delete_store_remove, StalePcs, IdentityPcs
<1>3. Unwritten
  BY Kv_stores DEF delete_store_remove
<1>4. SecretsStay /\ risk \subseteq risk'
  BY MemStores DEF delete_store_remove, Risk, Loaded
<1> QED BY <1>1, <1>2, <1>3, <1>4, CalmFrom

LEMMA Calm_check_store ==
  ASSUME Shaped, RequestsFit, NEW r \in DOMAIN reqs, check_store(r)
  PROVE  Calm(r)
<1>1. Kind(r) \notin IdentityKinds
  BY NotIdentity DEF check_store, Asks, IdentityKinds, UserKinds, IdentityPcs, CommonPcs
<1>2. Fresh(r)
  BY ReplyFresh DEF check_store, StalePcs, IdentityPcs
<1>3. Unwritten
  BY KvSame DEF check_store
<1>4. SecretsStay /\ risk \subseteq risk'
  BY MemSame DEF check_store, Kept
<1> QED BY <1>1, <1>2, <1>3, <1>4, CalmFrom

LEMMA Calm_get_backup ==
  ASSUME Shaped, RequestsFit, NEW r \in DOMAIN reqs, get_backup(r)
  PROVE  Calm(r)
<1>1. Kind(r) \notin IdentityKinds
  BY NotIdentity DEF get_backup, Asks, At, IdentityKinds, UserKinds, IdentityPcs, CommonPcs
<1>2. Fresh(r)
  BY KeepFresh, FinishFresh, Zenon DEF get_backup, StalePcs, IdentityPcs
<1>3. Unwritten
  BY KvSame DEF get_backup
<1>4. SecretsStay /\ risk \subseteq risk'
  BY MemSame DEF get_backup, Kept
<1> QED BY <1>1, <1>2, <1>3, <1>4, CalmFrom

LEMMA Calm_post_restore ==
  ASSUME Shaped, RequestsFit, NEW r \in DOMAIN reqs, post_restore(r)
  PROVE  Calm(r)
<1>1. Kind(r) \notin IdentityKinds
  BY NotIdentity DEF post_restore, Asks, At, IdentityKinds, UserKinds, IdentityPcs, CommonPcs
<1>2. Fresh(r)
  BY ReplyFresh, TakeDocFresh, Zenon DEF post_restore, StalePcs, IdentityPcs
<1>3. Unwritten
  BY KvSame DEF post_restore
<1>4. SecretsStay /\ risk \subseteq risk'
  BY MemSame DEF post_restore, Kept
<1> QED BY <1>1, <1>2, <1>3, <1>4, CalmFrom

LEMMA Calm_restore_put ==
  ASSUME Shaped, RequestsFit, NEW r \in DOMAIN reqs, restore_put(r)
  PROVE  Calm(r)
<1>1. Kind(r) \notin IdentityKinds
  BY NotIdentity DEF restore_put, At, IdentityKinds, UserKinds, IdentityPcs, CommonPcs
<1>2. Fresh(r)
  <2>1. \/ reqs' = [reqs EXCEPT ![r].todo = Tail(@)]
        \/ \E E : reqs' = [reqs EXCEPT ![r].pc = "announce", ![r].todo = Tail(@), ![r].ev = E]
    BY Zenon DEF restore_put
  <2>2. reqs[r].pc = "restore"
    BY DEF restore_put, At
  <2> QED BY <2>1, <2>2, RestoreOneFresh, TodoFresh, Zenon DEF StalePcs, IdentityPcs
<1>3. Unwritten
  <2> DEFINE x == Head(reqs[r].todo)
             doc == reqs[r].got
  <2>1. "restored" \in risk'
    BY DEF restore_put, Risk
  <2>2. CASE kv' = IF doc.role = None THEN kv ELSE [kv EXCEPT !.role = doc.role]
    BY <2>2, KvSame, Kv_role
  <2>3. CASE x.class \in {"stores", "users", "repos"} /\ kv' = [kv EXCEPT ![x.class][x.on] = doc[x.class][x.on]]
    <3> DEFINE y == doc[x.class][x.on]
    <3>1. CASE x.class = "stores"
      <4>1. kv' = [kv EXCEPT !.stores[x.on] = y]
        BY <2>3, <3>1
      <4> HIDE DEF x, y
      <4> QED BY <4>1, Kv_stores
    <3>2. CASE x.class = "repos"
      <4>1. kv' = [kv EXCEPT !.repos[x.on] = y]
        BY <2>3, <3>2
      <4> HIDE DEF x, y
      <4> QED BY <4>1, Kv_repos
    <3>3. CASE x.class = "users"
      <4>1. kv' = [kv EXCEPT !.users[x.on] = y]
        BY <2>3, <3>3
      <4> HIDE DEF x, y
      <4> QED BY <2>1, <4>1, Kv_users
    <3> QED BY <2>3, <3>1, <3>2, <3>3
  <2> QED BY <2>2, <2>3 DEF restore_put
<1>4. SecretsStay /\ risk \subseteq risk'
  BY MemSame DEF restore_put, Kept, Risk
<1> QED BY <1>1, <1>2, <1>3, <1>4, CalmFrom

LEMMA Calm_restore_settings ==
  ASSUME Shaped, RequestsFit, NEW r \in DOMAIN reqs, restore_settings(r)
  PROVE  Calm(r)
<1>1. Kind(r) \notin IdentityKinds
  BY NotIdentity DEF restore_settings, At, IdentityKinds, UserKinds, IdentityPcs, CommonPcs
<1>2. Fresh(r)
  BY GotoFresh DEF restore_settings, StalePcs, IdentityPcs
<1>3. Unwritten
  <2>1. "restored" \in risk'
    BY DEF restore_settings, Risk
  <2>2. \E x : kv' = [kv EXCEPT !.settings = x]
    BY DEF restore_settings
  <2> QED BY <2>1, <2>2, Kv_settings
<1>4. SecretsStay /\ risk \subseteq risk'
  BY MemSame DEF restore_settings, Kept, Risk
<1> QED BY <1>1, <1>2, <1>3, <1>4, CalmFrom

LEMMA Calm_restore_end ==
  ASSUME Shaped, RequestsFit, NEW r \in DOMAIN reqs, restore_end(r)
  PROVE  Calm(r)
<1>1. Kind(r) \notin IdentityKinds
  BY NotIdentity DEF restore_end, At, IdentityKinds, UserKinds, IdentityPcs, CommonPcs
<1>2. Fresh(r)
  BY ReplyFresh DEF restore_end, StalePcs, IdentityPcs
<1>3. Unwritten
  BY KvSame DEF restore_end
<1>4. SecretsStay /\ risk \subseteq risk'
  <2>1. mem' = [mem EXCEPT ![Where(r)] = [invalidate_all(@) EXCEPT !.settings = reqs[r].got.settings]]
    BY DEF restore_end
  <2>2. risk' = risk
    BY DEF restore_end
  <2>3. Where(r) \in Insts
    BY Placed
  <2>4. SecretsStay
    <3>1. PICK i \in Insts : i = Where(r)
      BY <2>3
    <3>2. PICK s : s = reqs[r].got.settings
      OBVIOUS
    <3>3. mem' = [mem EXCEPT ![i] = [invalidate_all(mem[i]) EXCEPT !.settings = s]]
      BY <2>1, <3>1, <3>2
    <3> QED BY <3>3, MemAll
  <2> QED BY <2>2, <2>4
<1> QED BY <1>1, <1>2, <1>3, <1>4, CalmFrom

LEMMA Calm_put_artifact ==
  ASSUME Shaped, RequestsFit, NEW r \in DOMAIN reqs, put_artifact(r)
  PROVE  Calm(r)
<1>1. Kind(r) \notin IdentityKinds
  BY NotIdentity DEF put_artifact, Asks, IdentityKinds, UserKinds, IdentityPcs, CommonPcs
<1>2. Fresh(r)
  BY ReplyFresh, KeepFresh DEF put_artifact, StalePcs, IdentityPcs
<1>3. Unwritten
  BY KvSame DEF put_artifact
<1>4. SecretsStay /\ risk \subseteq risk'
  BY MemSame DEF put_artifact, Kept, Risk
<1> QED BY <1>1, <1>2, <1>3, <1>4, CalmFrom

LEMMA Calm_commit_ingestion ==
  ASSUME Shaped, RequestsFit, NEW r \in DOMAIN reqs, commit_ingestion(r)
  PROVE  Calm(r)
<1>1. Kind(r) \notin IdentityKinds
  BY NotIdentity DEF commit_ingestion, At, IdentityKinds, UserKinds, IdentityPcs, CommonPcs
<1>2. Fresh(r)
  BY KeepFresh DEF commit_ingestion, StalePcs, IdentityPcs
<1>3. Unwritten
  BY Kv_blobs, Kv_recs, Zenon DEF commit_ingestion
<1>4. SecretsStay /\ risk \subseteq risk'
  BY MemSame DEF commit_ingestion, Kept, Risk
<1> QED BY <1>1, <1>2, <1>3, <1>4, CalmFrom

LEMMA Calm_put_record ==
  ASSUME Shaped, RequestsFit, NEW r \in DOMAIN reqs, put_record(r)
  PROVE  Calm(r)
<1>1. Kind(r) \notin IdentityKinds
  BY NotIdentity DEF put_record, At, IdentityKinds, UserKinds, IdentityPcs, CommonPcs
<1>2. Fresh(r)
  BY KeepFresh DEF put_record, StalePcs, IdentityPcs
<1>3. Unwritten
  BY Kv_arts DEF put_record
<1>4. SecretsStay /\ risk \subseteq risk'
  BY MemSame DEF put_record, Kept, Risk
<1> QED BY <1>1, <1>2, <1>3, <1>4, CalmFrom

LEMMA Calm_upsert_tree_file ==
  ASSUME Shaped, RequestsFit, NEW r \in DOMAIN reqs, upsert_tree_file(r)
  PROVE  Calm(r)
<1>1. Kind(r) \notin IdentityKinds
  BY NotIdentity DEF upsert_tree_file, At, IdentityKinds, UserKinds, IdentityPcs, CommonPcs
<1>2. Fresh(r)
  BY ReplyFresh DEF upsert_tree_file, StalePcs, IdentityPcs
<1>3. Unwritten
  BY Kv_tree DEF upsert_tree_file
<1>4. SecretsStay /\ risk \subseteq risk'
  BY MemSame DEF upsert_tree_file, Kept, Risk
<1> QED BY <1>1, <1>2, <1>3, <1>4, CalmFrom

LEMMA Calm_delete_artifact ==
  ASSUME Shaped, RequestsFit, NEW r \in DOMAIN reqs, delete_artifact(r)
  PROVE  Calm(r)
<1>1. Kind(r) \notin IdentityKinds
  BY NotIdentity DEF delete_artifact, Asks, IdentityKinds, UserKinds, IdentityPcs, CommonPcs
<1>2. Fresh(r)
  <2>1. \/ \E w : Reply(r, w)
        \/ \E T : reqs' = [reqs EXCEPT ![r].pc = "delete", ![r].todo = T]
    BY Zenon DEF delete_artifact
  <2>4. ASSUME NEW w, Reply(r, w)
        PROVE  Fresh(r)
    BY <2>4, ReplyFresh
  <2>5. "delete" \notin StalePcs
    BY DEF StalePcs, IdentityPcs
  <2>6. ASSUME NEW T, reqs' = [reqs EXCEPT ![r].pc = "delete", ![r].todo = T]
        PROVE  Fresh(r)
    BY <2>6, <2>5, PcTodoFresh, Zenon
  <2> QED BY <2>1, <2>4, <2>6, Zenon
<1>3. Unwritten
  BY KvSame DEF delete_artifact
<1>4. SecretsStay /\ risk \subseteq risk'
  BY MemSame DEF delete_artifact, Kept, Risk
<1> QED BY <1>1, <1>2, <1>3, <1>4, CalmFrom

LEMMA Calm_delete_record ==
  ASSUME Shaped, RequestsFit, NEW r \in DOMAIN reqs, delete_record(r)
  PROVE  Calm(r)
<1>1. Kind(r) \notin IdentityKinds
  BY NotIdentity DEF delete_record, At, IdentityKinds, UserKinds, IdentityPcs, CommonPcs
<1>2. Fresh(r)
  <2>1. /\ reqs[r].pc # "start"
        /\ \/ \E w : Reply(r, w)
           \/ reqs' = [reqs EXCEPT ![r].todo = Tail(@)]
           \/ \E n : Keep(r, "entry", n)
    BY DEF delete_record, At
  <2> QED BY <2>1, ReplyFresh, KeepFresh, TodoFresh, Going, <1>1 DEF StalePcs, IdentityPcs
<1>3. Unwritten
  BY KvSame, Kv_arts DEF delete_record
<1>4. SecretsStay /\ risk \subseteq risk'
  BY MemSame DEF delete_record, Kept, Risk
<1> QED BY <1>1, <1>2, <1>3, <1>4, CalmFrom

LEMMA Calm_delete_tree_file ==
  ASSUME Shaped, RequestsFit, NEW r \in DOMAIN reqs, delete_tree_file(r)
  PROVE  Calm(r)
<1>1. Kind(r) \notin IdentityKinds
  BY NotIdentity DEF delete_tree_file, At, IdentityKinds, UserKinds, IdentityPcs, CommonPcs
<1>2. Fresh(r)
  BY PcTailFresh, Zenon DEF delete_tree_file, StalePcs, IdentityPcs
<1>3. Unwritten
  BY Kv_tree DEF delete_tree_file
<1>4. SecretsStay /\ risk \subseteq risk'
  BY MemSame DEF delete_tree_file, Kept, Risk
<1> QED BY <1>1, <1>2, <1>3, <1>4, CalmFrom

LEMMA Calm_start_bulk_delete ==
  ASSUME Shaped, RequestsFit, NEW r \in DOMAIN reqs, start_bulk_delete(r)
  PROVE  Calm(r)
<1>1. Kind(r) \notin IdentityKinds
  BY NotIdentity DEF start_bulk_delete, Asks, At, IdentityKinds, UserKinds, IdentityPcs, CommonPcs
<1>2. Fresh(r)
  <2>1. \/ \E w : Reply(r, w)
        \/ \E T : reqs' = [reqs EXCEPT ![r].pc = "bulk_create", ![r].todo = T]
        \/ Goto(r, "bulk_tree")
    BY Zenon DEF start_bulk_delete
  <2>4. ASSUME NEW w, Reply(r, w)
        PROVE  Fresh(r)
    BY <2>4, ReplyFresh
  <2>5. "bulk_create" \notin StalePcs
    BY DEF StalePcs, IdentityPcs
  <2>6. ASSUME NEW T, reqs' = [reqs EXCEPT ![r].pc = "bulk_create", ![r].todo = T]
        PROVE  Fresh(r)
    BY <2>6, <2>5, PcTodoFresh, Zenon
  <2>7. "bulk_tree" \notin StalePcs
    BY DEF StalePcs, IdentityPcs
  <2>8. ASSUME Goto(r, "bulk_tree")
        PROVE  Fresh(r)
    BY <2>8, <2>7, GotoFresh
  <2> QED BY <2>1, <2>4, <2>6, <2>8, Zenon
<1>3. Unwritten
  BY KvSame, Kv_tasks DEF start_bulk_delete
<1>4. SecretsStay /\ risk \subseteq risk'
  BY MemSame DEF start_bulk_delete, Kept, Risk
<1> QED BY <1>1, <1>2, <1>3, <1>4, CalmFrom

LEMMA Calm_delete_tree_recursive ==
  ASSUME Shaped, RequestsFit, NEW r \in DOMAIN reqs, delete_tree_recursive(r)
  PROVE  Calm(r)
<1>1. Kind(r) \notin IdentityKinds
  BY NotIdentity DEF delete_tree_recursive, At, IdentityKinds, UserKinds, IdentityPcs, CommonPcs
<1>2. Fresh(r)
  BY GotoFresh DEF delete_tree_recursive, StalePcs, IdentityPcs
<1>3. Unwritten
  BY Kv_tree DEF delete_tree_recursive
<1>4. SecretsStay /\ risk \subseteq risk'
  BY MemSame DEF delete_tree_recursive, Kept, Risk
<1> QED BY <1>1, <1>2, <1>3, <1>4, CalmFrom

LEMMA Calm_delete_prefix_artifacts ==
  ASSUME Shaped, RequestsFit, NEW r \in DOMAIN reqs, delete_prefix_artifacts(r)
  PROVE  Calm(r)
<1>1. Kind(r) \notin IdentityKinds
  BY NotIdentity DEF delete_prefix_artifacts, At, IdentityKinds, UserKinds, IdentityPcs, CommonPcs
<1>2. Fresh(r)
  <2>1. reqs' = [reqs EXCEPT ![r].pc = "bulk_next", ![r].todo = Tail(@)]
    BY DEF delete_prefix_artifacts
  <2>4. "bulk_next" \notin StalePcs
    BY DEF StalePcs, IdentityPcs
  <2>5. ASSUME reqs' = [reqs EXCEPT ![r].pc = "bulk_next", ![r].todo = Tail(@)]
        PROVE  Fresh(r)
    BY <2>5, <2>4, PcTailFresh, Zenon
  <2> QED BY <2>1, <2>5
<1>3. Unwritten
  BY Kv_arts DEF delete_prefix_artifacts
<1>4. SecretsStay /\ risk \subseteq risk'
  BY MemSame DEF delete_prefix_artifacts, Kept, Risk
<1> QED BY <1>1, <1>2, <1>3, <1>4, CalmFrom

LEMMA Calm_bulk_delete ==
  ASSUME Shaped, RequestsFit, NEW r \in DOMAIN reqs, bulk_delete(r)
  PROVE  Calm(r)
<1>1. Kind(r) \notin IdentityKinds
  BY NotIdentity DEF bulk_delete, At, IdentityKinds, UserKinds, IdentityPcs, CommonPcs
<1>2. Fresh(r)
  BY GotoFresh, ReplyFresh DEF bulk_delete, StalePcs, IdentityPcs
<1>3. Unwritten
  BY KvSame, Kv_tasks DEF bulk_delete
<1>4. SecretsStay /\ risk \subseteq risk'
  BY MemSame DEF bulk_delete, Kept, Risk
<1> QED BY <1>1, <1>2, <1>3, <1>4, CalmFrom

LEMMA Calm_clean_repo ==
  ASSUME Shaped, RequestsFit, NEW r \in DOMAIN reqs, clean_repo(r)
  PROVE  Calm(r)
<1>1. Kind(r) \notin IdentityKinds
  BY NotIdentity DEF clean_repo, Asks, At, IdentityKinds, UserKinds, IdentityPcs, CommonPcs
<1>2. Fresh(r)
  BY GotoFresh, ReplyFresh DEF clean_repo, StalePcs, IdentityPcs
<1>3. Unwritten
  BY KvSame, Kv_tasks DEF clean_repo
<1>4. SecretsStay /\ risk \subseteq risk'
  BY MemSame DEF clean_repo, Kept, Risk
<1> QED BY <1>1, <1>2, <1>3, <1>4, CalmFrom

LEMMA Calm_expire_repo_artifacts ==
  ASSUME Shaped, RequestsFit, NEW r \in DOMAIN reqs, expire_repo_artifacts(r)
  PROVE  Calm(r)
<1>1. Kind(r) \notin IdentityKinds
  BY NotIdentity DEF expire_repo_artifacts, At, IdentityKinds, UserKinds, IdentityPcs, CommonPcs
<1>2. Fresh(r)
  BY KeepFresh DEF expire_repo_artifacts, StalePcs, IdentityPcs
<1>3. Unwritten
  BY KvSame DEF expire_repo_artifacts
<1>4. SecretsStay /\ risk \subseteq risk'
  BY MemSame DEF expire_repo_artifacts, Kept, Risk
<1> QED BY <1>1, <1>2, <1>3, <1>4, CalmFrom

LEMMA Calm_delete_artifacts_paired_batch ==
  ASSUME Shaped, RequestsFit, NEW r \in DOMAIN reqs, delete_artifacts_paired_batch(r)
  PROVE  Calm(r)
<1>1. Kind(r) \notin IdentityKinds
  BY NotIdentity DEF delete_artifacts_paired_batch, At, IdentityKinds, UserKinds, IdentityPcs, CommonPcs
<1>2. Fresh(r)
  BY ReplyFresh, KeepFresh DEF delete_artifacts_paired_batch, StalePcs, IdentityPcs
<1>3. Unwritten
  <2>1. \/ \E x : kv' = [kv EXCEPT !.arts = x]
        \/ \E x, y : kv' = [kv EXCEPT !.tree = x, !.tasks[r] = y]
    BY Zenon DEF delete_artifacts_paired_batch
  <2> QED BY <2>1, Kv_arts, Kv_tree_tasks, Zenon
<1>4. SecretsStay /\ risk \subseteq risk'
  BY MemSame DEF delete_artifacts_paired_batch, Kept, Risk
<1> QED BY <1>1, <1>2, <1>3, <1>4, CalmFrom

LEMMA Calm_collect_archive_files ==
  ASSUME Shaped, RequestsFit, NEW r \in DOMAIN reqs, collect_archive_files(r)
  PROVE  Calm(r)
<1>1. Kind(r) \notin IdentityKinds
  BY NotIdentity DEF collect_archive_files, Asks, At, IdentityKinds, UserKinds, IdentityPcs, CommonPcs
<1>2. Fresh(r)
  <2>0. "collect" \notin StalePcs
    BY DEF StalePcs, IdentityPcs
  <2>1. \/ reqs' = [reqs EXCEPT ![r].pc = "collect", ![r].todo = Listed(On(r)),
            ![r].got = [files |-> {}, listed |-> {}, all |-> {x \in Present(r) : InTree(x)}]]
        \/ At(r, "collect") /\ reqs' = [reqs EXCEPT ![r].todo = Tail(@), ![r].got.files = @ \cup Browsed(Head(reqs[r].todo))]
    BY DEF collect_archive_files
  <2>2. CASE reqs' = [reqs EXCEPT ![r].pc = "collect", ![r].todo = Listed(On(r)),
            ![r].got = [files |-> {}, listed |-> {}, all |-> {x \in Present(r) : InTree(x)}]]
    BY <2>0, <2>2, PcTodoGotFresh, Zenon DEF At
  <2>3. CASE At(r, "collect") /\ reqs' = [reqs EXCEPT ![r].todo = Tail(@), ![r].got.files = @ \cup Browsed(Head(reqs[r].todo))]
    BY <2>0, <2>3, TailFilesFresh, Zenon DEF At
  <2> QED BY <2>1, <2>2, <2>3
<1>3. Unwritten
  BY KvSame DEF collect_archive_files
<1>4. SecretsStay /\ risk \subseteq risk'
  BY MemSame DEF collect_archive_files, Kept
<1> QED BY <1>1, <1>2, <1>3, <1>4, CalmFrom

LEMMA Calm_fetch_for_archive ==
  ASSUME Shaped, RequestsFit, NEW r \in DOMAIN reqs, fetch_for_archive(r)
  PROVE  Calm(r)
<1>1. Kind(r) \notin IdentityKinds
  BY NotIdentity, Zenon DEF fetch_for_archive, At, IdentityKinds, UserKinds, IdentityPcs, CommonPcs
<1>2. Fresh(r)
  <2>1. PICK p, Y : reqs' = [reqs EXCEPT ![r].got.files = @ \ {p}, ![r].got.listed = @ \cup Y]
    BY Zenon DEF fetch_for_archive
  <2>2. reqs[r].pc = "collect"
    BY Zenon DEF fetch_for_archive, At
  <2>3. reqs[r].pc \notin StalePcs
    BY <2>2 DEF StalePcs, IdentityPcs
  <2> QED BY <2>1, <2>3, TakeFileFresh, Zenon
<1>3. Unwritten
  BY KvSame, Zenon DEF fetch_for_archive
<1>4. SecretsStay /\ risk \subseteq risk'
  BY MemSame, Zenon DEF fetch_for_archive, Kept
<1> QED BY <1>1, <1>2, <1>3, <1>4, CalmFrom

LEMMA Calm_download_archive ==
  ASSUME Shaped, RequestsFit, NEW r \in DOMAIN reqs, download_archive(r)
  PROVE  Calm(r)
<1>1. Kind(r) \notin IdentityKinds
  BY NotIdentity DEF download_archive, At, IdentityKinds, UserKinds, IdentityPcs, CommonPcs
<1>2. Fresh(r)
  BY AnsweredFresh DEF download_archive, StalePcs, IdentityPcs
<1>3. Unwritten
  BY KvSame DEF download_archive
<1>4. SecretsStay /\ risk \subseteq risk'
  BY MemSame DEF download_archive, Kept
<1> QED BY <1>1, <1>2, <1>3, <1>4, CalmFrom

LEMMA Calm_get_artifact ==
  ASSUME Shaped, RequestsFit, NEW r \in DOMAIN reqs, get_artifact(r)
  PROVE  Calm(r)
<1>1. Kind(r) \notin IdentityKinds
  BY NotIdentity DEF get_artifact, Asks, IdentityKinds, UserKinds, IdentityPcs, CommonPcs
<1>2. Fresh(r)
  BY ReplyFresh DEF get_artifact, StalePcs, IdentityPcs
<1>3. Unwritten
  BY KvSame DEF get_artifact
<1>4. SecretsStay /\ risk \subseteq risk'
  BY MemSame DEF get_artifact, Kept
<1> QED BY <1>1, <1>2, <1>3, <1>4, CalmFrom

LEMMA Calm_head_artifact ==
  ASSUME Shaped, RequestsFit, NEW r \in DOMAIN reqs, head_artifact(r)
  PROVE  Calm(r)
<1>1. Kind(r) \notin IdentityKinds
  BY NotIdentity DEF head_artifact, Asks, IdentityKinds, UserKinds, IdentityPcs, CommonPcs
<1>2. Fresh(r)
  BY ReplyFresh DEF head_artifact, StalePcs, IdentityPcs
<1>3. Unwritten
  BY KvSame DEF head_artifact
<1>4. SecretsStay /\ risk \subseteq risk'
  BY MemSame DEF head_artifact, Kept
<1> QED BY <1>1, <1>2, <1>3, <1>4, CalmFrom

LEMMA Calm_paginated_merge ==
  ASSUME Shaped, RequestsFit, NEW r \in DOMAIN reqs, paginated_merge(r)
  PROVE  Calm(r)
<1>1. Kind(r) \notin IdentityKinds
  BY NotIdentity DEF paginated_merge, Asks, At, IdentityKinds, UserKinds, IdentityPcs, CommonPcs
<1>2. Fresh(r)
  <2>0. "page" \notin StalePcs
    BY DEF StalePcs, IdentityPcs
  <2>1. \/ reqs' = [reqs EXCEPT ![r].pc = "page", ![r].todo = Listed(On(r)),
            ![r].got = [cursor |-> 0, merged |-> {}, listed |-> {}, all |-> Present(r)]]
        \/ At(r, "page") /\ reqs' = [reqs EXCEPT ![r].todo = Tail(@),
             ![r].got.merged = @ \cup list_artifacts(Head(reqs[r].todo), reqs[r].got.cursor, PageLimit + 1)]
        \/ At(r, "page") /\ reqs' = [reqs EXCEPT ![r].todo = Tail(@)]
    BY DEF paginated_merge
  <2>2. CASE reqs' = [reqs EXCEPT ![r].pc = "page", ![r].todo = Listed(On(r)),
            ![r].got = [cursor |-> 0, merged |-> {}, listed |-> {}, all |-> Present(r)]]
    BY <2>0, <2>2, PcTodoGotFresh, Zenon DEF At
  <2>3. CASE At(r, "page") /\ reqs' = [reqs EXCEPT ![r].todo = Tail(@),
             ![r].got.merged = @ \cup list_artifacts(Head(reqs[r].todo), reqs[r].got.cursor, PageLimit + 1)]
    BY <2>0, <2>3, TailMergedFresh, Zenon DEF At
  <2>4. CASE At(r, "page") /\ reqs' = [reqs EXCEPT ![r].todo = Tail(@)]
    BY <2>0, <2>4, TodoFresh DEF At
  <2> QED BY <2>1, <2>2, <2>3, <2>4
<1>3. Unwritten
  BY KvSame DEF paginated_merge
<1>4. SecretsStay /\ risk \subseteq risk'
  BY MemSame DEF paginated_merge, Risk
<1> QED BY <1>1, <1>2, <1>3, <1>4, CalmFrom

LEMMA Calm_paginate_results ==
  ASSUME Shaped, RequestsFit, NEW r \in DOMAIN reqs, paginate_results(r)
  PROVE  Calm(r)
<1>1. Kind(r) \notin IdentityKinds
  BY NotIdentity DEF paginate_results, At, IdentityKinds, UserKinds, IdentityPcs, CommonPcs
<1>2. Fresh(r)
  <2>1. \E g, T : \/ reqs' = [reqs EXCEPT ![r] = Answered(r, "ok", g)]
                 \/ reqs' = [reqs EXCEPT ![r] = [@ EXCEPT !.todo = T, !.got = g]]
    BY Zenon DEF paginate_results
  <2>2. reqs[r].pc = "page"
    BY DEF paginate_results, At
  <2>3. ASSUME NEW g, NEW T, reqs' = [reqs EXCEPT ![r] = [@ EXCEPT !.todo = T, !.got = g]]
        PROVE  Fresh(r)
    <3> DEFINE v == [reqs[r] EXCEPT !.todo = T, !.got = g]
    <3>1. PICK W : ReqsIn(W)
      BY DEF Shaped
    <3>2. reqs[r] \in Request(W)
      BY <3>1 DEF ReqsIn
    <3>3. v \in Request(W \cup {T, g}) /\ v.ask = reqs[r].ask /\ v.pc = "page"
      BY <2>2, <3>2 DEF Request
    <3>4. reqs' = [reqs EXCEPT ![r] = v]
      BY <2>3
    <3> HIDE DEF v
    <3>5. Turns(r, "page")
      BY <3>1, <3>3, <3>4, SetRequest DEF Turns
    <3> QED BY <3>5 DEF Fresh, StalePcs, IdentityPcs
  <2> QED BY <2>1, <2>3, AnsweredFresh, Zenon
<1>3. Unwritten
  BY KvSame DEF paginate_results
<1>4. SecretsStay /\ risk \subseteq risk'
  BY MemSame DEF paginate_results, Kept
<1> QED BY <1>1, <1>2, <1>3, <1>4, CalmFrom

LEMMA Calm_start_check ==
  ASSUME Shaped, RequestsFit, NEW r \in DOMAIN reqs, start_check(r)
  PROVE  Calm(r)
<1>1. Kind(r) \notin IdentityKinds
  BY NotIdentity DEF start_check, Asks, At, IdentityKinds, UserKinds, IdentityPcs, CommonPcs
<1>2. Fresh(r)
  BY GotoFresh, ReplyFresh DEF start_check, StalePcs, IdentityPcs
<1>3. Unwritten
  BY KvSame, Kv_tasks DEF start_check
<1>4. SecretsStay /\ risk \subseteq risk'
  BY MemSame DEF start_check, Kept
<1> QED BY <1>1, <1>2, <1>3, <1>4, CalmFrom

LEMMA Calm_try_acquire_lease ==
  ASSUME Shaped, RequestsFit, NEW r \in DOMAIN reqs, try_acquire_lease(r)
  PROVE  Calm(r)
<1>1. Kind(r) \notin IdentityKinds
  BY NotIdentity DEF try_acquire_lease, At, IdentityKinds, UserKinds, IdentityPcs, CommonPcs
<1>2. Fresh(r)
  BY GotoFresh, ReplyFresh DEF try_acquire_lease, StalePcs, IdentityPcs
<1>3. Unwritten
  BY KvSame, Kv_tasks DEF try_acquire_lease
<1>4. SecretsStay /\ risk \subseteq risk'
  BY MemSame DEF try_acquire_lease, Kept
<1> QED BY <1>1, <1>2, <1>3, <1>4, CalmFrom

LEMMA Calm_check_begin ==
  ASSUME Shaped, RequestsFit, NEW r \in DOMAIN reqs, check_begin(r)
  PROVE  Calm(r)
<1>1. Kind(r) \notin IdentityKinds
  BY NotIdentity DEF check_begin, At, IdentityKinds, UserKinds, IdentityPcs, CommonPcs
<1>2. Fresh(r)
  BY KeepFresh DEF check_begin, StalePcs, IdentityPcs
<1>3. Unwritten
  BY KvSame DEF check_begin
<1>4. SecretsStay /\ risk \subseteq risk'
  BY MemSame DEF check_begin, Kept
<1> QED BY <1>1, <1>2, <1>3, <1>4, CalmFrom

LEMMA Calm_list_stores ==
  ASSUME Shaped, RequestsFit, NEW r \in DOMAIN reqs, list_stores(r)
  PROVE  Calm(r)
<1>1. Kind(r) \notin IdentityKinds
  BY NotIdentity DEF list_stores, At, IdentityKinds, UserKinds, IdentityPcs, CommonPcs
<1>2. Fresh(r)
  BY KeepFresh DEF list_stores, StalePcs, IdentityPcs
<1>3. Unwritten
  BY KvSame DEF list_stores
<1>4. SecretsStay /\ risk \subseteq risk'
  BY MemSame DEF list_stores, Risk
<1> QED BY <1>1, <1>2, <1>3, <1>4, CalmFrom

LEMMA Calm_scan_all_blobs ==
  ASSUME Shaped, RequestsFit, NEW r \in DOMAIN reqs, scan_all_blobs(r)
  PROVE  Calm(r)
<1>1. Kind(r) \notin IdentityKinds
  BY NotIdentity DEF scan_all_blobs, At, IdentityKinds, UserKinds, IdentityPcs, CommonPcs
<1>2. Fresh(r)
  <2>1. \/ \E s, ids : Listed1(r, s, ids)
        \/ \E s : reqs' = [reqs EXCEPT ![r].got.stores = @ \ {s}]
    BY DEF scan_all_blobs
  <2>2. reqs[r].pc = "chk_scan"
    BY DEF scan_all_blobs, At
  <2>3. reqs[r].pc \notin StalePcs
    BY <2>2 DEF StalePcs, IdentityPcs
  <2>4. ASSUME NEW s, NEW ids, Listed1(r, s, ids)
        PROVE  Fresh(r)
    BY <2>4, <2>3, ScanStoreFresh, Zenon DEF Listed1
  <2>5. ASSUME NEW s, reqs' = [reqs EXCEPT ![r].got.stores = @ \ {s}]
        PROVE  Fresh(r)
    BY <2>5, <2>3, GotFresh
  <2> QED BY <2>1, <2>4, <2>5
<1>3. Unwritten
  BY KvSame DEF scan_all_blobs
<1>4. SecretsStay /\ risk \subseteq risk'
  BY MemSame DEF scan_all_blobs, Risk
<1> QED BY <1>1, <1>2, <1>3, <1>4, CalmFrom

LEMMA Calm_scan_ends ==
  ASSUME Shaped, RequestsFit, NEW r \in DOMAIN reqs, scan_ends(r)
  PROVE  Calm(r)
<1>1. Kind(r) \notin IdentityKinds
  BY NotIdentity DEF scan_ends, At, IdentityKinds, UserKinds, IdentityPcs, CommonPcs
<1>2. Fresh(r)
  BY KeepFresh DEF scan_ends, StalePcs, IdentityPcs
<1>3. Unwritten
  BY KvSame DEF scan_ends
<1>4. SecretsStay /\ risk \subseteq risk'
  BY MemSame DEF scan_ends, Kept
<1> QED BY <1>1, <1>2, <1>3, <1>4, CalmFrom

LEMMA Calm_scan_records ==
  ASSUME Shaped, RequestsFit, NEW r \in DOMAIN reqs, scan_records(r)
  PROVE  Calm(r)
<1>1. Kind(r) \notin IdentityKinds
  BY NotIdentity DEF scan_records, At, IdentityKinds, UserKinds, IdentityPcs, CommonPcs
<1>2. Fresh(r)
  <2>0. "chk_records" \notin StalePcs
    BY DEF StalePcs, IdentityPcs
  <2>1. At(r, "chk_records")
    BY DEF scan_records
  <2>2. PICK s : \/ reqs' = [reqs EXCEPT ![r].got.stores = @ \ {s}, ![r].got.work = {b \in kv.recs : b.store = s}]
                 \/ reqs' = [reqs EXCEPT ![r].got.stores = @ \ {s}]
    BY Zenon DEF scan_records
  <2>3. CASE reqs' = [reqs EXCEPT ![r].got.stores = @ \ {s}, ![r].got.work = {b \in kv.recs : b.store = s}]
    BY <2>0, <2>1, <2>3, ScanRecordsFresh, Zenon DEF At
  <2>4. CASE reqs' = [reqs EXCEPT ![r].got.stores = @ \ {s}]
    BY <2>0, <2>1, <2>4, GotFresh DEF At
  <2> QED BY <2>2, <2>3, <2>4
<1>3. Unwritten
  BY KvSame DEF scan_records
<1>4. SecretsStay /\ risk \subseteq risk'
  BY MemSame DEF scan_records
<1> QED BY <1>1, <1>2, <1>3, <1>4, CalmFrom

LEMMA Calm_verify_blob ==
  ASSUME Shaped, RequestsFit, NEW r \in DOMAIN reqs, verify_blob(r)
  PROVE  Calm(r)
<1>1. Kind(r) \notin IdentityKinds
  BY NotIdentity, Zenon DEF verify_blob, At, IdentityKinds, UserKinds, IdentityPcs, CommonPcs
<1>2. Fresh(r)
  <2>1. PICK b, Y : reqs' = [reqs EXCEPT ![r].got.work = @ \ {b}, ![r].got.missing = @ \cup Y]
    BY Zenon DEF verify_blob
  <2>2. reqs[r].pc = "chk_records"
    BY Zenon DEF verify_blob, At
  <2>3. reqs[r].pc \notin StalePcs
    BY <2>2 DEF StalePcs, IdentityPcs
  <2> QED BY <2>1, <2>3, VerifyFresh, Zenon
<1>3. Unwritten
  BY KvSame, Zenon DEF verify_blob
<1>4. SecretsStay /\ risk \subseteq risk'
  BY MemSame, Zenon DEF verify_blob, Kept
<1> QED BY <1>1, <1>2, <1>3, <1>4, CalmFrom

LEMMA Calm_delete_blob_counted ==
  ASSUME Shaped, RequestsFit, NEW r \in DOMAIN reqs, delete_blob_counted(r)
  PROVE  Calm(r)
<1>1. Kind(r) \notin IdentityKinds
  BY NotIdentity DEF delete_blob_counted, At, IdentityKinds, UserKinds, IdentityPcs, CommonPcs
<1>2. Fresh(r)
  <2>1. \/ \E x : reqs' = [reqs EXCEPT ![r].got["missing"] = x]
        \/ Goto(r, "chk_repo")
    BY DEF delete_blob_counted, Found
  <2>2. reqs[r].pc = "chk_records"
    BY DEF delete_blob_counted, At
  <2>3. reqs[r].pc \notin StalePcs
    BY <2>2 DEF StalePcs, IdentityPcs
  <2>4. ASSUME NEW x, reqs' = [reqs EXCEPT ![r].got["missing"] = x]
        PROVE  Fresh(r)
    BY <2>4, <2>3, GotFresh
  <2>5. "chk_repo" \notin StalePcs
    BY DEF StalePcs, IdentityPcs
  <2>6. ASSUME Goto(r, "chk_repo")
        PROVE  Fresh(r)
    BY <2>6, <2>5, GotoFresh
  <2> QED BY <2>1, <2>4, <2>6
<1>3. Unwritten
  BY KvSame, Kv_recs DEF delete_blob_counted
<1>4. SecretsStay /\ risk \subseteq risk'
  BY MemSame DEF delete_blob_counted, Kept
<1> QED BY <1>1, <1>2, <1>3, <1>4, CalmFrom

LEMMA Calm_fold_all_artifacts ==
  ASSUME Shaped, RequestsFit, NEW r \in DOMAIN reqs, fold_all_artifacts(r)
  PROVE  Calm(r)
<1>1. Kind(r) \notin IdentityKinds
  BY NotIdentity DEF fold_all_artifacts, At, IdentityKinds, UserKinds, IdentityPcs, CommonPcs
<1>2. Fresh(r)
  BY KeepFresh DEF fold_all_artifacts, StalePcs, IdentityPcs
<1>3. Unwritten
  BY KvSame DEF fold_all_artifacts
<1>4. SecretsStay /\ risk \subseteq risk'
  BY MemSame DEF fold_all_artifacts, Risk
<1> QED BY <1>1, <1>2, <1>3, <1>4, CalmFrom

LEMMA Calm_docker_tags ==
  ASSUME Shaped, RequestsFit, NEW r \in DOMAIN reqs, docker_tags(r)
  PROVE  Calm(r)
<1>1. Kind(r) \notin IdentityKinds
  BY NotIdentity, Zenon DEF docker_tags, At, IdentityKinds, UserKinds, IdentityPcs, CommonPcs
<1>2. Fresh(r)
  <2>1. \E X, T : reqs' = [reqs EXCEPT ![r].pc = "chk_fix",
             ![r].got.moved = @ \cup X, ![r].todo = T]
    BY Zenon DEF docker_tags
  <2>4. "chk_fix" \notin StalePcs
    BY DEF StalePcs, IdentityPcs
  <2>5. ASSUME NEW X, NEW T, reqs' = [reqs EXCEPT ![r].pc = "chk_fix",
             ![r].got.moved = @ \cup X, ![r].todo = T]
        PROVE  Fresh(r)
    BY <2>5, <2>4, PlanFresh, Zenon
  <2> QED BY <2>1, <2>5, Zenon
<1>3. Unwritten
  BY KvSame, Zenon DEF docker_tags
<1>4. SecretsStay /\ risk \subseteq risk'
  BY MemSame, Zenon DEF docker_tags, Kept
<1> QED BY <1>1, <1>2, <1>3, <1>4, CalmFrom

LEMMA Calm_fix_delete ==
  ASSUME Shaped, RequestsFit, NEW r \in DOMAIN reqs, fix_delete(r)
  PROVE  Calm(r)
<1>1. Kind(r) \notin IdentityKinds
  BY NotIdentity DEF fix_delete, Fixing, IdentityKinds, UserKinds, IdentityPcs, CommonPcs
<1>2. Fresh(r)
  <2>1. (\E k : Pop(r, k)) \/ Then(r, "delete_entry")
    BY DEF fix_delete
  <2>2. \E T : reqs' = [reqs EXCEPT ![r].todo = T]
    BY <2>1 DEF Pop, Then
  <2>3. reqs[r].pc # "start"
    BY DEF fix_delete, Fixing
  <2> QED BY <2>2, <2>3, Going, <1>1, TodoFresh
<1>3. Unwritten
  BY KvSame, Kv_arts, Kv_tree DEF fix_delete
<1>4. SecretsStay /\ risk \subseteq risk'
  BY MemSame DEF fix_delete, Kept, Risk
<1> QED BY <1>1, <1>2, <1>3, <1>4, CalmFrom

LEMMA Calm_fix_look ==
  ASSUME Shaped, RequestsFit, NEW r \in DOMAIN reqs, fix_look(r)
  PROVE  Calm(r)
<1>1. Kind(r) \notin IdentityKinds
  BY NotIdentity DEF fix_look, Fixing, IdentityKinds, UserKinds, IdentityPcs, CommonPcs
<1>2. Fresh(r)
  <2>1. Pop(r, 1) \/ Then(r, "put")
    BY DEF fix_look
  <2>2. \E T : reqs' = [reqs EXCEPT ![r].todo = T]
    BY <2>1 DEF Pop, Then
  <2>3. reqs[r].pc # "start"
    BY DEF fix_look, Fixing
  <2> QED BY <2>2, <2>3, Going, <1>1, TodoFresh
<1>3. Unwritten
  BY KvSame DEF fix_look
<1>4. SecretsStay /\ risk \subseteq risk'
  BY MemSame DEF fix_look, Kept, Risk
<1> QED BY <1>1, <1>2, <1>3, <1>4, CalmFrom

LEMMA Calm_fix_put ==
  ASSUME Shaped, RequestsFit, NEW r \in DOMAIN reqs, fix_put(r)
  PROVE  Calm(r)
<1>1. Kind(r) \notin IdentityKinds
  BY NotIdentity DEF fix_put, Fixing, IdentityKinds, UserKinds, IdentityPcs, CommonPcs
<1>2. Fresh(r)
  <2>1. \/ Then(r, "put_entry")
        \/ reqs' = [reqs EXCEPT ![r].todo = Tail(@), ![r].got.applied = TRUE]
    BY DEF fix_put
  <2>2. reqs[r].pc # "start"
    BY DEF fix_put, Fixing
  <2>3. CASE Then(r, "put_entry")
    BY <2>2, <2>3, Going, <1>1, TodoFresh DEF Then
  <2>4. CASE reqs' = [reqs EXCEPT ![r].todo = Tail(@), ![r].got.applied = TRUE]
    BY <2>2, <2>4, Going, <1>1, TailAppliedFresh, Zenon
  <2> QED BY <2>1, <2>3, <2>4
<1>3. Unwritten
  BY Kv_arts, Kv_tree DEF fix_put
<1>4. SecretsStay /\ risk \subseteq risk'
  BY MemSame DEF fix_put, Kept, Risk
<1> QED BY <1>1, <1>2, <1>3, <1>4, CalmFrom

LEMMA Calm_check_helm_canonicalization ==
  ASSUME Shaped, RequestsFit, NEW r \in DOMAIN reqs, check_helm_canonicalization(r)
  PROVE  Calm(r)
<1>1. Kind(r) \notin IdentityKinds
  BY NotIdentity DEF check_helm_canonicalization, At, IdentityKinds, UserKinds, IdentityPcs, CommonPcs
<1>2. Fresh(r)
  <2>1. \/ \E X, T : reqs' = [reqs EXCEPT ![r].pc = "chk_place", ![r].got.applied = FALSE,
             ![r].got.moved = @ \cup X, ![r].todo = T]
        \/ Goto(r, "chk_repo")
    BY Zenon DEF check_helm_canonicalization
  <2>4. "chk_place" \notin StalePcs
    BY DEF StalePcs, IdentityPcs
  <2>5. ASSUME NEW X, NEW T, reqs' = [reqs EXCEPT ![r].pc = "chk_place", ![r].got.applied = FALSE,
             ![r].got.moved = @ \cup X, ![r].todo = T]
        PROVE  Fresh(r)
    BY <2>5, <2>4, PlaceFresh, Zenon
  <2>6. "chk_repo" \notin StalePcs
    BY DEF StalePcs, IdentityPcs
  <2>7. ASSUME Goto(r, "chk_repo")
        PROVE  Fresh(r)
    BY <2>7, <2>6, GotoFresh
  <2> QED BY <2>1, <2>5, <2>7, Zenon
<1>3. Unwritten
  BY KvSame, Kv_stale DEF check_helm_canonicalization
<1>4. SecretsStay /\ risk \subseteq risk'
  BY MemSame DEF check_helm_canonicalization, Kept
<1> QED BY <1>1, <1>2, <1>3, <1>4, CalmFrom

LEMMA Calm_run_check_ends ==
  ASSUME Shaped, RequestsFit, NEW r \in DOMAIN reqs, run_check_ends(r)
  PROVE  Calm(r)
<1>1. Kind(r) \notin IdentityKinds
  BY NotIdentity DEF run_check_ends, At, IdentityKinds, UserKinds, IdentityPcs, CommonPcs
<1>2. Fresh(r)
  BY AnsweredFresh DEF run_check_ends, StalePcs, IdentityPcs
<1>3. Unwritten
  BY Kv_tasks DEF run_check_ends
<1>4. SecretsStay /\ risk \subseteq risk'
  BY MemSame DEF run_check_ends, Kept
<1> QED BY <1>1, <1>2, <1>3, <1>4, CalmFrom

LEMMA Calm_fix_fails ==
  ASSUME Shaped, RequestsFit, NEW r \in DOMAIN reqs, fix_fails(r)
  PROVE  Calm(r)
<1>1. Kind(r) \notin IdentityKinds
  BY NotIdentity DEF fix_fails, Fixing, IdentityKinds, UserKinds, IdentityPcs, CommonPcs
<1>2. Fresh(r)
  <2>1. \E k : Pop(r, k)
    BY DEF fix_fails
  <2>2. \E T : reqs' = [reqs EXCEPT ![r].todo = T]
    BY <2>1 DEF Pop, Then
  <2>3. reqs[r].pc # "start"
    BY DEF fix_fails, Fixing
  <2> QED BY <2>2, <2>3, Going, <1>1, TodoFresh
<1>3. Unwritten
  BY KvSame DEF fix_fails
<1>4. SecretsStay /\ risk \subseteq risk'
  BY MemSame DEF fix_fails, Risk
<1> QED BY <1>1, <1>2, <1>3, <1>4, CalmFrom

LEMMA Calm_check_cancelled ==
  ASSUME Shaped, RequestsFit, NEW r \in DOMAIN reqs, check_cancelled(r)
  PROVE  Calm(r)
<1>1. Kind(r) \notin IdentityKinds
  BY NotIdentity DEF check_cancelled, IdentityKinds, UserKinds, IdentityPcs, CommonPcs
<1>2. Fresh(r)
  BY ReplyFresh DEF check_cancelled, StalePcs, IdentityPcs
<1>3. Unwritten
  BY Kv_tasks DEF check_cancelled
<1>4. SecretsStay /\ risk \subseteq risk'
  BY MemSame DEF check_cancelled
<1> QED BY <1>1, <1>2, <1>3, <1>4, CalmFrom

-----------------------------------------------------------------------------
(* The invariant, and what of it a step does not disturb.                  *)

UserRecord(W) == [roles : W, pw : W, secret : W, by : W]
UsersTyped ==
    Except({"user_race", "restored"})
    \/ \A u \in Users : kv.users[u] = None \/ \E W : kv.users[u] \in UserRecord(W)
SettingsTyped ==
    Except({"unmerged", "restored"}) \/ \E W : kv.settings \in [Fields -> W]

UsersInv == FoundUser /\ UsersTyped /\ SecretsKept
SecretsInv == NextSecrets /\ FirstEnded /\ OneRotation
SettingsInv == NextSettings /\ SettingsTyped /\ PutKept
ControlInv == Shaped /\ RequestsFit /\ AdminsFit /\ UsersInv /\ SecretsInv /\ SettingsInv

LEMMA SameRequest ==
  ASSUME NEW q, reqs'[q] = reqs[q]
  PROVE  /\ Kind(q)' = Kind(q) /\ On(q)' = On(q) /\ \A pc : At(q, pc)' <=> At(q, pc)
         /\ Done(q)' <=> Done(q)
BY DEF Kind, On, At, Done

LEMMA TurnedRequest ==
  ASSUME NEW r, NEW p, Turns(r, p)
  PROVE  /\ Kind(r)' = Kind(r) /\ On(r)' = On(r) /\ \A pc : At(r, pc)' <=> pc = p
         /\ DOMAIN reqs' = DOMAIN reqs
         /\ \A q \in DOMAIN reqs : q # r => reqs'[q] = reqs[q]
BY DEF Kind, On, At, Turns

LEMMA FrameRequests ==
  ASSUME RequestsFit, NEW r \in DOMAIN reqs, NEW p, Turns(r, p), PcFits(Kind(r), p)
  PROVE  RequestsFit'
<1>1. \A q \in DOMAIN reqs : q # r => Kind(q)' = Kind(q)
  BY DEF Turns, Kind
<1>2. Kind(r)' = Kind(r)
  BY TurnedRequest
<1> QED BY <1>1, <1>2 DEF RequestsFit, Turns

LEMMA FrameOther ==
  ASSUME OtherAdmin, NEW r \in DOMAIN reqs, NEW p, Turns(r, p), p # "delete_user"
  PROVE  OtherAdmin'
<1> SUFFICES ASSUME NEW q \in DOMAIN reqs', At(q, "delete_user")', On(q)' \in reqs'[q].got
             PROVE  \E u \in reqs'[q].got : u # On(q)'
  BY DEF OtherAdmin
<1>1. q # r /\ q \in DOMAIN reqs /\ reqs'[q] = reqs[q]
  BY TurnedRequest
<1> QED BY <1>1, SameRequest DEF OtherAdmin

LEMMA FrameLast ==
  ASSUME LastAdmin, risk \subseteq risk', kv'.users = kv.users \/ "restored" \in risk'
  PROVE  LastAdmin'
<1>1. CASE "restored" \in risk'
  BY <1>1 DEF LastAdmin, Except
<1>2. CASE kv'.users = kv.users
  <2>1. Admins' = Admins
    BY <1>2 DEF Admins
  <2> QED BY <2>1 DEF LastAdmin, Except
<1> QED BY <1>1, <1>2

LEMMA FrameFound ==
  ASSUME FoundUser, NEW r \in DOMAIN reqs, NEW p, Turns(r, p), p # "put_user"
  PROVE  FoundUser'
<1> SUFFICES ASSUME NEW q \in DOMAIN reqs', At(q, "put_user")', Kind(q)' # "create_user"
             PROVE  reqs'[q].got # None
  BY DEF FoundUser
<1>1. q # r /\ q \in DOMAIN reqs /\ reqs'[q] = reqs[q]
  BY TurnedRequest
<1> QED BY <1>1, SameRequest DEF FoundUser

LEMMA FrameUsersTyped ==
  ASSUME UsersTyped, risk \subseteq risk', kv'.users = kv.users \/ "restored" \in risk'
  PROVE  UsersTyped'
BY DEF UsersTyped, Except

LEMMA FrameSecretsKept ==
  ASSUME SecretsKept, risk \subseteq risk', kv'.users = kv.users \/ "restored" \in risk',
         NEW r \in DOMAIN reqs, NEW p, Turns(r, p), Revoked(r)' => Revoked(r)
  PROVE  SecretsKept'
<1>1. CASE Except({"user_race", "restored"})'
  BY <1>1 DEF SecretsKept
<1>2. CASE ~Except({"user_race", "restored"})'
  <2>1. kv'.users = kv.users
    BY <1>2 DEF Except
  <2>2. ~Except({"user_race", "restored"})
    BY <1>2 DEF Except
  <2>3. ASSUME NEW q \in DOMAIN reqs', Revoked(q)', kv'.users[On(q)'] # None
        PROVE  kv'.users[On(q)'].secret # "init"
    <3>1. q \in DOMAIN reqs
      BY TurnedRequest
    <3>2. Revoked(q) /\ On(q)' = On(q)
      <4>1. CASE q = r
        BY <4>1, <2>3, TurnedRequest
      <4>2. CASE q # r
        BY <3>1, <4>2, <2>3, TurnedRequest, SameRequest DEF Revoked
      <4> QED BY <4>1, <4>2
    <3> QED BY <2>1, <2>2, <2>3, <3>1, <3>2 DEF SecretsKept
  <2> QED BY <2>3 DEF SecretsKept
<1> QED BY <1>1, <1>2

LEMMA FrameNextSecrets ==
  ASSUME NextSecrets, NEW r \in DOMAIN reqs, NEW p, Turns(r, p), p # "put_jwt"
  PROVE  NextSecrets'
<1> SUFFICES ASSUME NEW q \in DOMAIN reqs', At(q, "put_jwt")'
             PROVE  \/ Kind(q)' = "revoke_all" /\ reqs'[q].got.new = [cur |-> q, prev |-> None]
                    \/ Kind(q)' = "rotate" /\ reqs'[q].got.new = [cur |-> q, prev |-> reqs'[q].got.base.cur]
  BY DEF NextSecrets
<1>1. q # r /\ q \in DOMAIN reqs /\ reqs'[q] = reqs[q]
  BY TurnedRequest
<1> QED BY <1>1, SameRequest DEF NextSecrets

LEMMA FrameFirstEnded ==
  ASSUME FirstEnded, risk \subseteq risk', kv'.jwt = kv.jwt,
         NEW r \in DOMAIN reqs, NEW p, Turns(r, p), RevokedAll(r)' => RevokedAll(r)
  PROVE  FirstEnded'
<1>1. CASE Except({"unrefreshed"})'
  BY <1>1 DEF FirstEnded
<1>2. CASE ~Except({"unrefreshed"})'
  <2>1. ~Except({"unrefreshed"})
    BY <1>2 DEF Except
  <2>2. ASSUME NEW q \in DOMAIN reqs', RevokedAll(q)'
        PROVE  "init" \notin {kv'.jwt.cur, kv'.jwt.prev}
    <3>1. q \in DOMAIN reqs
      BY TurnedRequest
    <3>2. RevokedAll(q)
      <4>1. CASE q = r
        BY <4>1, <2>2
      <4>2. CASE q # r
        BY <3>1, <4>2, <2>2, TurnedRequest, SameRequest DEF RevokedAll
      <4> QED BY <4>1, <4>2
    <3> QED BY <2>1, <3>1, <3>2 DEF FirstEnded
  <2> QED BY <2>2 DEF FirstEnded
<1> QED BY <1>1, <1>2

LEMMA FrameBegun ==
  ASSUME NEW r \in DOMAIN reqs, NEW p, Turns(r, p), p # "start"
  PROVE  \A kind : /\ Begun(kind) \subseteq Begun(kind)'
                   /\ Kind(r) # kind => Begun(kind)' = Begun(kind)
                   /\ ~At(r, "start") => Begun(kind)' = Begun(kind)
                   /\ Kind(r) = kind => r \in Begun(kind)'
BY TurnedRequest, SameRequest DEF Begun

LEMMA FrameQuiet ==
  ASSUME NEW r \in DOMAIN reqs, NEW p, Turns(r, p), p # "start", Quiet'
  PROVE  Quiet
<1>1. Begun("revoke_all") \subseteq Begun("revoke_all")' /\ Begun("rotate") \subseteq Begun("rotate")'
  BY FrameBegun
<1> QED BY <1>1 DEF Quiet

LEMMA StayKnown ==
  ASSUME OneRotation, Quiet, SecretsStay, kv'.jwt = kv.jwt
  PROVE  SecretsKnown'
<1>1. First' = First
  BY DEF First
<1> QED BY <1>1 DEF OneRotation, SecretsKnown, SecretsStay

LEMMA FrameRotation ==
  ASSUME OneRotation, kv'.jwt = kv.jwt, NEW r \in DOMAIN reqs, NEW p, Turns(r, p), p # "start",
         Quiet' => SecretsKnown',
         Kind(r) = "rotate" /\ p = "put_jwt" => At(r, "start"),
         Quiet' => RotatorFits(r)'
  PROVE  OneRotation'
<1> SUFFICES ASSUME Quiet'
             PROVE  (kv'.jwt = First \/ Rotated(kv.jwt)') /\ \A q \in DOMAIN reqs' : RotatorFits(q)'
  BY DEF OneRotation, First
<1>1. Quiet
  BY FrameQuiet
<1>2. kv'.jwt = First \/ Rotated(kv.jwt)'
  <2>1. kv.jwt = First \/ Rotated(kv.jwt)
    BY <1>1 DEF OneRotation
  <2>2. ASSUME Rotated(kv.jwt)
        PROVE  Rotated(kv.jwt)'
    <3>1. PICK q \in Begun("rotate") : ~At(q, "put_jwt") /\ kv.jwt = [cur |-> q, prev |-> "init"]
      BY <2>2 DEF Rotated
    <3>2. q \in Begun("rotate")'
      BY <3>1, FrameBegun
    <3>3. q \in DOMAIN reqs /\ Kind(q) = "rotate" /\ ~At(q, "start")
      BY <3>1 DEF Begun
    <3>4. ~At(q, "put_jwt")'
      <4>1. CASE q = r
        BY <4>1, <3>3, TurnedRequest
      <4>2. CASE q # r
        BY <4>2, <3>1, <3>3, TurnedRequest, SameRequest
      <4> QED BY <4>1, <4>2
    <3> QED BY <3>1, <3>2, <3>4 DEF Rotated
  <2> QED BY <2>1, <2>2
<1>3. ASSUME NEW q \in DOMAIN reqs', q # r
      PROVE  RotatorFits(q)'
  <2>1. q \in DOMAIN reqs /\ reqs'[q] = reqs[q]
    BY <1>3, TurnedRequest
  <2>2. RotatorFits(q)
    BY <1>1, <2>1 DEF OneRotation
  <2> QED BY <2>1, <2>2, SameRequest DEF RotatorFits
<1> QED BY <1>2, <1>3

LEMMA FrameNextSettings ==
  ASSUME NextSettings, NEW r \in DOMAIN reqs, NEW p, Turns(r, p), p # "put_settings"
  PROVE  NextSettings'
<1> SUFFICES ASSUME NEW q \in DOMAIN reqs', At(q, "put_settings")'
             PROVE  reqs'[q].got.new = [reqs'[q].got.base EXCEPT ![On(q)'] = q]
  BY DEF NextSettings
<1>1. q # r /\ q \in DOMAIN reqs /\ reqs'[q] = reqs[q]
  BY TurnedRequest
<1> QED BY <1>1, SameRequest DEF NextSettings

LEMMA FrameSettingsTyped ==
  ASSUME SettingsTyped, risk \subseteq risk', kv'.settings = kv.settings \/ "restored" \in risk'
  PROVE  SettingsTyped'
BY DEF SettingsTyped, Except

LEMMA FramePut ==
  ASSUME PutKept, risk \subseteq risk', kv'.settings = kv.settings \/ "restored" \in risk',
         NEW r \in DOMAIN reqs, NEW p, Turns(r, p), HasPut(r)' => HasPut(r)
  PROVE  PutKept'
<1>1. CASE Except({"unmerged", "restored"})'
  BY <1>1 DEF PutKept
<1>2. CASE ~Except({"unmerged", "restored"})'
  <2>1. kv'.settings = kv.settings
    BY <1>2 DEF Except
  <2>2. ~Except({"unmerged", "restored"})
    BY <1>2 DEF Except
  <2>3. ASSUME NEW q \in DOMAIN reqs', HasPut(q)'
        PROVE  kv'.settings[On(q)'] # "init"
    <3>1. q \in DOMAIN reqs
      BY TurnedRequest
    <3>2. HasPut(q) /\ On(q)' = On(q)
      <4>1. CASE q = r
        BY <4>1, <2>3, TurnedRequest
      <4>2. CASE q # r
        BY <3>1, <4>2, <2>3, TurnedRequest, SameRequest DEF HasPut
      <4> QED BY <4>1, <4>2
    <3> QED BY <2>1, <2>2, <3>1, <3>2 DEF PutKept
  <2> QED BY <2>3 DEF PutKept
<1> QED BY <1>1, <1>2

LEMMA FrameShaped ==
  ASSUME Shaped, Unwritten, SecretsStay, \E W : ReqsIn(W)'
  PROVE  Shaped'
<1>1. \E W : kv'.users \in [Users -> W]
  BY DEF Shaped, Unwritten
<1>2. \A i \in Insts : mem'[i].refresh.pc \in RefreshPcs
  BY DEF Shaped, SecretsStay
<1> QED BY <1>1, <1>2 DEF Shaped, Unwritten, SecretsStay

\* The parts of the invariant, of a step that writes nothing of what they are about.
LEMMA UsersStay ==
  ASSUME ControlInv, risk \subseteq risk', kv'.users = kv.users \/ "restored" \in risk',
         NEW r \in DOMAIN reqs, NEW p, Turns(r, p), p \notin {"delete_user", "put_user"}, Revoked(r)' => Revoked(r)
  PROVE  AdminsFit' /\ UsersInv'
<1>1. OtherAdmin' /\ LastAdmin'
  BY FrameOther, FrameLast DEF ControlInv, AdminsFit
<1>2. FoundUser' /\ UsersTyped'
  BY FrameFound, FrameUsersTyped DEF ControlInv, UsersInv
<1>3. SecretsKept'
  BY FrameSecretsKept DEF ControlInv, UsersInv
<1> QED BY <1>1, <1>2, <1>3 DEF AdminsFit, UsersInv

LEMMA SecretsSame ==
  ASSUME ControlInv, risk \subseteq risk', kv'.jwt = kv.jwt, SecretsStay,
         NEW r \in DOMAIN reqs, NEW p, Turns(r, p), p \notin {"start", "put_jwt", "use_jwt"},
         RevokedAll(r)' => RevokedAll(r), Quiet => RotatorFits(r)'
  PROVE  SecretsInv'
<1>1. NextSecrets' /\ FirstEnded'
  BY FrameNextSecrets, FrameFirstEnded DEF ControlInv, SecretsInv
<1>2. Quiet' => Quiet
  BY FrameQuiet
<1>3. OneRotation'
  BY <1>2, FrameRotation, StayKnown DEF ControlInv, SecretsInv
<1> QED BY <1>1, <1>3 DEF SecretsInv

LEMMA SettingsStay ==
  ASSUME ControlInv, risk \subseteq risk', kv'.settings = kv.settings \/ "restored" \in risk',
         NEW r \in DOMAIN reqs, NEW p, Turns(r, p), p # "put_settings", HasPut(r)' => HasPut(r)
  PROVE  SettingsInv'
BY FrameNextSettings, FrameSettingsTyped, FramePut DEF ControlInv, SettingsInv

LEMMA CalmKeeps ==
  ASSUME ControlInv, NEW r \in DOMAIN reqs, Calm(r)
  PROVE  ControlInv'
<1>1. PICK p : Turns(r, p) /\ p # "start" /\ p \notin WritingPcs /\ PcFits(Kind(r), p)
  BY DEF Calm
<1>2. Unwritten /\ SecretsStay /\ risk \subseteq risk' /\ (Done(r)' => Kind(r) \notin Decisive)
  BY DEF Calm
<1>3. /\ kv'.jwt = kv.jwt
      /\ kv'.users = kv.users \/ "restored" \in risk'
      /\ kv'.settings = kv.settings \/ "restored" \in risk'
  BY <1>2 DEF Unwritten
<1>4. p \notin {"put_user", "forget", "delete_user", "put_jwt", "use_jwt", "put_settings", "use_settings"}
  BY <1>1 DEF WritingPcs
<1>5. ~Revoked(r)' /\ ~RevokedAll(r)' /\ ~HasPut(r)' /\ (Kind(r) = "login" => ~Done(r)')
  BY <1>1, <1>2, <1>4, TurnedRequest DEF Revoked, RevokedAll, HasPut, Decisive
<1>6. RotatorFits(r)'
  BY <1>1, <1>4, <1>5, TurnedRequest DEF RotatorFits
<1>7. Shaped' /\ RequestsFit'
  BY <1>1, <1>2, FrameShaped, FrameRequests DEF ControlInv, Turns
<1>8. AdminsFit' /\ UsersInv'
  BY <1>1, <1>2, <1>3, <1>4, <1>5, UsersStay
<1>9. SecretsInv'
  BY <1>1, <1>2, <1>3, <1>4, <1>5, <1>6, SecretsSame
<1>10. SettingsInv'
  BY <1>1, <1>2, <1>3, <1>4, <1>5, SettingsStay
<1> QED BY <1>7, <1>8, <1>9, <1>10 DEF ControlInv

\* A step in which no request takes part.
LEMMA ElsewhereKeeps ==
  ASSUME ControlInv, reqs' = reqs, Unwritten, Shaped', Quiet => SecretsKnown', risk \subseteq risk'
  PROVE  ControlInv'
<1>1. /\ kv'.jwt = kv.jwt
      /\ kv'.users = kv.users \/ "restored" \in risk'
      /\ kv'.settings = kv.settings \/ "restored" \in risk'
  BY DEF Unwritten
<1>3. /\ DOMAIN reqs' = DOMAIN reqs
      /\ \A q : reqs'[q] = reqs[q]
  OBVIOUS
<1>4. \A q : Kind(q)' = Kind(q) /\ On(q)' = On(q) /\ (Done(q)' <=> Done(q)) /\ \A pc : At(q, pc)' <=> At(q, pc)
  BY <1>3, SameRequest
<1>5. RequestsFit'
  BY <1>3, <1>4 DEF ControlInv, RequestsFit
<1>6. AdminsFit'
  <2>1. OtherAdmin'
    BY <1>3, <1>4 DEF ControlInv, AdminsFit, OtherAdmin
  <2> QED BY <2>1, <1>1, FrameLast DEF ControlInv, AdminsFit
<1>7. UsersInv'
  <2>1. FoundUser'
    BY <1>3, <1>4 DEF ControlInv, UsersInv, FoundUser
  <2>2. UsersTyped'
    BY <1>1, FrameUsersTyped DEF ControlInv, UsersInv
  <2>3. \A q : Revoked(q)' <=> Revoked(q)
    BY <1>4 DEF Revoked
  <2>4. SecretsKept'
    BY <1>1, <1>3, <1>4, <2>3 DEF ControlInv, UsersInv, SecretsKept, Except
  <2> QED BY <2>1, <2>2, <2>4 DEF UsersInv
<1>8. SecretsInv'
  <2>1. NextSecrets'
    BY <1>3, <1>4 DEF ControlInv, SecretsInv, NextSecrets
  <2>2. \A q : RevokedAll(q)' <=> RevokedAll(q)
    BY <1>4 DEF RevokedAll
  <2>3. FirstEnded'
    BY <1>1, <1>3, <2>2 DEF ControlInv, SecretsInv, FirstEnded, Except
  <2>4. \A kind : Begun(kind)' = Begun(kind)
    BY <1>3, <1>4 DEF Begun
  <2>5. Quiet' <=> Quiet
    BY <2>4 DEF Quiet
  <2>6. Rotated(kv.jwt)' <=> Rotated(kv.jwt)
    BY <1>1, <1>4, <2>4 DEF Rotated
  <2>7. OneRotation'
    <3>1. OneRotation /\ First' = First
      BY DEF ControlInv, SecretsInv, First
    <3>2. \A q : RotatorFits(q)' <=> RotatorFits(q)
      BY <1>1, <1>3, <1>4 DEF RotatorFits
    <3> QED BY <3>1, <3>2, <1>1, <1>3, <2>5, <2>6 DEF OneRotation
  <2> QED BY <2>1, <2>3, <2>7 DEF SecretsInv
<1>9. SettingsInv'
  <2>1. NextSettings'
    BY <1>3, <1>4 DEF ControlInv, SettingsInv, NextSettings
  <2>2. SettingsTyped'
    BY <1>1, FrameSettingsTyped DEF ControlInv, SettingsInv
  <2>3. \A q : HasPut(q)' <=> HasPut(q)
    BY <1>4 DEF HasPut
  <2>4. PutKept'
    BY <1>1, <1>3, <1>4, <2>3 DEF ControlInv, SettingsInv, PutKept, Except
  <2> QED BY <2>1, <2>2, <2>4 DEF SettingsInv
<1> QED BY <1>5, <1>6, <1>7, <1>8, <1>9 DEF ControlInv

LEMMA AsideKeeps ==
  ASSUME ControlInv, reqs' = reqs, Unwritten, SecretsStay, risk \subseteq risk'
  PROVE  ControlInv'
<1>1. Shaped'
  BY FrameShaped DEF ControlInv, Shaped, ReqsIn
<1>2. Quiet => SecretsKnown'
  BY StayKnown DEF ControlInv, SecretsInv, Unwritten
<1> QED BY <1>1, <1>2, ElsewhereKeeps

-----------------------------------------------------------------------------
(* Steps of any request that decide nothing.                               *)

LEMMA ReplyCalm ==
  ASSUME Shaped, NEW r \in DOMAIN reqs, NEW w, Reply(r, w), w = "ok" => Kind(r) \notin Decisive,
         Unwritten, SecretsStay, risk \subseteq risk'
  PROVE  Calm(r)
<1>1. Turns(r, "done") /\ reqs'[r].answer = w
  BY ReplyTurns DEF Shaped
<1>2. "done" # "start" /\ "done" \notin WritingPcs /\ PcFits(Kind(r), "done")
  BY DEF WritingPcs, PcFits, CommonPcs, IdentityPcs
<1>3. Done(r)' => Kind(r) \notin Decisive
  BY <1>1 DEF Done
<1> QED BY <1>1, <1>2, <1>3 DEF Calm

LEMMA TurnCalm ==
  ASSUME NEW r \in DOMAIN reqs, NEW p, Turns(r, p), p \notin WritingPcs \cup {"start", "done"}, PcFits(Kind(r), p),
         Unwritten, SecretsStay, risk \subseteq risk'
  PROVE  Calm(r)
<1>1. ~Done(r)'
  BY TurnedRequest DEF Done
<1> QED BY <1>1 DEF Calm

LEMMA GotoCalm ==
  ASSUME Shaped, NEW r \in DOMAIN reqs, NEW p, Goto(r, p), p \notin WritingPcs \cup {"start", "done"}, PcFits(Kind(r), p),
         Unwritten, SecretsStay, risk \subseteq risk'
  PROVE  Calm(r)
BY GotoTurns, TurnCalm DEF Shaped

LEMMA KeepCalm ==
  ASSUME Shaped, NEW r \in DOMAIN reqs, NEW p, NEW g, Keep(r, p, g), p \notin WritingPcs \cup {"start", "done"},
         PcFits(Kind(r), p), Unwritten, SecretsStay, risk \subseteq risk'
  PROVE  Calm(r)
BY KeepTurns, TurnCalm DEF Shaped

LEMMA CommonFits ==
  ASSUME NEW kind, NEW p \in CommonPcs
  PROVE  PcFits(kind, p)
BY DEF PcFits, CommonPcs, IdentityPcs

LEMMA Untouched ==
  ASSUME Shaped, kv' = kv, mem' = mem, risk' = risk
  PROVE  Unwritten /\ SecretsStay /\ risk \subseteq risk'
BY KvSame, MemSame

LEMMA Calm_resolve_user_cached ==
  ASSUME Shaped, NEW r \in DOMAIN reqs, resolve_user_cached(r) \/ resolve_user_and_roles_cached(r)
  PROVE  Calm(r)
<1>1. Unwritten /\ SecretsStay /\ risk \subseteq risk'
  BY Untouched DEF resolve_user_cached, resolve_user_and_roles_cached
<1>2. \E g : Keep(r, "lookup", g)
  BY DEF resolve_user_cached, resolve_user_and_roles_cached
<1>3. "lookup" \notin WritingPcs \cup {"start", "done"} /\ PcFits(Kind(r), "lookup")
  BY CommonFits DEF WritingPcs, CommonPcs
<1> QED BY <1>1, <1>2, <1>3, KeepCalm

LEMMA Calm_put_cached_user ==
  ASSUME Shaped, RequestsFit, NEW r \in DOMAIN reqs, put_cached_user(r)
  PROVE  Calm(r)
<1>1. PICK f, g, u : f = reqs /\ g = reqs' /\ u = reqs[r].got
  OBVIOUS
<1>2. g = [f EXCEPT ![r].pc = "go", ![r].who = u, ![r].got = None]
  BY <1>1 DEF put_cached_user
<1>3. Turn(f, g, r, "go")
  BY <1>1, <1>2, LookedUpTurn, Zenon DEF Shaped, ReqsIn
<1>4. Turns(r, "go")
  BY <1>1, <1>3 DEF Turn, Turns, ReqsIn
<1>5. "go" \notin WritingPcs \cup {"start", "done"} /\ PcFits(Kind(r), "go")
  BY CommonFits DEF WritingPcs, CommonPcs
<1>6. Unwritten /\ risk \subseteq risk'
  BY KvSame DEF put_cached_user
<1>7. SecretsStay
  <2>1. PICK i \in Insts : i = Where(r)
    BY Placed
  <2>2. PICK x, y : mem' = [mem EXCEPT ![i].users = x, ![i].roles = y]
    BY <2>1 DEF put_cached_user
  <2> QED BY <2>2, MemUsersRoles
<1> QED BY <1>4, <1>5, <1>6, <1>7, TurnCalm

LEMMA Calm_denied ==
  ASSUME Shaped, NEW r \in DOMAIN reqs, denied(r)
  PROVE  Calm(r)
<1>1. Unwritten /\ SecretsStay /\ risk \subseteq risk'
  BY Untouched DEF denied
<1>2. Reply(r, "denied")
  BY DEF denied
<1> QED BY <1>1, <1>2, ReplyCalm

LEMMA Calm_resolve_identity ==
  ASSUME Shaped, NEW r \in DOMAIN reqs, resolve_identity(r)
  PROVE  Calm(r)
<1>1. Unwritten /\ SecretsStay /\ risk \subseteq risk'
  BY Untouched DEF resolve_identity
<1>2. \E w : Reply(r, w)
  BY DEF resolve_identity
<1>3. Kind(r) \notin Decisive
  BY DEF resolve_identity, Asks, Decisive
<1> QED BY <1>1, <1>2, <1>3, ReplyCalm

RoleKinds == {"create_role", "update_role", "delete_role"}

LEMMA RolePcs ==
  /\ \A kind \in RoleKinds : PcFits(kind, "put_role") /\ PcFits(kind, "forget_role")
  /\ RoleKinds \cap Decisive = {}
  /\ "put_role" \notin WritingPcs \cup {"start", "done"} /\ "forget_role" \notin WritingPcs \cup {"start", "done"}
BY DEF RoleKinds, PcFits, CommonPcs, IdentityPcs, IdentityKinds, UserKinds, Decisive, WritingPcs

LEMMA Calm_create_role ==
  ASSUME Shaped, NEW r \in DOMAIN reqs, create_role(r) \/ update_role(r)
  PROVE  Calm(r)
<1>1. Unwritten /\ SecretsStay /\ risk \subseteq risk'
  BY Untouched DEF create_role, update_role
<1>2. Kind(r) \in RoleKinds
  BY DEF create_role, update_role, Asks, RoleKinds
<1>3. (\E w : Reply(r, w)) \/ Goto(r, "put_role")
  BY DEF create_role, update_role
<1> QED BY <1>1, <1>2, <1>3, RolePcs, ReplyCalm, GotoCalm

LEMMA AtRole ==
  ASSUME RequestsFit, NEW r \in DOMAIN reqs, reqs[r].pc \in {"put_role", "forget_role"}
  PROVE  Kind(r) \in RoleKinds
BY DEF RequestsFit, PcFits, RoleKinds, IdentityKinds, UserKinds, IdentityPcs, CommonPcs

LEMMA Calm_put_role ==
  ASSUME Shaped, RequestsFit, NEW r \in DOMAIN reqs, put_role(r)
  PROVE  Calm(r)
<1>1. SecretsStay /\ risk \subseteq risk'
  BY MemSame DEF put_role
<1>2. Kind(r) \in RoleKinds
  BY AtRole DEF put_role, At
<1>3. Unwritten
  BY Kv_role DEF put_role
<1>4. Goto(r, "forget_role")
  BY DEF put_role
<1> QED BY <1>1, <1>2, <1>3, <1>4, RolePcs, GotoCalm

LEMMA Calm_delete_role ==
  ASSUME Shaped, NEW r \in DOMAIN reqs, delete_role(r)
  PROVE  Calm(r)
<1>1. SecretsStay /\ risk \subseteq risk'
  BY MemSame DEF delete_role
<1>2. Kind(r) \in RoleKinds
  BY DEF delete_role, Asks, RoleKinds
<1>3. Unwritten
  BY KvSame, Kv_role DEF delete_role
<1>4. (\E w : Reply(r, w)) \/ Goto(r, "forget_role")
  BY DEF delete_role
<1> QED BY <1>1, <1>2, <1>3, <1>4, RolePcs, GotoCalm, ReplyCalm

LEMMA Calm_invalidate_role ==
  ASSUME Shaped, RequestsFit, NEW r \in DOMAIN reqs, invalidate_role(r)
  PROVE  Calm(r)
<1>1. Unwritten /\ risk \subseteq risk'
  BY KvSame DEF invalidate_role
<1>2. Kind(r) \in RoleKinds
  BY AtRole DEF invalidate_role, At
<1>3. SecretsStay
  <2>1. PICK i \in Insts : i = Where(r)
    BY Placed
  <2>2. PICK x : mem' = [mem EXCEPT ![i].roles = x]
    BY <2>1 DEF invalidate_role
  <2> QED BY <2>2, MemField
<1>4. Reply(r, "ok")
  BY DEF invalidate_role
<1> QED BY <1>1, <1>2, <1>3, <1>4, RolePcs, ReplyCalm

LEMMA Calm_Announce ==
  ASSUME Shaped, RequestsFit, NEW r \in DOMAIN reqs, Announce(r)
  PROVE  Calm(r)
<1>1. Unwritten /\ risk \subseteq risk'
  BY KvSame DEF Announce, Risk
<1>2. SecretsStay
  <2>1. PICK i \in Insts : i = Where(r)
    BY Placed
  <2>2. mem' = mem \/ \E u : mem' = [mem EXCEPT ![i] = invalidate_user(mem[i], u)]
    BY <2>1 DEF Announce
  <2> QED BY <2>2, MemSame, MemForget
<1>3. Kind(r) \notin Decisive
  <2>1. reqs[r].pc = "announce" /\ PcFits(Kind(r), reqs[r].pc)
    BY DEF Announce, At, RequestsFit
  <2> QED BY <2>1 DEF PcFits, Decisive, CommonPcs
<1>4. CASE Kind(r) = "post_restore"
  <2>1. Goto(r, "restore")
    BY <1>4 DEF Announce
  <2>2. PcFits(Kind(r), "restore") /\ "restore" \notin WritingPcs \cup {"start", "done"}
    BY <1>4 DEF PcFits, IdentityKinds, UserKinds, IdentityPcs, WritingPcs
  <2> QED BY <1>1, <1>2, <2>1, <2>2, GotoCalm
<1>5. CASE Kind(r) # "post_restore"
  <2>1. Reply(r, "ok")
    BY <1>5 DEF Announce
  <2> QED BY <1>1, <1>2, <1>3, <2>1, ReplyCalm
<1> QED BY <1>4, <1>5

LEMMA Calm_Stops ==
  ASSUME Shaped, NEW r \in DOMAIN reqs, Stops(r)
  PROVE  Calm(r)
<1>1. Unwritten /\ SecretsStay /\ risk \subseteq risk'
  BY KvSame, MemSame DEF Stops, Risk
<1>2. Reply(r, None) /\ None # "ok"
  BY ControlAssumption DEF Stops
<1> QED BY <1>1, <1>2, ReplyCalm

-----------------------------------------------------------------------------
(* The data model, the browser, the listeners, the drain, the collector and *)
(* the caches, which no request drives.                                    *)

Elsewhere == reqs' = reqs /\ Unwritten /\ SecretsStay /\ risk \subseteq risk'

LEMMA Else_Live ==
  ASSUME Shaped,
         \/ \E i \in Insts : Materializes(i) \/ Scans(i) \/ reconcile(i)
         \/ Browses \/ LiveFaults
  PROVE  Elsewhere
<1>1. ASSUME NEW i \in Insts, Materializes(i)
      PROVE  kv' = kv /\ mem' = mem /\ reqs' = reqs /\ risk \subseteq risk'
  BY <1>1, Zenon DEF Materializes, run_model_materializer, build_full_model, drain_buffered, recv, coalesced, Risk
<1>2. ASSUME NEW i \in Insts, Scans(i)
      PROVE  kv' = kv /\ mem' = mem /\ reqs' = reqs /\ risk' = risk
  BY <1>2 DEF Scans, scan_repos, scan_stores, scan_tasks, ScanList, ScanEmit
<1>3. ASSUME NEW i \in Insts, reconcile(i)
      PROVE  kv' = kv /\ mem' = mem /\ reqs' = reqs /\ risk' = risk
  BY <1>3 DEF reconcile
<1>4. ASSUME Browses
      PROVE  kv' = kv /\ mem' = mem /\ reqs' = reqs /\ risk' = risk
  BY <1>4 DEF Browses, event_stream, subscribe, dispatch
<1>5. ASSUME LiveFaults
      PROVE  kv' = kv /\ mem' = mem /\ reqs' = reqs /\ risk \subseteq risk'
  BY <1>5 DEF LiveFaults, connect, load_fails, spawn_listener, Risk
<1>6. kv' = kv /\ mem' = mem /\ reqs' = reqs /\ risk \subseteq risk'
  BY <1>1, <1>2, <1>3, <1>4, <1>5
<1> QED BY <1>6, KvSame, MemSame DEF Elsewhere

LEMMA Else_Drains ==
  ASSUME Shaped, NEW d \in Drainers, Drains(d) \/ drain_stops(d)
  PROVE  Elsewhere
<1>1. mem' = mem /\ reqs' = reqs /\ risk' = risk
  BY DEF Drains, drain_begins, drain_deleting_repo, drain_stops
<1>2. \/ kv' = kv
      \/ \E x : kv' = [kv EXCEPT !.arts = x] \/ kv' = [kv EXCEPT !.tree = x]
      \/ \E n : kv' = [kv EXCEPT !.repos[n] = None]
  BY DEF Drains, drain_begins, drain_deleting_repo, drain_stops, drain_arts, drain_tree, drain_config
<1>3. Unwritten
  BY <1>2, KvSame, Kv_arts, Kv_tree, Kv_repos
<1> QED BY <1>1, <1>3, MemSame DEF Elsewhere

LEMMA Else_collect ==
  ASSUME Shaped, collect
  PROVE  Elsewhere
<1>1. mem' = mem /\ reqs' = reqs /\ risk' = risk
  BY DEF collect, Kept
<1>2. \E x, y : kv' = [kv EXCEPT !.blobs = x, !.recs = y]
  BY Zenon DEF collect
<1> QED BY <1>1, <1>2, Kv_blobs, MemSame, Zenon DEF Elsewhere

LEMMA Else_expire ==
  ASSUME Shaped, NEW i \in Insts, expire(i)
  PROVE  Elsewhere
<1>1. kv' = kv /\ reqs' = reqs /\ risk' = risk
  BY DEF expire
<1>2. \E x : \/ mem' = [mem EXCEPT ![i].users = x]
             \/ mem' = [mem EXCEPT ![i].verified = x]
             \/ mem' = [mem EXCEPT ![i].roles = x]
  BY DEF expire
<1>3. SecretsStay
  BY <1>2, MemField
<1> QED BY <1>1, <1>3, KvSame DEF Elsewhere

-----------------------------------------------------------------------------
(* Steps that write users, secrets or settings, and the answers that       *)
(* decisions are about.                                                    *)

\* What is written to one part of the store.
LEMMA WriteUser ==
  ASSUME Shaped, NEW n \in Users, NEW x, kv' = [kv EXCEPT !.users[n] = x]
  PROVE  /\ kv'.jwt = kv.jwt /\ kv'.settings = kv.settings
         /\ \A u \in Users : kv'.users[u] = IF u = n THEN x ELSE kv.users[u]
         /\ (\E W : KvIn(W)') /\ \E W : kv'.users \in [Users -> W]
<1> DEFINE y == [kv.users EXCEPT ![n] = x]
<1>0. PICK W, U : KvIn(W) /\ kv.users \in [Users -> U]
  BY DEF Shaped
<1>1. kv' = [kv EXCEPT !.users = y]
  BY <1>0 DEF KvIn, Store
<1>2. y \in [Users -> U \cup {x}] /\ \A u \in Users : y[u] = IF u = n THEN x ELSE kv.users[u]
  BY <1>0
<1> HIDE DEF y
<1>3. kv \in Store(W \cup {y})
  BY <1>0 DEF KvIn, Store
<1>4. kv' \in Store(W \cup {y}) /\ kv'.users = y /\ kv'.jwt = kv.jwt /\ kv'.settings = kv.settings
  BY <1>1, <1>3 DEF Store
<1> QED BY <1>2, <1>4 DEF KvIn

LEMMA WriteSecrets ==
  ASSUME Shaped, NEW x, kv' = [kv EXCEPT !.jwt = x]
  PROVE  /\ kv'.jwt = x /\ kv'.users = kv.users /\ kv'.settings = kv.settings
         /\ \E W : KvIn(W)'
<1>0. PICK W : KvIn(W)
  BY DEF Shaped
<1>1. kv \in Store(W \cup {x})
  BY <1>0 DEF KvIn, Store
<1>2. kv' \in Store(W \cup {x}) /\ kv'.jwt = x /\ kv'.users = kv.users /\ kv'.settings = kv.settings
  BY <1>1 DEF Store
<1> QED BY <1>2 DEF KvIn

LEMMA WriteSettings ==
  ASSUME Shaped, NEW x, kv' = [kv EXCEPT !.settings = x]
  PROVE  /\ kv'.settings = x /\ kv'.users = kv.users /\ kv'.jwt = kv.jwt
         /\ \E W : KvIn(W)'
<1>0. PICK W : KvIn(W)
  BY DEF Shaped
<1>1. kv \in Store(W \cup {x})
  BY <1>0 DEF KvIn, Store
<1>2. kv' \in Store(W \cup {x}) /\ kv'.settings = x /\ kv'.users = kv.users /\ kv'.jwt = kv.jwt
  BY <1>1 DEF Store
<1> QED BY <1>2 DEF KvIn

\* A step that keeps something for the next, and writes nothing.
LEMMA Considers ==
  ASSUME ControlInv, kv' = kv, mem' = mem, risk' = risk,
         NEW r \in DOMAIN reqs, NEW p, Turns(r, p), p # "start", PcFits(Kind(r), p)
  PROVE  /\ Shaped' /\ RequestsFit'
         /\ p \notin {"delete_user", "put_user"} /\ ~Revoked(r)' => AdminsFit' /\ UsersInv'
         /\ p \notin {"put_jwt", "use_jwt", "done"} => SecretsInv'
         /\ p # "put_settings" /\ ~HasPut(r)' => SettingsInv'
<1>1. Unwritten /\ SecretsStay /\ kv'.users = kv.users /\ kv'.jwt = kv.jwt /\ kv'.settings = kv.settings
  BY KvSame, MemSame DEF ControlInv
<1>2. Shaped' /\ RequestsFit'
  BY <1>1, FrameShaped, FrameRequests DEF ControlInv, Turns
<1>3. ASSUME p \notin {"put_jwt", "use_jwt", "done"}
      PROVE  RotatorFits(r)' /\ ~RevokedAll(r)'
  BY <1>3, TurnedRequest DEF RotatorFits, RevokedAll, Done
<1> QED BY <1>1, <1>2, <1>3, UsersStay, SecretsSame, SettingsStay

LEMMA Keeps_login ==
  ASSUME ControlInv, NEW r \in DOMAIN reqs, login(r)
  PROVE  ControlInv'
<1>1. Kind(r) = "login" /\ kv' = kv /\ risk' = risk
  BY DEF login, Asks
<1>2. CASE authenticate(r)
  <2>1. SecretsStay
    <3>1. PICK i \in Insts : i = Where(r)
      BY Placed DEF ControlInv
    <3>2. PICK x : mem' = [mem EXCEPT ![i].verified = x]
      BY <1>2, <3>1 DEF login
    <3> QED BY <3>2, MemField DEF ControlInv
  <2>2. PICK t : t = create_user_token(r, As(r), Who(r).user.secret)
    OBVIOUS
  <2>3. reqs' = [reqs EXCEPT ![r] = Answered(r, "ok", t)]
    BY <1>2, <2>2 DEF login
  <2>4. Turns(r, "done") /\ reqs'[r].got = t
    BY <2>3, AnsweredTurns DEF ControlInv, Shaped
  <2>5. t.glob = mem[Where(r)].jwt.cur /\ Where(r) \in Insts
    BY <2>2, Placed DEF create_user_token, Inst, ControlInv
  <2>6. Unwritten /\ kv'.users = kv.users /\ kv'.jwt = kv.jwt /\ kv'.settings = kv.settings
    BY <1>1, KvSame DEF ControlInv
  <2>7. PcFits(Kind(r), "done")
    BY CommonFits DEF CommonPcs
  <2>8. Quiet => RotatorFits(r)'
    <3>1. Quiet => t.glob \in {"init", kv.jwt.cur}
      BY <2>5 DEF ControlInv, SecretsInv, OneRotation, SecretsKnown, First
    <3> QED BY <1>1, <2>4, <2>6, <3>1, TurnedRequest DEF RotatorFits
  <2>9. ~Revoked(r)' /\ ~RevokedAll(r)' /\ ~HasPut(r)'
    BY <1>1, <2>4, TurnedRequest DEF Revoked, RevokedAll, HasPut
  <2>10. Shaped' /\ RequestsFit'
    BY <2>1, <2>4, <2>6, <2>7, FrameShaped, FrameRequests DEF ControlInv, Turns
  <2>11. AdminsFit' /\ UsersInv' /\ SettingsInv'
    BY <1>1, <2>4, <2>6, <2>9, UsersStay, SettingsStay
  <2>12. SecretsInv'
    BY <1>1, <2>1, <2>4, <2>6, <2>8, <2>9, SecretsSame
  <2> QED BY <2>10, <2>11, <2>12 DEF ControlInv
<1>3. CASE ~authenticate(r)
  <2>1. Unwritten /\ SecretsStay /\ risk \subseteq risk' /\ Reply(r, "denied")
    BY <1>3, Untouched DEF login, ControlInv
  <2> QED BY <2>1, ReplyCalm, CalmKeeps DEF ControlInv
<1> QED BY <1>2, <1>3

\* A request keeps the record that it found, to change it.
LEMMA FoundKeeps ==
  ASSUME ControlInv, kv' = kv, mem' = mem, risk' = risk,
         NEW r \in DOMAIN reqs, NEW g, Keep(r, "put_user", g), PcFits(Kind(r), "put_user"),
         Kind(r) # "create_user" => g # None
  PROVE  ControlInv'
<1>1. Turns(r, "put_user") /\ reqs'[r].got = g
  BY KeepTurns DEF ControlInv, Shaped
<1>2. ~Revoked(r)' /\ ~HasPut(r)'
  BY <1>1, TurnedRequest DEF Revoked, HasPut, Done
<1>3. Shaped' /\ RequestsFit' /\ SecretsInv' /\ SettingsInv'
  BY <1>1, <1>2, Considers
<1>4. OtherAdmin' /\ LastAdmin' /\ UsersTyped' /\ SecretsKept'
  BY <1>1, <1>2, FrameOther, FrameLast, FrameUsersTyped, FrameSecretsKept DEF ControlInv, AdminsFit, UsersInv
<1>5. FoundUser'
  <2> SUFFICES ASSUME NEW q \in DOMAIN reqs', At(q, "put_user")', Kind(q)' # "create_user"
               PROVE  reqs'[q].got # None
    BY DEF FoundUser
  <2>1. CASE q = r
    BY <1>1, <2>1, TurnedRequest
  <2>2. CASE q # r
    <3>1. q \in DOMAIN reqs /\ reqs'[q] = reqs[q]
      BY <1>1, <2>2, TurnedRequest
    <3> QED BY <3>1, SameRequest DEF FoundUser, ControlInv, UsersInv
  <2> QED BY <2>1, <2>2
<1> QED BY <1>3, <1>4, <1>5 DEF ControlInv, AdminsFit, UsersInv

LEMMA Keeps_create_user ==
  ASSUME ControlInv, NEW r \in DOMAIN reqs, create_user(r)
  PROVE  ControlInv'
<1>1. Kind(r) = "create_user" /\ kv' = kv /\ mem' = mem /\ risk' = risk
  BY DEF create_user, Asks
<1>2. Reply(r, "conflict") \/ Keep(r, "put_user", None)
  BY DEF create_user
<1>3. CASE Reply(r, "conflict")
  BY <1>1, <1>3, Untouched, ReplyCalm, CalmKeeps DEF ControlInv, Decisive
<1>4. CASE Keep(r, "put_user", None)
  <2>1. PcFits(Kind(r), "put_user")
    BY <1>1 DEF PcFits, IdentityKinds, UserKinds
  <2> QED BY <1>1, <1>4, <2>1, FoundKeeps
<1> QED BY <1>2, <1>3, <1>4

LEMMA Keeps_update_user ==
  ASSUME ControlInv, NEW r \in DOMAIN reqs, update_user(r)
  PROVE  ControlInv'
<1>1. /\ Kind(r) \in {"update_user", "set_password", "change_password", "revoke"}
      /\ kv' = kv /\ mem' = mem /\ risk' = risk
  BY DEF update_user
<1>2. \/ Reply(r, "not_found") \/ Reply(r, "denied")
      \/ kv.users[On(r)] # None /\ Keep(r, "put_user", kv.users[On(r)])
  BY DEF update_user
<1>3. CASE Reply(r, "not_found") \/ Reply(r, "denied")
  BY <1>1, <1>3, Untouched, ReplyCalm, CalmKeeps DEF ControlInv
<1>4. CASE kv.users[On(r)] # None /\ Keep(r, "put_user", kv.users[On(r)])
  <2>1. PcFits(Kind(r), "put_user")
    BY <1>1 DEF PcFits, IdentityKinds, UserKinds
  <2> QED BY <1>1, <1>4, <2>1, FoundKeeps
<1> QED BY <1>2, <1>3, <1>4

\* Requests about users are about users.
LEMMA OnUser ==
  ASSUME RequestsFit, NEW r \in DOMAIN reqs, Kind(r) \in UserKinds
  PROVE  On(r) \in Users
BY ControlAssumption DEF RequestsFit, Kind, On

LEMMA NewRequest ==
  ASSUME RequestsFit, NEW r \in DOMAIN reqs
  PROVE  r \in Reqs /\ r # "init" /\ None # "init"
BY ControlAssumption DEF RequestsFit

\* The record that is written has a secret other than the first if the one it
\* replaces has or the request makes one, and is a record.
LEMMA ChangedRecord ==
  ASSUME NEW r, NEW u,
         Kind(r) \in {"create_user", "update_user", "set_password", "change_password", "revoke"}, r # "init",
         Kind(r) # "create_user" => \E W : u \in UserRecord(W)
  PROVE  /\ \E W : Changed(r, u) \in UserRecord(W)
         /\ Changed(r, u).secret = "init" => Kind(r) = "update_user" /\ u.secret = "init"
<1>1. CASE Kind(r) = "create_user"
  <2>1. PICK t : t = To(r)
    OBVIOUS
  <2>2. Changed(r, u) = [roles |-> t, pw |-> r, secret |-> r, by |-> r]
    BY <1>1, <2>1 DEF Changed
  <2>3. Changed(r, u) \in UserRecord({t, r}) /\ Changed(r, u).secret = r
    BY <2>2 DEF UserRecord
  <2> QED BY <2>3
<1>2. CASE Kind(r) # "create_user"
  <2>1. PICK W : u \in UserRecord(W)
    BY <1>2
  <2>2. PICK t : t = To(r)
    OBVIOUS
  <2>3. u \in UserRecord(W \cup {t, r})
    BY <2>1 DEF UserRecord
  <2>4. CASE Kind(r) = "update_user"
    <3>1. Changed(r, u) = [u EXCEPT !.roles = t, !.by = r]
      BY <2>2, <2>4 DEF Changed
    <3>2. Changed(r, u) \in UserRecord(W \cup {t, r}) /\ Changed(r, u).secret = u.secret
      BY <2>3, <3>1 DEF UserRecord
    <3> QED BY <2>4, <3>2
  <2>5. CASE Kind(r) \in {"set_password", "change_password"}
    <3>1. Changed(r, u) = [u EXCEPT !.pw = r, !.secret = r, !.by = r]
      BY <2>5 DEF Changed
    <3>2. Changed(r, u) \in UserRecord(W \cup {t, r}) /\ Changed(r, u).secret = r
      BY <2>3, <3>1 DEF UserRecord
    <3> QED BY <3>2
  <2>6. CASE Kind(r) = "revoke"
    <3>1. Changed(r, u) = [u EXCEPT !.secret = r, !.by = r]
      BY <2>6 DEF Changed
    <3>2. Changed(r, u) \in UserRecord(W \cup {t, r}) /\ Changed(r, u).secret = r
      BY <2>3, <3>1 DEF UserRecord
    <3> QED BY <3>2
  <2> QED BY <1>2, <2>4, <2>5, <2>6
<1> QED BY <1>1, <1>2

LEMMA Keeps_put_user ==
  ASSUME ControlInv, NEW r \in DOMAIN reqs, put_user(r)
  PROVE  ControlInv'
<1> DEFINE x == Changed(r, reqs[r].got)
<1>1. At(r, "put_user") /\ reqs[r].pc = "put_user" /\ PcFits(Kind(r), "put_user")
  BY DEF put_user, At, ControlInv, RequestsFit
<1>2. Kind(r) \in {"create_user", "update_user", "set_password", "change_password", "revoke"}
  BY <1>1 DEF PcFits, CommonPcs, IdentityPcs, IdentityKinds, UserKinds
<1>3. On(r) \in Users /\ r # "init" /\ None # "init"
  BY <1>2, OnUser, NewRequest DEF UserKinds, ControlInv
<1>4. PICK n \in Users : n = On(r)
  BY <1>3
<1>5. kv' = [kv EXCEPT !.users[n] = x]
  BY <1>4 DEF put_user
<1>6. /\ risk \subseteq risk'
      /\ ~Except({"user_race"})' => kv.users[n] = reqs[r].got
      /\ ~Except({"demoted"})' => ~(is_admin(kv.users[n]) /\ ~is_admin(x))
  BY <1>4 DEF put_user, Risk, Except
<1>7. PICK p \in {"announce", "forget"} : Turns(r, p) /\ PcFits(Kind(r), p)
  <2>1. CASE Kind(r) \in {"create_user", "update_user", "set_password"}
    <3>1. Written(r, Announced[Kind(r)], On(r))
      BY <2>1 DEF put_user, Announced
    <3>2. Turns(r, "announce")
      BY <3>1, WrittenTurns DEF ControlInv, Shaped
    <3> QED BY <2>1, <3>2 DEF PcFits, IdentityKinds, UserKinds
  <2>2. CASE Kind(r) \in {"change_password", "revoke"}
    <3>1. Goto(r, "forget")
      BY <2>2 DEF put_user, Announced
    <3>2. Turns(r, "forget")
      BY <3>1, GotoTurns DEF ControlInv, Shaped
    <3> QED BY <2>2, <3>2 DEF PcFits, IdentityKinds, UserKinds
  <2> QED BY <1>2, <2>1, <2>2
<1>8. mem' = mem
  BY DEF put_user
<1>9. Kind(r) # "create_user" => reqs[r].got # None
  BY <1>1 DEF ControlInv, UsersInv, FoundUser
<1> HIDE DEF x
<1>10. /\ kv'.jwt = kv.jwt /\ kv'.settings = kv.settings
       /\ \A u \in Users : kv'.users[u] = IF u = n THEN x ELSE kv.users[u]
       /\ (\E W : KvIn(W)') /\ \E W : kv'.users \in [Users -> W]
  BY <1>5, WriteUser DEF ControlInv
<1>11. SecretsStay
  BY <1>8, MemSame DEF ControlInv
<1>12. Shaped'
  BY <1>7, <1>8, <1>10, <1>11 DEF ControlInv, Shaped, SecretsStay, Turns
<1>13. RequestsFit'
  BY <1>7, FrameRequests DEF ControlInv
<1>14. AdminsFit'
  <2>1. OtherAdmin'
    BY <1>7, FrameOther DEF ControlInv, AdminsFit
  <2>2. ASSUME ~Except({"user_race", "demoted", "restored"})'
        PROVE  Admins' # {}
    <3>1. PICK a \in Users : is_admin(kv.users[a])
      BY <2>2, <1>6 DEF ControlInv, AdminsFit, LastAdmin, Except, Admins
    <3>2. is_admin(kv.users[n]) => is_admin(x)
      BY <2>2, <1>6 DEF Except
    <3>3. is_admin(kv'.users[a])
      BY <3>1, <3>2, <1>10
    <3> QED BY <3>1, <3>3 DEF Admins
  <2> QED BY <2>1, <2>2 DEF AdminsFit, LastAdmin
<1>15. UsersInv'
  <2>1. FoundUser'
    BY <1>7, FrameFound DEF ControlInv, UsersInv
  <2>2. ASSUME ~Except({"user_race", "restored"})'
        PROVE  /\ \E W : x \in UserRecord(W)
               /\ x.secret = "init" => Kind(r) = "update_user" /\ kv.users[n] # None /\ kv.users[n].secret = "init"
    <3>1. kv.users[n] = reqs[r].got /\ ~Except({"user_race", "restored"})
      BY <2>2, <1>6 DEF Except
    <3>2. Kind(r) # "create_user" => kv.users[n] # None /\ \E W : kv.users[n] \in UserRecord(W)
      BY <1>9, <3>1 DEF ControlInv, UsersInv, UsersTyped
    <3>3. /\ \E W : x \in UserRecord(W)
          /\ x.secret = "init" => Kind(r) = "update_user" /\ kv.users[n].secret = "init"
      <4>1. PICK u : u = reqs[r].got
        OBVIOUS
      <4>2. Kind(r) # "create_user" => \E W : u \in UserRecord(W)
        BY <4>1, <3>1, <3>2
      <4> QED BY <4>1, <4>2, <3>1, <1>2, <1>3, ChangedRecord DEF x
    <3> QED BY <3>2, <3>3
  <2>3. UsersTyped'
    BY <2>2, <1>6, <1>10 DEF ControlInv, UsersInv, UsersTyped, Except
  <2>4. SecretsKept'
    <3> SUFFICES ASSUME ~Except({"user_race", "restored"})', NEW q \in DOMAIN reqs', Revoked(q)', kv'.users[On(q)'] # None,
                        kv'.users[On(q)'].secret = "init"
                 PROVE  FALSE
      BY DEF SecretsKept
    <3>1. ~Except({"user_race", "restored"})
      BY <1>6 DEF Except
    <3>2. q \in DOMAIN reqs /\ On(q)' = On(q) /\ Kind(q)' = Kind(q) /\ On(q) \in Users
      <4>1. q \in DOMAIN reqs /\ On(q)' = On(q) /\ Kind(q)' = Kind(q)
        BY <1>7, TurnedRequest, SameRequest
      <4>2. Kind(q) \in UserKinds
        BY <4>1 DEF Revoked, UserKinds
      <4> QED BY <4>1, <4>2, OnUser DEF ControlInv
    <3>3. CASE q = r
      <4>1. Kind(r) # "update_user" /\ On(r) = n
        BY <3>2, <3>3, <1>4 DEF Revoked
      <4> QED BY <4>1, <2>2, <3>2, <3>3, <1>10
    <3>4. CASE q # r
      <4>1. Revoked(q)
        BY <3>4, <3>2, <1>7, TurnedRequest, SameRequest DEF Revoked
      <4>2. kv.users[On(q)] # None => kv.users[On(q)].secret # "init"
        BY <4>1, <3>1, <3>2 DEF ControlInv, UsersInv, SecretsKept
      <4> QED BY <4>2, <2>2, <3>2, <1>10
    <3> QED BY <3>3, <3>4
  <2> QED BY <2>1, <2>3, <2>4 DEF UsersInv
<1>16. RotatorFits(r)' /\ ~RevokedAll(r)' /\ ~HasPut(r)'
  BY <1>7, TurnedRequest DEF RotatorFits, RevokedAll, HasPut, Done
<1>17. SecretsInv'
  BY <1>6, <1>7, <1>10, <1>11, <1>16, SecretsSame
<1>18. SettingsInv'
  BY <1>6, <1>7, <1>10, <1>16, SettingsStay
<1> QED BY <1>12, <1>13, <1>14, <1>15, <1>17, <1>18 DEF ControlInv

LEMMA Keeps_forget ==
  ASSUME ControlInv, NEW r \in DOMAIN reqs, forget(r)
  PROVE  ControlInv'
<1>1. At(r, "forget") /\ reqs[r].pc = "forget" /\ PcFits(Kind(r), "forget") /\ kv' = kv /\ risk' = risk
  BY DEF forget, At, ControlInv, RequestsFit
<1>2. Kind(r) \in {"revoke", "change_password"}
  BY <1>1 DEF PcFits, CommonPcs, IdentityPcs, IdentityKinds, UserKinds
<1>3. PICK g : reqs' = [reqs EXCEPT ![r] = Answered(r, "ok", g)]
  BY DEF forget
<1>4. Turns(r, "done")
  BY <1>3, AnsweredTurns DEF ControlInv, Shaped
<1>5. SecretsStay
  <2>1. PICK i \in Insts : i = Where(r)
    BY Placed DEF ControlInv
  <2>2. PICK u : mem' = [mem EXCEPT ![i] = invalidate_user(mem[i], u)]
    BY <2>1 DEF forget
  <2> QED BY <2>2, MemForget DEF ControlInv
<1>6. Unwritten /\ kv'.users = kv.users /\ kv'.jwt = kv.jwt /\ kv'.settings = kv.settings
  BY <1>1, KvSame DEF ControlInv
<1>7. PcFits(Kind(r), "done")
  BY CommonFits DEF CommonPcs
<1>8. Revoked(r) /\ ~RevokedAll(r)' /\ ~HasPut(r)' /\ RotatorFits(r)'
  BY <1>1, <1>2, <1>4, TurnedRequest DEF Revoked, RevokedAll, HasPut, RotatorFits
<1>9. Shaped' /\ RequestsFit'
  BY <1>4, <1>5, <1>6, <1>7, FrameShaped, FrameRequests DEF ControlInv, Turns
<1>10. AdminsFit' /\ UsersInv' /\ SettingsInv'
  BY <1>1, <1>4, <1>6, <1>8, UsersStay, SettingsStay
<1>11. SecretsInv'
  BY <1>1, <1>4, <1>5, <1>6, <1>8, SecretsSame
<1> QED BY <1>9, <1>10, <1>11 DEF ControlInv

LEMMA Keeps_delete_user ==
  ASSUME ControlInv, NEW r \in DOMAIN reqs, delete_user(r)
  PROVE  ControlInv'
<1>1. Kind(r) = "delete_user"
  <2>1. Kind(r) = "delete_user" \/ reqs[r].pc = "delete_user"
    BY DEF delete_user, Asks, At
  <2>2. PcFits(Kind(r), reqs[r].pc)
    BY DEF ControlInv, RequestsFit
  <2> QED BY <2>1, <2>2 DEF PcFits, CommonPcs, IdentityPcs, IdentityKinds, UserKinds
<1>2. PICK n \in Users : n = On(r)
  BY <1>1, OnUser DEF ControlInv, UserKinds
<1>3. mem' = mem /\ SecretsStay
  BY MemSame DEF delete_user, ControlInv
<1>4. \/ /\ may_delete(n) /\ Keep(r, "delete_user", Admins) /\ kv' = kv /\ risk' = risk
      \/ kv' = kv /\ risk \subseteq risk' /\ \E w : w # "ok" /\ Reply(r, w)
      \/ /\ At(r, "delete_user") /\ risk \subseteq risk' /\ ("user_race" \notin risk' => Admins = reqs[r].got)
         /\ kv' = [kv EXCEPT !.users[n] = None] /\ Written(r, "deleted", n)
  BY <1>2 DEF delete_user, Risk
<1>5. CASE may_delete(n) /\ Keep(r, "delete_user", Admins) /\ kv' = kv /\ risk' = risk
  <2>1. Turns(r, "delete_user") /\ reqs'[r].got = Admins
    BY <1>5, KeepTurns DEF ControlInv, Shaped
  <2>2. PcFits(Kind(r), "delete_user") /\ ~Revoked(r)' /\ ~HasPut(r)'
    BY <1>1, <2>1, TurnedRequest DEF PcFits, IdentityKinds, UserKinds, Revoked, HasPut
  <2>3. Shaped' /\ RequestsFit' /\ SecretsInv' /\ SettingsInv'
    BY <1>3, <1>5, <2>1, <2>2, Considers
  <2>4. UsersInv' /\ LastAdmin'
    BY <1>5, <2>1, <2>2, FrameFound, FrameUsersTyped, FrameSecretsKept, FrameLast DEF ControlInv, UsersInv, AdminsFit
  <2>5. OtherAdmin'
    <3> SUFFICES ASSUME NEW q \in DOMAIN reqs', At(q, "delete_user")', On(q)' \in reqs'[q].got
                 PROVE  \E u \in reqs'[q].got : u # On(q)'
      BY DEF OtherAdmin
    <3>1. CASE q = r
      <4>1. n \in Admins /\ On(q)' = n
        BY <3>1, <1>2, <2>1, TurnedRequest
      <4>2. Cardinality(Admins) > 1
        BY <1>5, <4>1 DEF may_delete, Admins
      <4>3. \E u \in Admins : u # n
        <5>1. SUFFICES ASSUME \A u \in Admins : u = n
                       PROVE  FALSE
          OBVIOUS
        <5>2. Admins = {n}
          BY <5>1, <4>1
        <5>3. Cardinality({n}) = 1
          BY FS_Singleton
        <5> QED BY <5>2, <5>3, <4>2
      <4> QED BY <4>1, <4>3, <2>1, <3>1
    <3>2. CASE q # r
      <4>1. q \in DOMAIN reqs /\ reqs'[q] = reqs[q]
        BY <2>1, <3>2, TurnedRequest
      <4> QED BY <4>1, SameRequest DEF OtherAdmin, ControlInv, AdminsFit
    <3> QED BY <3>1, <3>2
  <2> QED BY <2>3, <2>4, <2>5 DEF ControlInv, AdminsFit
<1>6. CASE kv' = kv /\ risk \subseteq risk' /\ \E w : w # "ok" /\ Reply(r, w)
  <2>1. Unwritten
    BY <1>6, KvSame DEF ControlInv
  <2> QED BY <1>3, <1>6, <2>1, ReplyCalm, CalmKeeps DEF ControlInv
<1>7. CASE /\ At(r, "delete_user") /\ risk \subseteq risk' /\ ("user_race" \notin risk' => Admins = reqs[r].got)
           /\ kv' = [kv EXCEPT !.users[n] = None] /\ Written(r, "deleted", n)
  <2>1. /\ kv'.jwt = kv.jwt /\ kv'.settings = kv.settings
        /\ \A u \in Users : kv'.users[u] = IF u = n THEN None ELSE kv.users[u]
        /\ (\E W : KvIn(W)') /\ \E W : kv'.users \in [Users -> W]
    BY <1>7, WriteUser DEF ControlInv
  <2>2. Turns(r, "announce")
    BY <1>7, WrittenTurns DEF ControlInv, Shaped
  <2>3. PcFits(Kind(r), "announce") /\ ~Revoked(r)' /\ ~HasPut(r)' /\ ~RevokedAll(r)' /\ RotatorFits(r)'
    BY <1>1, <2>2, TurnedRequest DEF PcFits, IdentityKinds, UserKinds, IdentityPcs, Revoked, HasPut, RevokedAll, RotatorFits
  <2>4. Shaped'
    BY <1>3, <2>1, <2>2 DEF ControlInv, Shaped, SecretsStay, Turns
  <2>5. RequestsFit'
    BY <2>2, <2>3, FrameRequests DEF ControlInv
  <2>6. OtherAdmin' /\ FoundUser'
    BY <2>2, FrameOther, FrameFound DEF ControlInv, AdminsFit, UsersInv
  <2>7. LastAdmin'
    <3> SUFFICES ASSUME ~Except({"user_race", "demoted", "restored"})'
                 PROVE  \E a \in Users : is_admin(kv'.users[a])
      BY DEF LastAdmin, Admins
    <3>1. Admins = reqs[r].got /\ Admins # {}
      BY <1>7 DEF ControlInv, AdminsFit, LastAdmin, Except
    <3>2. PICK a \in Admins : a # n
      <4>1. n \in Admins => \E a \in Admins : a # n
        BY <1>2, <1>7, <3>1 DEF ControlInv, AdminsFit, OtherAdmin
      <4> QED BY <3>1, <4>1
    <3> QED BY <3>2, <2>1 DEF Admins
  <2>8. UsersTyped'
    BY <1>7, <2>1 DEF ControlInv, UsersInv, UsersTyped, Except
  <2>9. SecretsKept'
    <3> SUFFICES ASSUME ~Except({"user_race", "restored"})', NEW q \in DOMAIN reqs', Revoked(q)', kv'.users[On(q)'] # None
                 PROVE  kv'.users[On(q)'].secret # "init"
      BY DEF SecretsKept
    <3>1. q # r /\ q \in DOMAIN reqs /\ reqs'[q] = reqs[q]
      BY <2>2, <2>3, TurnedRequest
    <3>2. Revoked(q) /\ On(q)' = On(q) /\ Kind(q) \in UserKinds
      BY <3>1, SameRequest DEF Revoked, UserKinds
    <3>3. On(q) \in Users
      BY <3>1, <3>2, OnUser DEF ControlInv
    <3>4. ~Except({"user_race", "restored"})
      BY <1>7 DEF Except
    <3>5. On(q) # n /\ kv'.users[On(q)] = kv.users[On(q)]
      BY <3>2, <3>3, <2>1
    <3> QED BY <3>1, <3>2, <3>4, <3>5 DEF ControlInv, UsersInv, SecretsKept
  <2>10. SecretsInv'
    BY <1>3, <1>7, <2>1, <2>2, <2>3, SecretsSame
  <2>11. SettingsInv'
    BY <1>7, <2>1, <2>2, <2>3, SettingsStay
  <2> QED BY <2>4, <2>5, <2>6, <2>7, <2>8, <2>9, <2>10, <2>11 DEF ControlInv, AdminsFit, UsersInv
<1> QED BY <1>4, <1>5, <1>6, <1>7

-----------------------------------------------------------------------------
(* The global secrets.                                                     *)

LEMMA Keeps_revoke_all_tokens ==
  ASSUME ControlInv, NEW r \in DOMAIN reqs, revoke_all_tokens(r)
  PROVE  ControlInv'
<1>1. Kind(r) = "revoke_all" /\ kv' = kv /\ mem' = mem /\ risk' = risk
  BY DEF revoke_all_tokens, Asks
<1>2. PICK b : Keep(r, "put_jwt", [new |-> [cur |-> r, prev |-> None], base |-> b])
  BY DEF revoke_all_tokens
<1>3. Turns(r, "put_jwt") /\ reqs'[r].got.new = [cur |-> r, prev |-> None]
  BY <1>2, KeepTurns DEF ControlInv, Shaped
<1>4. PcFits(Kind(r), "put_jwt") /\ ~Revoked(r)' /\ ~HasPut(r)' /\ ~RevokedAll(r)'
  BY <1>1, <1>3, TurnedRequest DEF PcFits, IdentityKinds, UserKinds, Revoked, HasPut, RevokedAll, Done
<1>5. Shaped' /\ RequestsFit' /\ AdminsFit' /\ UsersInv' /\ SettingsInv'
  BY <1>1, <1>3, <1>4, Considers
<1>6. NextSecrets'
  <2> SUFFICES ASSUME NEW q \in DOMAIN reqs', At(q, "put_jwt")', q # r
               PROVE  \/ Kind(q)' = "revoke_all" /\ reqs'[q].got.new = [cur |-> q, prev |-> None]
                      \/ Kind(q)' = "rotate" /\ reqs'[q].got.new = [cur |-> q, prev |-> reqs'[q].got.base.cur]
    BY <1>1, <1>3, TurnedRequest DEF NextSecrets
  <2>1. q \in DOMAIN reqs /\ reqs'[q] = reqs[q]
    BY <1>3, TurnedRequest
  <2> QED BY <2>1, SameRequest DEF NextSecrets, ControlInv, SecretsInv
<1>7. FirstEnded'
  BY <1>1, <1>3, <1>4, FrameFirstEnded DEF ControlInv, SecretsInv
<1>8. ~Quiet'
  BY <1>1, <1>3, FrameBegun DEF Quiet
<1> QED BY <1>5, <1>6, <1>7, <1>8 DEF ControlInv, SecretsInv, OneRotation

LEMMA Keeps_run_jwt_rotation ==
  ASSUME ControlInv, NEW r \in DOMAIN reqs, run_jwt_rotation(r)
  PROVE  ControlInv'
<1>1. Kind(r) = "rotate" /\ At(r, "start") /\ kv' = kv /\ mem' = mem /\ risk' = risk
  BY DEF run_jwt_rotation
<1>2. PICK b : b = Inst(r).jwt
  OBVIOUS
<1>3. Keep(r, "put_jwt", [new |-> [cur |-> r, prev |-> b.cur], base |-> b])
  BY <1>2 DEF run_jwt_rotation
<1>4. Turns(r, "put_jwt") /\ reqs'[r].got = [new |-> [cur |-> r, prev |-> b.cur], base |-> b]
  BY <1>3, KeepTurns DEF ControlInv, Shaped
<1>5. PcFits(Kind(r), "put_jwt") /\ ~Revoked(r)' /\ ~HasPut(r)' /\ ~RevokedAll(r)'
  BY <1>1, <1>4, TurnedRequest DEF PcFits, IdentityKinds, UserKinds, Revoked, HasPut, RevokedAll
<1>6. Shaped' /\ RequestsFit' /\ AdminsFit' /\ UsersInv' /\ SettingsInv'
  BY <1>1, <1>4, <1>5, Considers
<1>7. NextSecrets'
  <2> SUFFICES ASSUME NEW q \in DOMAIN reqs', At(q, "put_jwt")', q # r
               PROVE  \/ Kind(q)' = "revoke_all" /\ reqs'[q].got.new = [cur |-> q, prev |-> None]
                      \/ Kind(q)' = "rotate" /\ reqs'[q].got.new = [cur |-> q, prev |-> reqs'[q].got.base.cur]
    BY <1>1, <1>4, TurnedRequest DEF NextSecrets
  <2>1. q \in DOMAIN reqs /\ reqs'[q] = reqs[q]
    BY <1>4, TurnedRequest
  <2> QED BY <2>1, SameRequest DEF NextSecrets, ControlInv, SecretsInv
<1>8. FirstEnded'
  BY <1>1, <1>4, <1>5, FrameFirstEnded DEF ControlInv, SecretsInv
<1>9. ASSUME Quiet'
      PROVE  SecretsKnown' /\ RotatorFits(r)'
  <2>1. Quiet /\ OneRotation
    BY <1>4, <1>9, FrameQuiet DEF ControlInv, SecretsInv
  <2>2. Begun("rotate") = {}
    <3>1. r \in Begun("rotate")' /\ Begun("rotate") \subseteq Begun("rotate")'
      BY <1>1, <1>4, FrameBegun
    <3>2. r \notin Begun("rotate")
      BY <1>1 DEF Begun
    <3> QED BY <3>1, <3>2, <1>9 DEF Quiet
  <2>3. kv.jwt = First
    BY <2>1, <2>2 DEF OneRotation, Rotated
  <2>4. b.cur = "init"
    <3>1. Where(r) \in Insts
      BY Placed DEF ControlInv
    <3>2. b = First
      BY <3>1, <1>2, <2>1, <2>3 DEF OneRotation, SecretsKnown, Inst
    <3> QED BY <3>2 DEF First
  <2>5. SecretsKnown'
    BY <1>1, <2>1, MemSame, StayKnown DEF ControlInv
  <2>6. RotatorFits(r)'
    BY <1>1, <1>4, <2>4, TurnedRequest DEF RotatorFits
  <2> QED BY <2>5, <2>6
<1>10. OneRotation'
  BY <1>1, <1>4, <1>9, FrameRotation DEF ControlInv, SecretsInv
<1> QED BY <1>6, <1>7, <1>8, <1>10 DEF ControlInv, SecretsInv

LEMMA Keeps_put_jwt ==
  ASSUME ControlInv, NEW r \in DOMAIN reqs, put_jwt(r)
  PROVE  ControlInv'
<1>1. At(r, "put_jwt") /\ reqs[r].pc = "put_jwt" /\ PcFits(Kind(r), "put_jwt") /\ mem' = mem
  BY DEF put_jwt, At, ControlInv, RequestsFit
<1>2. PICK g : g = reqs[r].got
  OBVIOUS
<1>3. /\ risk \subseteq risk'
      /\ Kind(r) = "rotate" /\ ~Except({"unrefreshed"})' => kv.jwt = g.base
      /\ kv' = [kv EXCEPT !.jwt = g.new] /\ Goto(r, "use_jwt")
  BY <1>2 DEF put_jwt, Risk, Except
<1>4. /\ kv'.jwt = g.new /\ kv'.users = kv.users /\ kv'.settings = kv.settings
      /\ \E W : KvIn(W)'
  BY <1>3, WriteSecrets DEF ControlInv
<1>5. Turns(r, "use_jwt") /\ reqs'[r].got = g
  BY <1>2, <1>3, GotoTurns DEF ControlInv, Shaped
<1>6. \/ Kind(r) = "revoke_all" /\ g.new = [cur |-> r, prev |-> None]
      \/ Kind(r) = "rotate" /\ g.new = [cur |-> r, prev |-> g.base.cur]
  BY <1>1, <1>2 DEF ControlInv, SecretsInv, NextSecrets
<1>7. PcFits(Kind(r), "use_jwt") /\ ~Revoked(r)' /\ ~HasPut(r)'
  BY <1>5, <1>6, TurnedRequest DEF PcFits, IdentityKinds, UserKinds, Revoked, HasPut
<1>8. SecretsStay
  BY <1>1, MemSame DEF ControlInv
<1>9. Shaped'
  BY <1>4, <1>5, <1>8 DEF ControlInv, Shaped, SecretsStay, Turns
<1>10. RequestsFit'
  BY <1>5, <1>7, FrameRequests DEF ControlInv
<1>11. AdminsFit' /\ UsersInv' /\ SettingsInv'
  BY <1>3, <1>4, <1>5, <1>7, UsersStay, SettingsStay
<1>12. NextSecrets'
  BY <1>5, FrameNextSecrets DEF ControlInv, SecretsInv
<1>13. FirstEnded'
  <2> SUFFICES ASSUME ~Except({"unrefreshed"})', NEW q \in DOMAIN reqs', RevokedAll(q)'
               PROVE  "init" \notin {kv'.jwt.cur, kv'.jwt.prev}
    BY DEF FirstEnded
  <2>1. r # "init" /\ None # "init"
    BY NewRequest DEF ControlInv
  <2>2. CASE Kind(r) = "revoke_all" /\ g.new = [cur |-> r, prev |-> None]
    BY <2>1, <2>2, <1>4
  <2>3. CASE Kind(r) = "rotate" /\ g.new = [cur |-> r, prev |-> g.base.cur]
    <3>1. q # r
      BY <2>3, <1>5, TurnedRequest DEF RevokedAll
    <3>2. q \in DOMAIN reqs /\ RevokedAll(q)
      BY <3>1, <1>5, TurnedRequest, SameRequest DEF RevokedAll
    <3>3. "init" # kv.jwt.cur
      BY <3>2, <1>3 DEF ControlInv, SecretsInv, FirstEnded, Except
    <3>4. kv'.jwt.cur = r /\ kv'.jwt.prev = kv.jwt.cur
      BY <2>3, <1>3, <1>4
    <3> QED BY <2>1, <3>3, <3>4
  <2> QED BY <1>6, <2>2, <2>3
<1>14. ASSUME Quiet'
       PROVE  Rotated(kv.jwt)' /\ SecretsKnown' /\ \A q \in DOMAIN reqs' : RotatorFits(q)'
  <2>1. Quiet /\ OneRotation
    BY <1>5, <1>14, FrameQuiet DEF ControlInv, SecretsInv
  <2>2. Kind(r) = "rotate"
    <3>1. Begun("revoke_all") = {}
      BY <2>1 DEF Quiet
    <3>2. Kind(r) # "revoke_all"
      BY <3>1, <1>1 DEF Begun, At
    <3> QED BY <3>2, <1>6
  <2>3. r \in Begun("rotate") /\ r \in Begun("rotate")'
    BY <1>1, <1>5, <2>2, FrameBegun DEF Begun, At
  <2>4. g.new = [cur |-> r, prev |-> "init"]
    BY <1>1, <1>2, <2>1, <2>2 DEF OneRotation, RotatorFits
  <2>5. kv.jwt = First
    BY <1>1, <2>1, <2>3 DEF OneRotation, Rotated, Quiet
  <2>6. Rotated(kv.jwt)'
    BY <1>4, <1>5, <2>3, <2>4, TurnedRequest DEF Rotated
  <2>7. SecretsKnown'
    BY <1>8, <2>1, <2>5 DEF OneRotation, SecretsKnown, SecretsStay, First
  <2>8. ASSUME NEW q \in DOMAIN reqs'
        PROVE  RotatorFits(q)'
    <3>1. CASE q = r
      BY <3>1, <1>4, <1>5, <2>2, TurnedRequest DEF RotatorFits
    <3>2. CASE q # r
      <4>1. q \in DOMAIN reqs /\ reqs'[q] = reqs[q]
        BY <1>5, <3>2, TurnedRequest
      <4>2. RotatorFits(q)
        BY <2>1, <4>1 DEF OneRotation
      <4>3. ~(Kind(q) = "rotate" /\ At(q, "use_jwt"))
        BY <2>1, <2>3, <3>2, <4>1 DEF Quiet, Begun, At
      <4>4. kv.jwt.cur = "init"
        BY <2>5 DEF First
      <4> QED BY <4>1, <4>2, <4>3, <4>4, SameRequest DEF RotatorFits
    <3> QED BY <3>1, <3>2
  <2> QED BY <2>6, <2>7, <2>8
<1>15. OneRotation'
  BY <1>14 DEF OneRotation
<1> QED BY <1>9, <1>10, <1>11, <1>12, <1>13, <1>15 DEF ControlInv, SecretsInv

\* Another value of one part of an instance's memory.
LEMMA SetSecrets ==
  ASSUME Shaped, NEW i \in Insts, NEW x, mem' = [mem EXCEPT ![i].jwt = x]
  PROVE  /\ \A j \in Insts : mem'[j].jwt = (IF j = i THEN x ELSE mem[j].jwt) /\ mem'[j].refresh = mem[j].refresh
         /\ \E W : MemIn(W)'
<1>0. PICK W : MemIn(W)
  BY DEF Shaped
<1> DEFINE v == [mem[i] EXCEPT !.jwt = x]
<1>1. mem[i] \in Memory(W)
  BY <1>0 DEF MemIn
<1>2. v \in Memory(W \cup {x}) /\ v.jwt = x /\ v.refresh = mem[i].refresh
  BY <1>1 DEF Memory
<1>3. mem' = [mem EXCEPT ![i] = v]
  OBVIOUS
<1> HIDE DEF v
<1>4. mem \in [Insts -> Memory(W \cup {x})]
  <2>1. \A j \in Insts : mem[j] \in Memory(W \cup {x})
    BY <1>0 DEF MemIn, Memory
  <2> QED BY <2>1, <1>0 DEF MemIn
<1>5. mem' \in [Insts -> Memory(W \cup {x})]
  BY <1>2, <1>3, <1>4
<1>6. \A j \in Insts : mem'[j].jwt = (IF j = i THEN x ELSE mem[j].jwt) /\ mem'[j].refresh = mem[j].refresh
  BY <1>0, <1>2, <1>3 DEF MemIn
<1> QED BY <1>5, <1>6 DEF MemIn

LEMMA Keeps_use_jwt ==
  ASSUME ControlInv, NEW r \in DOMAIN reqs, use_jwt(r)
  PROVE  ControlInv'
<1>1. At(r, "use_jwt") /\ reqs[r].pc = "use_jwt" /\ PcFits(Kind(r), "use_jwt") /\ kv' = kv /\ risk' = risk
  BY DEF use_jwt, At, ControlInv, RequestsFit
<1>2. Kind(r) \in {"revoke_all", "rotate"}
  BY <1>1 DEF PcFits, CommonPcs, IdentityPcs, IdentityKinds, UserKinds
<1>3. Turns(r, "done")
  <2>1. Reply(r, "ok")
    BY DEF use_jwt
  <2> QED BY <2>1, ReplyTurns DEF ControlInv, Shaped
<1>4. PICK i \in Insts : i = Where(r)
  BY Placed DEF ControlInv
<1>5. mem' = [mem EXCEPT ![i].jwt = reqs[r].got.new]
  BY <1>4 DEF use_jwt
<1>6. /\ \A j \in Insts : mem'[j].jwt = (IF j = i THEN reqs[r].got.new ELSE mem[j].jwt) /\ mem'[j].refresh = mem[j].refresh
      /\ \E W : MemIn(W)'
  BY <1>5, SetSecrets DEF ControlInv
<1>7. PcFits(Kind(r), "done")
  BY CommonFits DEF CommonPcs
<1>8. /\ Kind(r)' = Kind(r) /\ ~Revoked(r)' /\ ~HasPut(r)' /\ (RevokedAll(r)' => RevokedAll(r))
      /\ RotatorFits(r)'
  BY <1>1, <1>2, <1>3, TurnedRequest DEF Revoked, HasPut, RevokedAll, RotatorFits
<1>9. Shaped'
  <2>1. \A j \in Insts : mem'[j].refresh.pc \in RefreshPcs
    BY <1>6 DEF ControlInv, Shaped
  <2>2. Unwritten
    BY <1>1, KvSame DEF ControlInv
  <2> QED BY <1>1, <1>3, <1>6, <2>1, <2>2 DEF ControlInv, Shaped, Turns, Unwritten
<1>10. RequestsFit'
  BY <1>3, <1>7, FrameRequests DEF ControlInv
<1>11. AdminsFit' /\ UsersInv' /\ SettingsInv'
  BY <1>1, <1>3, <1>8, UsersStay, SettingsStay
<1>12. NextSecrets' /\ FirstEnded'
  BY <1>1, <1>3, <1>8, FrameNextSecrets, FrameFirstEnded DEF ControlInv, SecretsInv
<1>13. ASSUME Quiet'
       PROVE  SecretsKnown'
  <2>1. Quiet /\ OneRotation
    BY <1>3, <1>13, FrameQuiet DEF ControlInv, SecretsInv
  <2>2. Kind(r) = "rotate"
    <3>1. Begun("revoke_all") = {}
      BY <2>1 DEF Quiet
    <3>2. Kind(r) # "revoke_all"
      BY <3>1, <1>1 DEF Begun, At
    <3> QED BY <3>2, <1>2
  <2>3. reqs[r].got.new = kv.jwt
    BY <1>1, <2>1, <2>2 DEF OneRotation, RotatorFits
  <2> QED BY <1>1, <1>6, <2>1, <2>3 DEF OneRotation, SecretsKnown, First
<1>14. OneRotation'
  BY <1>1, <1>3, <1>8, <1>13, FrameRotation DEF ControlInv, SecretsInv
<1> QED BY <1>9, <1>10, <1>11, <1>12, <1>14 DEF ControlInv, SecretsInv

-----------------------------------------------------------------------------
(* The settings.                                                           *)

LEMMA OnField ==
  ASSUME RequestsFit, NEW r \in DOMAIN reqs, Kind(r) = "put_settings"
  PROVE  On(r) \in Fields
BY ControlAssumption DEF RequestsFit, Kind, On

LEMMA Keeps_put_settings ==
  ASSUME ControlInv, NEW r \in DOMAIN reqs, put_settings(r)
  PROVE  ControlInv'
<1>1. Kind(r) = "put_settings" /\ kv' = kv /\ mem' = mem /\ risk' = risk
  BY DEF put_settings, Asks
<1>2. PICK b : b = Inst(r).settings
  OBVIOUS
<1>3. Keep(r, "put_settings", [new |-> [b EXCEPT ![On(r)] = r], base |-> b])
  BY <1>2 DEF put_settings
<1>4. /\ Turns(r, "put_settings")
      /\ reqs'[r].got.new = [b EXCEPT ![On(r)] = r] /\ reqs'[r].got.base = b
  <2>1. PICK n : n = [b EXCEPT ![On(r)] = r]
    OBVIOUS
  <2>2. Keep(r, "put_settings", [new |-> n, base |-> b])
    BY <1>3, <2>1
  <2>3. Turns(r, "put_settings") /\ reqs'[r].got = [new |-> n, base |-> b]
    BY <2>2, KeepTurns DEF ControlInv, Shaped
  <2> QED BY <2>1, <2>3
<1>5. PcFits(Kind(r), "put_settings") /\ ~Revoked(r)' /\ ~HasPut(r)'
  BY <1>1, <1>4, TurnedRequest DEF PcFits, IdentityKinds, UserKinds, Revoked, HasPut, Done
<1>6. Shaped' /\ RequestsFit' /\ AdminsFit' /\ UsersInv' /\ SecretsInv'
  BY <1>1, <1>4, <1>5, Considers
<1>7. NextSettings'
  <2> SUFFICES ASSUME NEW q \in DOMAIN reqs', At(q, "put_settings")'
               PROVE  reqs'[q].got.new = [reqs'[q].got.base EXCEPT ![On(q)'] = q]
    BY DEF NextSettings
  <2>1. CASE q = r
    BY <2>1, <1>4, TurnedRequest
  <2>2. CASE q # r
    <3>1. q \in DOMAIN reqs /\ reqs'[q] = reqs[q]
      BY <1>4, <2>2, TurnedRequest
    <3> QED BY <3>1, SameRequest DEF NextSettings, ControlInv, SettingsInv
  <2> QED BY <2>1, <2>2
<1>8. SettingsTyped' /\ PutKept'
  BY <1>1, <1>4, <1>5, FrameSettingsTyped, FramePut DEF ControlInv, SettingsInv
<1> QED BY <1>6, <1>7, <1>8 DEF ControlInv, SettingsInv

LEMMA Keeps_save_settings ==
  ASSUME ControlInv, NEW r \in DOMAIN reqs, save_settings(r)
  PROVE  ControlInv'
<1>1. At(r, "put_settings") /\ reqs[r].pc = "put_settings" /\ PcFits(Kind(r), "put_settings") /\ mem' = mem
  BY DEF save_settings, At, ControlInv, RequestsFit
<1>2. Kind(r) = "put_settings"
  BY <1>1 DEF PcFits, CommonPcs, IdentityPcs, IdentityKinds, UserKinds
<1>3. PICK s, b : s = reqs[r].got.new /\ b = reqs[r].got.base
  OBVIOUS
<1>4. /\ risk \subseteq risk' /\ (~Except({"unmerged"})' => kv.settings = b)
      /\ kv' = [kv EXCEPT !.settings = s] /\ Goto(r, "use_settings")
  BY <1>3 DEF save_settings, Risk, Except
<1>5. /\ kv'.settings = s /\ kv'.users = kv.users /\ kv'.jwt = kv.jwt
      /\ \E W : KvIn(W)'
  BY <1>4, WriteSettings DEF ControlInv
<1>6. Turns(r, "use_settings")
  BY <1>4, GotoTurns DEF ControlInv, Shaped
<1>7. PcFits(Kind(r), "use_settings") /\ ~Revoked(r)' /\ ~RevokedAll(r)' /\ RotatorFits(r)'
  BY <1>2, <1>6, TurnedRequest DEF PcFits, IdentityKinds, UserKinds, Revoked, RevokedAll, RotatorFits
<1>8. SecretsStay
  BY <1>1, MemSame DEF ControlInv
<1>9. Shaped'
  BY <1>5, <1>6, <1>8 DEF ControlInv, Shaped, SecretsStay, Turns
<1>10. RequestsFit'
  BY <1>6, <1>7, FrameRequests DEF ControlInv
<1>11. AdminsFit' /\ UsersInv'
  BY <1>4, <1>5, <1>6, <1>7, UsersStay
<1>12. SecretsInv'
  BY <1>4, <1>5, <1>6, <1>7, <1>8, SecretsSame
<1>13. NextSettings'
  BY <1>6, FrameNextSettings DEF ControlInv, SettingsInv
<1>14. ASSUME ~Except({"unmerged", "restored"})'
       PROVE  /\ \E W : kv'.settings \in [Fields -> W]
              /\ \A f \in Fields : kv'.settings[f] = IF f = On(r) THEN r ELSE kv.settings[f]
  <2>1. PICK W : kv.settings \in [Fields -> W]
    BY <1>4, <1>14 DEF ControlInv, SettingsInv, SettingsTyped, Except
  <2>2. s = [kv.settings EXCEPT ![On(r)] = r]
    BY <1>1, <1>3, <1>4, <1>14 DEF ControlInv, SettingsInv, NextSettings, Except
  <2>3. s \in [Fields -> W \cup {r}] /\ \A f \in Fields : s[f] = IF f = On(r) THEN r ELSE kv.settings[f]
    BY <2>1, <2>2
  <2> QED BY <1>5, <2>3
<1>15. SettingsTyped'
  BY <1>14 DEF SettingsTyped
<1>16. PutKept'
  <2> SUFFICES ASSUME ~Except({"unmerged", "restored"})', NEW q \in DOMAIN reqs', HasPut(q)'
               PROVE  kv'.settings[On(q)'] # "init"
    BY DEF PutKept
  <2>1. q \in DOMAIN reqs /\ On(q)' = On(q) /\ Kind(q) = "put_settings" /\ (q # r => HasPut(q))
    BY <1>2, <1>6, TurnedRequest, SameRequest DEF HasPut
  <2>2. On(q) \in Fields /\ r # "init"
    BY <2>1, OnField, NewRequest DEF ControlInv
  <2>3. q # r => kv.settings[On(q)] # "init"
    BY <1>4, <2>1 DEF ControlInv, SettingsInv, PutKept, Except
  <2> QED BY <1>14, <2>1, <2>2, <2>3
<1> QED BY <1>9, <1>10, <1>11, <1>12, <1>13, <1>15, <1>16 DEF ControlInv, SettingsInv

LEMMA Keeps_use_settings ==
  ASSUME ControlInv, NEW r \in DOMAIN reqs, use_settings(r)
  PROVE  ControlInv'
<1>1. At(r, "use_settings") /\ reqs[r].pc = "use_settings" /\ PcFits(Kind(r), "use_settings") /\ kv' = kv /\ risk' = risk
  BY DEF use_settings, At, ControlInv, RequestsFit
<1>2. Kind(r) = "put_settings"
  BY <1>1 DEF PcFits, CommonPcs, IdentityPcs, IdentityKinds, UserKinds
<1>3. Turns(r, "done")
  <2>1. Reply(r, "ok")
    BY DEF use_settings
  <2> QED BY <2>1, ReplyTurns DEF ControlInv, Shaped
<1>4. SecretsStay
  <2>1. PICK i \in Insts : i = Where(r)
    BY Placed DEF ControlInv
  <2>2. PICK x : mem' = [mem EXCEPT ![i].settings = x]
    BY <2>1 DEF use_settings
  <2> QED BY <2>2, MemField DEF ControlInv
<1>5. Unwritten /\ kv'.users = kv.users /\ kv'.jwt = kv.jwt /\ kv'.settings = kv.settings
  BY <1>1, KvSame DEF ControlInv
<1>6. PcFits(Kind(r), "done")
  BY CommonFits DEF CommonPcs
<1>7. ~Revoked(r)' /\ ~RevokedAll(r)' /\ HasPut(r) /\ RotatorFits(r)'
  BY <1>1, <1>2, <1>3, TurnedRequest DEF Revoked, RevokedAll, HasPut, RotatorFits
<1>8. Shaped' /\ RequestsFit'
  BY <1>3, <1>4, <1>5, <1>6, FrameShaped, FrameRequests DEF ControlInv, Turns
<1>9. AdminsFit' /\ UsersInv' /\ SettingsInv'
  BY <1>1, <1>3, <1>5, <1>7, UsersStay, SettingsStay
<1>10. SecretsInv'
  BY <1>1, <1>3, <1>4, <1>5, <1>7, SecretsSame
<1> QED BY <1>8, <1>9, <1>10 DEF ControlInv

\* What an instance reads again, one thing after the other.
Refreshes(i, jwt, set, ref) ==
    /\ mem' = [mem EXCEPT ![i] = [mem[i] EXCEPT !.jwt = jwt, !.settings = set, !.refresh = ref]]
    /\ ref.pc \in RefreshPcs
    /\ jwt = mem[i].jwt \/ (mem[i].refresh.pc = "use_jwt" /\ jwt = mem[i].refresh.got)
    /\ ref.pc = "use_jwt" => ref.got = kv.jwt
LEMMA RefreshMemory ==
  ASSUME Shaped, NEW i \in Insts, run_settings_refresh(i)
  PROVE  /\ (\E W : MemIn(W)') /\ \A j \in Insts : j # i => mem'[j] = mem[j]
         /\ mem'[i].refresh.pc \in RefreshPcs
         /\ \/ mem'[i].jwt = mem[i].jwt
            \/ mem[i].refresh.pc = "use_jwt" /\ mem'[i].jwt = mem[i].refresh.got
         /\ mem'[i].refresh.pc = "use_jwt" => mem'[i].refresh.got = kv.jwt
<1>0. PICK W : MemIn(W)
  BY DEF Shaped
<1>1. mem[i] \in Memory(W) /\ mem[i].refresh.pc \in RefreshPcs
  BY <1>0 DEF MemIn, Shaped
<1>2. PICK old, kept : old = mem[i].jwt /\ kept = mem[i].settings
  OBVIOUS
<1>3. PICK jwt, set, ref : Refreshes(i, jwt, set, ref)
  <2>1. CASE mem[i].refresh.pc = "settings"
    <3> DEFINE ref == [pc |-> "use_settings", got |-> kv.settings]
    <3>1. mem' = [mem EXCEPT ![i] = [mem[i] EXCEPT !.refresh = ref]]
      BY <2>1 DEF run_settings_refresh
    <3>2. ref.pc = "use_settings"
      OBVIOUS
    <3> HIDE DEF ref
    <3>3. [mem[i] EXCEPT !.refresh = ref] = [mem[i] EXCEPT !.jwt = old, !.settings = kept, !.refresh = ref]
      BY <1>1, <1>2 DEF Memory
    <3>4. Refreshes(i, old, kept, ref)
      BY <1>2, <3>1, <3>2, <3>3 DEF Refreshes, RefreshPcs
    <3> QED BY <3>4
  <2>2. CASE mem[i].refresh.pc = "use_settings"
    <3> DEFINE ref == [pc |-> "jwt", got |-> None]
               set == mem[i].refresh.got
    <3>1. mem' = [mem EXCEPT ![i] = [mem[i] EXCEPT !.settings = set, !.refresh = ref]]
      BY <2>2 DEF run_settings_refresh
    <3>2. ref.pc = "jwt"
      OBVIOUS
    <3> HIDE DEF ref, set
    <3>3. [mem[i] EXCEPT !.settings = set, !.refresh = ref] = [mem[i] EXCEPT !.jwt = old, !.settings = set, !.refresh = ref]
      BY <1>1, <1>2 DEF Memory
    <3>4. Refreshes(i, old, set, ref)
      BY <1>2, <3>1, <3>2, <3>3 DEF Refreshes, RefreshPcs
    <3> QED BY <3>4
  <2>3. CASE mem[i].refresh.pc = "jwt"
    <3> DEFINE ref == [pc |-> "use_jwt", got |-> kv.jwt]
    <3>1. mem' = [mem EXCEPT ![i] = [mem[i] EXCEPT !.refresh = ref]]
      BY <2>3 DEF run_settings_refresh
    <3>2. ref.pc = "use_jwt" /\ ref.got = kv.jwt
      OBVIOUS
    <3> HIDE DEF ref
    <3>3. [mem[i] EXCEPT !.refresh = ref] = [mem[i] EXCEPT !.jwt = old, !.settings = kept, !.refresh = ref]
      BY <1>1, <1>2 DEF Memory
    <3>4. Refreshes(i, old, kept, ref)
      BY <1>2, <3>1, <3>2, <3>3 DEF Refreshes, RefreshPcs
    <3> QED BY <3>4
  <2>4. CASE mem[i].refresh.pc = "use_jwt"
    <3> DEFINE ref == [pc |-> "settings", got |-> None]
               jwt == mem[i].refresh.got
    <3>1. mem' = [mem EXCEPT ![i] = [mem[i] EXCEPT !.jwt = jwt, !.refresh = ref]]
      BY <2>4 DEF run_settings_refresh
    <3>2. ref.pc = "settings" /\ jwt = mem[i].refresh.got
      OBVIOUS
    <3> HIDE DEF ref, jwt
    <3>3. [mem[i] EXCEPT !.jwt = jwt, !.refresh = ref] = [mem[i] EXCEPT !.jwt = jwt, !.settings = kept, !.refresh = ref]
      BY <1>1, <1>2 DEF Memory
    <3>4. Refreshes(i, jwt, kept, ref)
      BY <1>2, <2>4, <3>1, <3>2, <3>3 DEF Refreshes, RefreshPcs
    <3> QED BY <3>4
  <2> QED BY <1>1, <2>1, <2>2, <2>3, <2>4 DEF RefreshPcs
<1> DEFINE v == [mem[i] EXCEPT !.jwt = jwt, !.settings = set, !.refresh = ref]
<1>4. v \in Memory(W \cup {jwt, set, ref}) /\ v.jwt = jwt /\ v.refresh = ref
  <2>1. mem[i] \in Memory(W \cup {jwt, set, ref})
    BY <1>1 DEF Memory
  <2> QED BY <2>1 DEF Memory
<1>5. mem' = [mem EXCEPT ![i] = v]
  BY <1>3 DEF Refreshes
<1> HIDE DEF v
<1>6. mem \in [Insts -> Memory(W \cup {jwt, set, ref})]
  <2>1. \A j \in Insts : mem[j] \in Memory(W \cup {jwt, set, ref})
    BY <1>0 DEF MemIn, Memory
  <2> QED BY <2>1, <1>0 DEF MemIn
<1>7. mem' \in [Insts -> Memory(W \cup {jwt, set, ref})] /\ mem'[i] = v /\ \A j \in Insts : j # i => mem'[j] = mem[j]
  BY <1>4, <1>5, <1>6
<1> QED BY <1>3, <1>4, <1>7 DEF MemIn, Refreshes

LEMMA Keeps_run_settings_refresh ==
  ASSUME ControlInv, NEW i \in Insts, run_settings_refresh(i)
  PROVE  ControlInv'
<1>1. kv' = kv /\ reqs' = reqs /\ risk' = risk
  BY DEF run_settings_refresh
<1>2. /\ (\E W : MemIn(W)') /\ \A j \in Insts : j # i => mem'[j] = mem[j]
      /\ mem'[i].refresh.pc \in RefreshPcs
      /\ \/ mem'[i].jwt = mem[i].jwt
         \/ mem[i].refresh.pc = "use_jwt" /\ mem'[i].jwt = mem[i].refresh.got
      /\ mem'[i].refresh.pc = "use_jwt" => mem'[i].refresh.got = kv.jwt
  BY RefreshMemory DEF ControlInv
<1>3. Unwritten
  BY <1>1, KvSame DEF ControlInv
<1>4. Shaped'
  <2>1. \A j \in Insts : mem'[j].refresh.pc \in RefreshPcs
    BY <1>2 DEF ControlInv, Shaped
  <2>2. \E W : ReqsIn(W)'
    BY <1>1 DEF ControlInv, Shaped, ReqsIn
  <2> QED BY <1>1, <1>2, <1>3, <2>1, <2>2 DEF ControlInv, Shaped, Unwritten
<1>5. Quiet => SecretsKnown'
  <2> SUFFICES ASSUME Quiet, NEW j \in Insts
               PROVE  /\ mem'[j].jwt \in {First, kv.jwt}
                      /\ mem'[j].refresh.pc = "use_jwt" => mem'[j].refresh.got \in {First, kv.jwt}
    BY <1>1 DEF SecretsKnown, First
  <2>1. SecretsKnown
    BY DEF ControlInv, SecretsInv, OneRotation
  <2> QED BY <1>2, <2>1 DEF SecretsKnown
<1> QED BY <1>1, <1>3, <1>4, <1>5, ElsewhereKeeps

-----------------------------------------------------------------------------
(* Every step.                                                             *)

LEMMA Calm_RepoStep ==
  ASSUME Shaped, RequestsFit, NEW r \in DOMAIN reqs, RepoStep(r)
  PROVE  Calm(r)
BY Calm_create_repo, Calm_create_repo_free, Calm_create_repo_put, Calm_update_repo, Calm_update_repo_put,
     Calm_delete_repo, Calm_delete_repo_mark, Calm_clone_repo, Calm_clone_reserve, Calm_copy_partition,
     Calm_clone_next, Calm_create_store, Calm_create_store_put, Calm_update_store, Calm_update_store_put,
     Calm_delete_store, Calm_delete_store_remove, Calm_check_store, Calm_get_backup, Calm_post_restore,
     Calm_restore_put, Calm_restore_settings, Calm_restore_end DEF RepoStep

LEMMA Calm_ArtifactStep ==
  ASSUME Shaped, RequestsFit, NEW r \in DOMAIN reqs, ArtifactStep(r)
  PROVE  Calm(r)
BY Calm_put_artifact, Calm_commit_ingestion, Calm_put_record, Calm_upsert_tree_file, Calm_delete_artifact,
     Calm_delete_record, Calm_delete_tree_file, Calm_start_bulk_delete, Calm_delete_tree_recursive,
     Calm_delete_prefix_artifacts, Calm_bulk_delete, Calm_clean_repo, Calm_expire_repo_artifacts,
     Calm_delete_artifacts_paired_batch, Calm_collect_archive_files, Calm_fetch_for_archive,
     Calm_download_archive, Calm_get_artifact, Calm_head_artifact, Calm_paginated_merge,
     Calm_paginate_results DEF ArtifactStep

LEMMA Calm_CheckStep ==
  ASSUME Shaped, RequestsFit, NEW r \in DOMAIN reqs, CheckStep(r)
  PROVE  Calm(r)
BY Calm_start_check, Calm_try_acquire_lease, Calm_check_begin, Calm_list_stores, Calm_scan_all_blobs,
     Calm_scan_ends, Calm_scan_records, Calm_verify_blob, Calm_delete_blob_counted, Calm_fold_all_artifacts,
     Calm_docker_tags, Calm_fix_delete, Calm_fix_look, Calm_fix_put, Calm_check_helm_canonicalization,
     Calm_run_check_ends DEF CheckStep

LEMMA Calm_CheckFaults ==
  ASSUME Shaped, RequestsFit, NEW r \in DOMAIN reqs, CheckFaults(r)
  PROVE  Calm(r)
BY Calm_fix_fails, Calm_check_cancelled DEF CheckFaults

LEMMA IdentityKeeps ==
  ASSUME ControlInv, NEW r \in DOMAIN reqs, IdentityStep(r)
  PROVE  ControlInv'
<1>1. Shaped /\ RequestsFit
  BY DEF ControlInv
<1>2. CASE \/ resolve_user_cached(r) \/ resolve_user_and_roles_cached(r) \/ put_cached_user(r) \/ denied(r)
           \/ resolve_identity(r) \/ create_role(r) \/ update_role(r) \/ put_role(r) \/ delete_role(r) \/ invalidate_role(r)
  BY <1>1, <1>2, CalmKeeps, Calm_resolve_user_cached, Calm_put_cached_user, Calm_denied,
     Calm_resolve_identity, Calm_create_role, Calm_put_role, Calm_delete_role, Calm_invalidate_role
<1>3. CASE \/ login(r) \/ create_user(r) \/ update_user(r) \/ put_user(r) \/ forget(r) \/ delete_user(r)
           \/ revoke_all_tokens(r) \/ run_jwt_rotation(r) \/ put_jwt(r) \/ use_jwt(r)
           \/ put_settings(r) \/ save_settings(r) \/ use_settings(r)
  BY <1>3, Keeps_login, Keeps_create_user, Keeps_update_user, Keeps_put_user, Keeps_forget,
     Keeps_delete_user, Keeps_revoke_all_tokens, Keeps_run_jwt_rotation, Keeps_put_jwt, Keeps_use_jwt,
     Keeps_put_settings, Keeps_save_settings, Keeps_use_settings
<1> QED BY <1>2, <1>3 DEF IdentityStep

LEMMA WorksKeep ==
  ASSUME ControlInv, Works
  PROVE  ControlInv'
<1>1. Shaped /\ RequestsFit
  BY DEF ControlInv
<1>2. ASSUME NEW r \in DOMAIN reqs, Step(r)
      PROVE  ControlInv'
  <2>1. CASE IdentityStep(r)
    BY <2>1, IdentityKeeps
  <2>2. CASE RepoStep(r) \/ ArtifactStep(r) \/ CheckStep(r) \/ Announce(r)
    BY <1>1, <2>2, Calm_RepoStep, Calm_ArtifactStep, Calm_CheckStep, Calm_Announce, CalmKeeps
  <2> QED BY <1>2, <2>1, <2>2 DEF Step
<1>3. ASSUME NEW i \in Insts, expire(i)
      PROVE  ControlInv'
  BY <1>1, <1>3, Else_expire, AsideKeeps DEF Elsewhere
<1>4. ASSUME \/ \E i \in Insts : Materializes(i) \/ Scans(i) \/ reconcile(i)
             \/ Browses \/ LiveFaults
      PROVE  ControlInv'
  BY <1>1, <1>4, Else_Live, AsideKeeps DEF Elsewhere
<1>5. ASSUME NEW d \in Drainers, Drains(d)
      PROVE  ControlInv'
  BY <1>1, <1>5, Else_Drains, AsideKeeps DEF Elsewhere
<1> QED BY <1>2, <1>3, <1>4, <1>5 DEF Works

LEMMA NextKeeps ==
  ASSUME ControlInv, [Next]_vars
  PROVE  ControlInv'
<1>1. Shaped /\ RequestsFit
  BY DEF ControlInv
<1>2. CASE Works
  BY <1>2, WorksKeep
<1>3. CASE \E i \in Insts : run_settings_refresh(i)
  BY <1>3, Keeps_run_settings_refresh
<1>4. CASE \E r \in DOMAIN reqs : Stops(r) \/ CheckFaults(r)
  BY <1>1, <1>4, Calm_Stops, Calm_CheckFaults, CalmKeeps
<1>5. CASE LiveFaults
  BY <1>1, <1>5, Else_Live, AsideKeeps DEF Elsewhere
<1>6. CASE \E d \in Drainers : drain_stops(d)
  BY <1>1, <1>6, Else_Drains, AsideKeeps DEF Elsewhere
<1>7. CASE collect
  BY <1>1, <1>7, Else_collect, AsideKeeps DEF Elsewhere
<1>8. CASE UNCHANGED vars
  <2>1. kv' = kv /\ mem' = mem /\ reqs' = reqs /\ risk' = risk
    BY <1>8 DEF vars
  <2> QED BY <1>1, <2>1, Untouched, AsideKeeps
<1> QED BY <1>2, <1>3, <1>4, <1>5, <1>6, <1>7, <1>8 DEF Next

-----------------------------------------------------------------------------
(* The beginning.                                                          *)

StoreIs(a, b, c, d, e, f, g, h, k, l, m, n) ==
    kv = [repos |-> a, stores |-> b, users |-> c, role |-> d, arts |-> e, tree |-> f, blobs |-> g, recs |-> h,
          stale |-> k, jwt |-> l, settings |-> m, tasks |-> n]

LEMMA StoreOf ==
  ASSUME NEW a, NEW b, NEW c, NEW d, NEW e, NEW f, NEW g, NEW h, NEW k, NEW l, NEW m, NEW n,
         StoreIs(a, b, c, d, e, f, g, h, k, l, m, n)
  PROVE  (\E W : KvIn(W)) /\ kv.users = c /\ kv.jwt = l /\ kv.settings = m
<1>1. kv \in Store({a, b, c, d, e, f, g, h, k, l, m, n})
  BY DEF Store, StoreIs
<1> QED BY <1>1 DEF KvIn, StoreIs

LEMMA InitShaped ==
  ASSUME Init
  PROVE  /\ Shaped
         /\ \A r \in DOMAIN reqs : r \in Reqs /\ reqs[r] = Start(r)
         /\ \A u \in Users : kv.users[u] = User(u)
         /\ kv.jwt = First /\ \A i \in Insts : mem[i].jwt = First /\ mem[i].refresh.pc = "settings"
         /\ kv.settings \in [Fields -> {"init"}]
<1>1. PICK w \in Workloads :
      /\ kv = [repos |-> [n \in Repos |-> IF n \in w.repos THEN Initial(n) ELSE None],
               stores |-> [s \in Stores |-> IF s = Primary THEN "init" ELSE None],
               users |-> [u \in Users |-> User(u)], role |-> "grants",
               arts |-> {[repo |-> x[1], path |-> x[2], by |-> "init", in |-> "init",
                         id |-> BlobId(x[1], x[2], "init")] : x \in w.arts},
               tree |-> {[repo |-> x[1], path |-> x[2], in |-> "init"] : x \in w.arts},
               blobs |-> Blobs(w.arts \ w.lost), recs |-> Blobs(w.arts), stale |-> {},
               jwt |-> [cur |-> "init", prev |-> None], settings |-> [f \in Fields |-> "init"],
               tasks |-> [r \in w.reqs |-> None]]
      /\ mem = [i \in Insts |->
                 [users |-> [u \in w.warm |-> User(u)], roles |-> Empty, verified |-> Empty,
                  jwt |-> [cur |-> "init", prev |-> None], settings |-> [f \in Fields |-> "init"],
                  refresh |-> [pc |-> "settings", got |-> None], stores |-> {Primary}]]
      /\ reqs = [r \in w.reqs |-> Start(r)]
  BY DEF Init
<1>2. w.reqs \subseteq Reqs
  BY ControlAssumption
<1>3. \E W : ReqsIn(W)
  <2> DEFINE W == {Ask[r] : r \in w.reqs} \cup {"start", None, <<>>}
  <2>1. \A r \in w.reqs : Start(r) \in Request(W)
    BY DEF Start, Request
  <2> HIDE DEF W
  <2> QED BY <1>1, <2>1 DEF ReqsIn
<1>4. (\E W : MemIn(W)) /\ \A i \in Insts : mem[i].jwt = First /\ mem[i].refresh.pc = "settings"
  <2>1. PICK a, b, c : a = [u \in w.warm |-> User(u)] /\ b = Empty /\ c = [f \in Fields |-> "init"]
    OBVIOUS
  <2>2. PICK f, g : f = First /\ g = [pc |-> "settings", got |-> None]
    OBVIOUS
  <2>3. mem = [i \in Insts |-> [users |-> a, roles |-> b, verified |-> b, jwt |-> f, settings |-> c, refresh |-> g,
                                 stores |-> {Primary}]]
    BY <1>1, <2>1, <2>2, Zenon DEF First
  <2>4. mem \in [Insts -> Memory({a, b, c, f, g, {Primary}})]
    BY <2>3 DEF Memory
  <2>5. \A i \in Insts : mem[i].jwt = f /\ mem[i].refresh = g
    BY <2>3
  <2> QED BY <2>2, <2>4, <2>5 DEF MemIn
<1>5. /\ \E W : KvIn(W)
      /\ kv.users = [u \in Users |-> User(u)] /\ kv.jwt = First /\ kv.settings = [x \in Fields |-> "init"]
  <2>1. PICK a, b, c, d :
          /\ a = [n \in Repos |-> IF n \in w.repos THEN Initial(n) ELSE None]
          /\ b = [s \in Stores |-> IF s = Primary THEN "init" ELSE None]
          /\ c = [u \in Users |-> User(u)] /\ d = [f \in Fields |-> "init"]
    OBVIOUS
  <2>2. PICK e, f :
          /\ e = {[repo |-> x[1], path |-> x[2], by |-> "init", in |-> "init",
                         id |-> BlobId(x[1], x[2], "init")] : x \in w.arts}
          /\ f = {[repo |-> x[1], path |-> x[2], in |-> "init"] : x \in w.arts}
    OBVIOUS
  <2>3. PICK g, h, j, k : g = Blobs(w.arts \ w.lost) /\ h = Blobs(w.arts) /\ j = First /\ k = [r \in w.reqs |-> None]
    OBVIOUS
  <2>4. StoreIs(a, b, c, "grants", e, f, g, h, {}, j, d, k)
    BY <1>1, <2>1, <2>2, <2>3, Zenon DEF StoreIs, First
  <2>5. (\E W : KvIn(W)) /\ kv.users = c /\ kv.jwt = j /\ kv.settings = d
    BY <2>4, StoreOf, Zenon
  <2> QED BY <2>1, <2>3, <2>5, Zenon
<1>6. \E W : kv.users \in [Users -> W]
  <2>1. kv.users \in [Users -> {User(u) : u \in Users}]
    BY <1>5
  <2> QED BY <2>1
<1> QED BY <1>1, <1>2, <1>3, <1>4, <1>5, <1>6 DEF Shaped, RefreshPcs

LEMMA FirstState ==
  ASSUME Init
  PROVE  ControlInv
<1>1. /\ Shaped
      /\ \A r \in DOMAIN reqs : r \in Reqs /\ reqs[r] = Start(r)
      /\ \A u \in Users : kv.users[u] = User(u)
      /\ kv.jwt = First /\ \A i \in Insts : mem[i].jwt = First /\ mem[i].refresh.pc = "settings"
      /\ kv.settings \in [Fields -> {"init"}]
  BY InitShaped
<1>2. ASSUME NEW r \in DOMAIN reqs
      PROVE  /\ r \in Reqs /\ reqs[r].ask = Ask[r] /\ reqs[r].pc = "start"
             /\ \A pc : At(r, pc) => pc = "start"
             /\ ~Done(r)
  BY <1>1, <1>2 DEF Start, At, Done
<1>3. RequestsFit
  BY <1>2, CommonFits DEF RequestsFit, CommonPcs
<1>4. AdminsFit
  <2>1. PICK u \in Users \cap DOMAIN Roles : "admin" \in Roles[u] /\ User(u) # None
    BY ControlAssumption
  <2>2. User(u) = [roles |-> Roles[u], pw |-> "init", secret |-> "init", by |-> "init"]
    BY <2>1 DEF User
  <2>3. u \in Admins
    BY <1>1, <2>1, <2>2 DEF Admins, is_admin
  <2> QED BY <1>2, <2>3 DEF AdminsFit, OtherAdmin, LastAdmin
<1>5. UsersInv
  <2>1. UsersTyped
    <3>1. ASSUME NEW u \in Users
          PROVE  kv.users[u] = None \/ \E W : kv.users[u] \in UserRecord(W)
      <4>1. CASE u \in DOMAIN Roles
        <5>1. PICK x : x = Roles[u]
          OBVIOUS
        <5>2. kv.users[u] = [roles |-> x, pw |-> "init", secret |-> "init", by |-> "init"]
          BY <1>1, <4>1, <5>1 DEF User
        <5>3. kv.users[u] \in UserRecord({x, "init"})
          BY <5>2 DEF UserRecord
        <5> QED BY <5>3
      <4>2. CASE u \notin DOMAIN Roles
        BY <1>1, <4>2 DEF User
      <4> QED BY <4>1, <4>2
    <3> QED BY <3>1 DEF UsersTyped
  <2> QED BY <1>2, <2>1 DEF UsersInv, FoundUser, SecretsKept, Revoked
<1>6. SecretsInv
  <2>1. \A i \in Insts : mem[i].jwt \in {First, kv.jwt} /\ mem[i].refresh.pc # "use_jwt"
    BY <1>1
  <2>2. SecretsKnown
    BY <2>1 DEF SecretsKnown
  <2>3. NextSecrets /\ FirstEnded
    BY <1>2 DEF NextSecrets, FirstEnded, RevokedAll
  <2>4. \A r \in DOMAIN reqs : RotatorFits(r)
    BY <1>2 DEF RotatorFits
  <2> QED BY <1>1, <2>2, <2>3, <2>4 DEF SecretsInv, OneRotation
<1>7. SettingsInv
  BY <1>1, <1>2 DEF SettingsInv, NextSettings, SettingsTyped, PutKept, HasPut
<1> QED BY <1>1, <1>3, <1>4, <1>5, <1>6, <1>7 DEF ControlInv

-----------------------------------------------------------------------------
(* What was decided stands.                                                *)

LEMMA Stands ==
  ASSUME ControlInv
  PROVE  DecisionsKept
<1>1. LastAdmin
  BY DEF ControlInv, AdminsFit
<1>2. RevokeStands
  <2>1. ASSUME NEW r \in DOMAIN reqs, Kind(r) = "revoke_all", Done(r)
        PROVE  Except({"unrefreshed"}) \/ "init" \notin {kv.jwt.cur, kv.jwt.prev}
    BY <2>1 DEF ControlInv, SecretsInv, FirstEnded, RevokedAll
  <2>2. ASSUME NEW r \in DOMAIN reqs, Kind(r) \in {"revoke", "change_password"}, Done(r), kv.users[On(r)] # None
        PROVE  Except({"user_race", "restored"}) \/ kv.users[On(r)].secret # "init"
    BY <2>2 DEF ControlInv, UsersInv, SecretsKept, Revoked
  <2> QED BY <2>1, <2>2 DEF RevokeStands
<1>3. RotationKeeps
  <2> SUFFICES ASSUME Begun("revoke_all") = {}, ~(Cardinality(Begun("rotate")) > 1),
                      NEW r \in DOMAIN reqs, Kind(r) = "login", Done(r)
               PROVE  reqs[r].got.glob \in {kv.jwt.cur, kv.jwt.prev}
    BY DEF RotationKeeps, Begun
  <2>1. IsFiniteSet(Begun("rotate"))
    <3>1. Begun("rotate") \subseteq Reqs
      BY DEF Begun, ControlInv, RequestsFit
    <3> QED BY <3>1, ControlAssumption, FS_Subset
  <2>2. \A p, q \in Begun("rotate") : p = q
    <3> SUFFICES ASSUME NEW p \in Begun("rotate"), NEW q \in Begun("rotate"), p # q
                 PROVE  FALSE
      OBVIOUS
    <3>1. {p, q} \subseteq Begun("rotate")
      OBVIOUS
    <3>2. Cardinality({p, q}) = 2
      <4>1. IsFiniteSet({p}) /\ Cardinality({p}) = 1
        BY FS_Singleton
      <4>2. Cardinality({p} \cup {q}) = Cardinality({p}) + 1
        BY <4>1, FS_AddElement
      <4>3. {p} \cup {q} = {p, q}
        OBVIOUS
      <4> QED BY <4>1, <4>2, <4>3
    <3>3. Cardinality({p, q}) <= Cardinality(Begun("rotate"))
      BY <2>1, <3>1, FS_Subset
    <3>4. Cardinality(Begun("rotate")) \in Nat
      BY <2>1, FS_CardinalityType
    <3> QED BY <3>2, <3>3, <3>4
  <2>3. Quiet
    BY <2>2 DEF Quiet
  <2>4. kv.jwt = First \/ Rotated(kv.jwt)
    BY <2>3 DEF ControlInv, SecretsInv, OneRotation
  <2>5. reqs[r].got.glob \in {"init", kv.jwt.cur}
    BY <2>3 DEF ControlInv, SecretsInv, OneRotation, RotatorFits
  <2>6. "init" \in {kv.jwt.cur, kv.jwt.prev}
    <3>1. CASE kv.jwt = First
      BY <3>1 DEF First
    <3>2. CASE Rotated(kv.jwt)
      <4>1. PICK q : kv.jwt = [cur |-> q, prev |-> "init"]
        BY <3>2 DEF Rotated
      <4> QED BY <4>1
    <3> QED BY <2>4, <3>1, <3>2
  <2> QED BY <2>5, <2>6
<1>4. SettingsKept
  BY DEF SettingsKept, ControlInv, SettingsInv, PutKept, HasPut
<1> QED BY <1>1, <1>2, <1>3, <1>4 DEF DecisionsKept

\* The inductive invariant: requests are where their kind takes them, and what they
\* are about to write, or the instances to take over, fits what is recorded.
THEOREM ControlInvariant == Spec => []ControlInv
<1>1. Init => ControlInv
  BY FirstState
<1>2. ControlInv /\ [Next]_vars => ControlInv'
  BY NextKeeps
<1> QED BY <1>1, <1>2, PTL DEF Spec

\* What was decided about users, tokens and settings stands (delete_user counts the
\* admins, revoke_all_tokens and put_user replace secrets, run_jwt_rotation keeps the
\* previous one, put_settings merges), except where a race or a restore is noted.
THEOREM DecisionsHold == Spec => []DecisionsKept
<1>1. ControlInv => DecisionsKept
  BY Stands
<1> QED BY <1>1, ControlInvariant, PTL

-----------------------------------------------------------------------------
(* The life of a repository: what is recorded, and what a request has at    *)
(* hand when it writes.                                                     *)

Makers == Reqs \cup {"init"}
RepoRecord == [store : Stores, deleting : BOOLEAN, made : Makers, by : Makers]
AllPaths == Paths \cup OddPaths
IsFile(x) ==
    /\ x = [repo |-> x.repo, path |-> x.path, by |-> x.by, in |-> x.in, id |-> x.id]
    /\ x.path \in AllPaths
IsEntry(x) == x = [repo |-> x.repo, path |-> x.path, in |-> x.in] /\ x.path \in AllPaths
FilesTyped ==
    /\ IsFiniteSet(kv.arts)
    /\ \A x \in kv.arts : IsFile(x)
    /\ \A x \in kv.tree : IsEntry(x)

\* Something was written over what its writer had not seen; or a file too late, or
\* a name taken that a worker had still to drain.
Wild == Except({"overwritten", "restored"})
Exc == Except({"overwritten", "late", "restored", "undrained"})
NamesTyped ==
    /\ kv.repos \in [Repos -> RepoRecord \cup {None}]
    /\ \E W : kv.stores \in [Stores -> W]

\* Some steps are taken by requests of one kind.
Owner ==
    [tried |-> "create_store", users |-> "delete_store", blobs |-> "delete_store", remove |-> "delete_store",
     reserve |-> "clone_repo", stream |-> "put", record |-> "put"]
StepFits(r) == reqs[r].pc \in DOMAIN Owner => Kind(r) = Owner[reqs[r].pc]

\* A record that is about to be written back, marked or copied was shown.
Live(g) == g \in RepoRecord /\ ~g.deleting
Rewrites(r) == At(r, "reserve") \/ (At(r, "put") /\ Kind(r) = "update_repo")
HasRecord(r) == (At(r, "mark") \/ Rewrites(r)) => Live(reqs[r].got)

\* What a check is about to do is about files of the repository it is at.
CheckFields == {"repo", "dels", "moves"}
PlanPcs == {"chk_stores", "chk_scan", "chk_records", "chk_repo", "chk_tags", "chk_fix", "chk_place"}
FixPcs == {"chk_fix", "chk_place"}
OpFits(o, n) ==
    /\ o = [op |-> o.op, path |-> o.path, rec |-> o.rec, why |-> o.why]
    /\ o.op \in {"look", "put", "put_entry"} => IsFile(o.rec) /\ o.rec.repo = n /\ o.path \in AllPaths
TodoFits(todo, n) == \E S : todo \in Seq(S) /\ \A o \in S : OpFits(o, n)
PlanFits(r) ==
    /\ reqs[r].pc \in PlanPcs => CheckFields \subseteq DOMAIN Ck(r)
    /\ At(r, "chk_tags") =>
         /\ IsFiniteSet(Ck(r).dels) /\ IsFiniteSet(Ck(r).moves)
         /\ \A x \in Ck(r).moves : IsFile(x) /\ x.repo = Ck(r).repo /\ x.path \in DOMAIN Normal
    /\ reqs[r].pc \in FixPcs => TodoFits(reqs[r].todo, Ck(r).repo)

Ready(r) == StepFits(r) /\ (Wild \/ HasRecord(r)) /\ PlanFits(r)

\* What is drained or listed to be is being deleted, or is gone; and what was drained
\* is gone.
DrainRecord == [repo : Repos \cup {None}, pc : {"idle", "arts", "tree", "config"}, todo : SUBSET Repos]
Pending(d) == drain[d].todo \cup {drain[d].repo}
Finished(d) ==
    /\ drain[d].pc # "idle" => drain[d].repo \in Repos
    /\ drain[d].pc \in {"tree", "config"} => \A x \in kv.arts : x.repo # drain[d].repo
    /\ drain[d].pc = "config" => \A x \in kv.tree : x.repo # drain[d].repo
Draining(n) == kv.repos[n] = None \/ kv.repos[n].deleting
DrainSafe(d) == Finished(d) /\ \A n \in Pending(d) \cap Repos : Draining(n)
DrainFits ==
    /\ drain \in [Drainers -> DrainRecord]
    /\ Exc \/ \A d \in Drainers : DrainSafe(d)

\* Stores that are used, or about to be, are there; no repository has one that is
\* about to go.
Loose == Except({"store_race", "overwritten", "restored"})
UsesFit(r) ==
    /\ Kind(r) = "create_repo" /\ reqs[r].pc \in {"checked", "put"} => kv.stores[To(r)] # None
    /\ Rewrites(r) => kv.stores[reqs[r].got.store] # None
    /\ reqs[r].pc \in {"blobs", "remove"} => UsedBy(On(r)) = {}
StoreFits == Loose \/ \A r \in DOMAIN reqs : UsesFit(r)

LifeInv ==
    /\ FilesTyped /\ (Wild \/ NamesTyped) /\ (\A r \in DOMAIN reqs : Ready(r))
    /\ NewIsEmpty /\ DrainFits /\ StoreInUse /\ StoreFits

-----------------------------------------------------------------------------
(* What a step leaves as it is, and where it takes a request.               *)

SameKv == kv'.repos = kv.repos /\ kv'.stores = kv.stores /\ kv'.arts = kv.arts /\ kv'.tree = kv.tree
Same == SameKv /\ drain' = drain /\ risk \subseteq risk'

\* Steps before which a request has something at hand that is recorded later.
Watched ==
    PlanPcs \cup {"checked", "put", "mark", "tried", "users", "blobs", "remove", "reserve", "stream", "record"}
Idle(r) == \E p : p \notin Watched /\ Turns(r, p)

LEMMA SetOther ==
  ASSUME Shaped, NEW f \in {"users", "role", "blobs", "recs", "stale", "jwt", "settings", "tasks"}, NEW x, kv' = [kv EXCEPT ![f] = x]
  PROVE  SameKv
BY DEF Shaped, KvIn, Store, SameKv

LEMMA SetBlobs ==
  ASSUME Shaped, NEW x, NEW y, kv' = [kv EXCEPT !.blobs = x, !.recs = y]
  PROVE  SameKv
BY DEF Shaped, KvIn, Store, SameKv

LEMMA SetTask ==
  ASSUME Shaped, NEW n, NEW x, kv' = [kv EXCEPT !.tasks[n] = x]
  PROVE  SameKv
<1> DEFINE y == [kv.tasks EXCEPT ![n] = x]
<1>1. kv' = [kv EXCEPT !["tasks"] = y]
  BY DEF Shaped, KvIn, Store
<1> HIDE DEF y
<1> QED BY <1>1, SetOther

LEMMA SetUser ==
  ASSUME Shaped, NEW n, NEW x, kv' = [kv EXCEPT !.users[n] = x]
  PROVE  SameKv
<1> DEFINE y == [kv.users EXCEPT ![n] = x]
<1>1. kv' = [kv EXCEPT !["users"] = y]
  BY DEF Shaped, KvIn, Store
<1> HIDE DEF y
<1> QED BY <1>1, SetOther

LEMMA KvIsSame ==
  ASSUME kv' = kv
  PROVE  SameKv
BY DEF SameKv

LEMMA GotoIdle ==
  ASSUME Shaped, NEW r \in DOMAIN reqs, NEW p, p \notin Watched, Goto(r, p)
  PROVE  Idle(r)
BY GotoTurns DEF Shaped, Idle

LEMMA KeepIdle ==
  ASSUME Shaped, NEW r \in DOMAIN reqs, NEW p, p \notin Watched, NEW g, Keep(r, p, g)
  PROVE  Idle(r)
BY KeepTurns DEF Shaped, Idle

LEMMA AnsweredIdle ==
  ASSUME Shaped, NEW r \in DOMAIN reqs, NEW what, NEW g, reqs' = [reqs EXCEPT ![r] = Answered(r, what, g)]
  PROVE  Idle(r)
BY AnsweredTurns DEF Shaped, Idle, Watched, PlanPcs

LEMMA ReplyIdle ==
  ASSUME Shaped, NEW r \in DOMAIN reqs, NEW what, Reply(r, what)
  PROVE  Idle(r)
BY AnsweredIdle DEF Reply

LEMMA WrittenIdle ==
  ASSUME Shaped, NEW r \in DOMAIN reqs, NEW op, NEW t, Written(r, op, t)
  PROVE  Idle(r)
BY WrittenTurns DEF Shaped, Idle, Watched, PlanPcs

LEMMA TurnsIdle ==
  ASSUME NEW f, NEW g, f = reqs, g = reqs', NEW r, NEW p, Turn(f, g, r, p), p \notin Watched
  PROVE  Idle(r)
BY DEF Turn, Turns, Idle, ReqsIn

LEMMA FieldIdle ==
  ASSUME Shaped, NEW r \in DOMAIN reqs, reqs[r].pc \notin Watched, NEW k \in OtherFields, NEW x,
         reqs' = [reqs EXCEPT ![r][k] = x]
  PROVE  Idle(r)
<1>1. PICK f, g : f = reqs /\ g = reqs'
  OBVIOUS
<1>2. Turn(f, g, r, f[r].pc)
  BY <1>1, FirstTurn DEF Shaped, ReqsIn
<1> QED BY <1>1, <1>2, TurnsIdle

LEMMA TodoIdle ==
  ASSUME Shaped, NEW r \in DOMAIN reqs, reqs[r].pc \notin Watched, NEW x, reqs' = [reqs EXCEPT ![r].todo = x]
  PROVE  Idle(r)
BY FieldIdle DEF OtherFields

LEMMA FinishIdle ==
  ASSUME Shaped, NEW r \in DOMAIN reqs,
         reqs' = [reqs EXCEPT ![r].pc = "done", ![r].answer = "ok"]
  PROVE  Idle(r)
<1>1. PICK f, g : f = reqs /\ g = reqs'
  OBVIOUS
<1>2. Turn(f, g, r, "done")
  BY <1>1, FinishTurn, Zenon DEF Shaped, ReqsIn
<1>3. "done" \notin Watched
  BY DEF Watched, PlanPcs
<1> QED BY <1>1, <1>2, <1>3, TurnsIdle

LEMMA TakeDocIdle ==
  ASSUME Shaped, NEW r \in DOMAIN reqs, NEW G, NEW T,
         reqs' = [reqs EXCEPT ![r].pc = "restore", ![r].got = G, ![r].todo = T]
  PROVE  Idle(r)
<1>1. PICK f, g : f = reqs /\ g = reqs'
  OBVIOUS
<1>2. Turn(f, g, r, "restore")
  BY <1>1, TakeDocTurn, Zenon DEF Shaped, ReqsIn
<1>3. "restore" \notin Watched
  BY DEF Watched, PlanPcs
<1> QED BY <1>1, <1>2, <1>3, TurnsIdle

LEMMA RestoreOneIdle ==
  ASSUME Shaped, NEW r \in DOMAIN reqs, NEW E,
         reqs' = [reqs EXCEPT ![r].pc = "announce", ![r].todo = Tail(@), ![r].ev = E]
  PROVE  Idle(r)
<1>1. PICK f, g : f = reqs /\ g = reqs'
  OBVIOUS
<1>2. Turn(f, g, r, "announce")
  BY <1>1, RestoreOneTurn, Zenon DEF Shaped, ReqsIn
<1>3. "announce" \notin Watched
  BY DEF Watched, PlanPcs
<1> QED BY <1>1, <1>2, <1>3, TurnsIdle

LEMMA PcTodoIdle ==
  ASSUME Shaped, NEW r \in DOMAIN reqs, NEW p, NEW T, p \notin Watched,
         reqs' = [reqs EXCEPT ![r].pc = p, ![r].todo = T]
  PROVE  Idle(r)
<1>1. PICK f, g : f = reqs /\ g = reqs'
  OBVIOUS
<1>2. Turn(f, g, r, p)
  BY <1>1, PcTodoTurn, Zenon DEF Shaped, ReqsIn
<1> QED BY <1>1, <1>2, TurnsIdle

LEMMA PcTailIdle ==
  ASSUME Shaped, NEW r \in DOMAIN reqs, NEW p, p \notin Watched,
         reqs' = [reqs EXCEPT ![r].pc = p, ![r].todo = Tail(@)]
  PROVE  Idle(r)
<1>1. PICK f, g : f = reqs /\ g = reqs'
  OBVIOUS
<1>2. Turn(f, g, r, p)
  BY <1>1, PcTailTurn, Zenon DEF Shaped, ReqsIn
<1> QED BY <1>1, <1>2, TurnsIdle

LEMMA PcTodoGotIdle ==
  ASSUME Shaped, NEW r \in DOMAIN reqs, NEW p, NEW T, NEW G, p \notin Watched,
         reqs' = [reqs EXCEPT ![r].pc = p, ![r].todo = T, ![r].got = G]
  PROVE  Idle(r)
<1>1. PICK f, g : f = reqs /\ g = reqs'
  OBVIOUS
<1>2. Turn(f, g, r, p)
  BY <1>1, PcTodoGotTurn, Zenon DEF Shaped, ReqsIn
<1> QED BY <1>1, <1>2, TurnsIdle

LEMMA TailFilesIdle ==
  ASSUME Shaped, NEW r \in DOMAIN reqs, NEW X, reqs[r].pc \notin Watched,
         reqs' = [reqs EXCEPT ![r].todo = Tail(@), ![r].got.files = @ \cup X]
  PROVE  Idle(r)
<1>1. PICK f, g : f = reqs /\ g = reqs'
  OBVIOUS
<1>2. Turn(f, g, r, f[r].pc)
  BY <1>1, TailFilesTurn, Zenon DEF Shaped, ReqsIn
<1> QED BY <1>1, <1>2, TurnsIdle

LEMMA TailMergedIdle ==
  ASSUME Shaped, NEW r \in DOMAIN reqs, NEW X, reqs[r].pc \notin Watched,
         reqs' = [reqs EXCEPT ![r].todo = Tail(@), ![r].got.merged = @ \cup X]
  PROVE  Idle(r)
<1>1. PICK f, g : f = reqs /\ g = reqs'
  OBVIOUS
<1>2. Turn(f, g, r, f[r].pc)
  BY <1>1, TailMergedTurn, Zenon DEF Shaped, ReqsIn
<1> QED BY <1>1, <1>2, TurnsIdle

LEMMA TakeFileIdle ==
  ASSUME Shaped, NEW r \in DOMAIN reqs, NEW X, NEW Y, reqs[r].pc \notin Watched,
         reqs' = [reqs EXCEPT ![r].got.files = @ \ {X}, ![r].got.listed = @ \cup Y]
  PROVE  Idle(r)
<1>1. PICK f, g : f = reqs /\ g = reqs'
  OBVIOUS
<1>2. Turn(f, g, r, f[r].pc)
  BY <1>1, TakeFileTurn, Zenon DEF Shaped, ReqsIn
<1> QED BY <1>1, <1>2, TurnsIdle

LEMMA Idle_clone_next ==
  ASSUME Shaped, NEW r \in DOMAIN reqs, clone_next(r)
  PROVE  Idle(r) /\ Same
<1>1. Idle(r)
  BY ReplyIdle, KeepIdle DEF clone_next, Watched, PlanPcs
<1>2. SameKv
  BY KvIsSame, SetTask DEF clone_next
<1>3. drain' = drain /\ risk \subseteq risk'
  BY DEF clone_next, Kept, Aside, Risk
<1> QED BY <1>1, <1>2, <1>3 DEF Same

LEMMA Idle_check_store ==
  ASSUME Shaped, NEW r \in DOMAIN reqs, check_store(r)
  PROVE  Idle(r) /\ Same
<1>1. Idle(r)
  BY ReplyIdle DEF check_store, Watched, PlanPcs
<1>2. SameKv
  BY KvIsSame DEF check_store
<1>3. drain' = drain /\ risk \subseteq risk'
  BY DEF check_store, Kept, Aside, Risk
<1> QED BY <1>1, <1>2, <1>3 DEF Same

LEMMA Idle_get_backup ==
  ASSUME Shaped, NEW r \in DOMAIN reqs, get_backup(r)
  PROVE  Idle(r) /\ Same
<1>1. Idle(r)
  BY KeepIdle, FinishIdle, Zenon DEF get_backup, Watched, PlanPcs
<1>2. SameKv
  BY KvIsSame DEF get_backup
<1>3. drain' = drain /\ risk \subseteq risk'
  BY DEF get_backup, Kept, Aside, Risk
<1> QED BY <1>1, <1>2, <1>3 DEF Same

LEMMA Idle_post_restore ==
  ASSUME Shaped, NEW r \in DOMAIN reqs, post_restore(r)
  PROVE  Idle(r) /\ Same
<1>1. Idle(r)
  BY ReplyIdle, TakeDocIdle, Zenon DEF post_restore, Watched, PlanPcs
<1>2. SameKv
  BY KvIsSame DEF post_restore
<1>3. drain' = drain /\ risk \subseteq risk'
  BY DEF post_restore, Kept, Aside, Risk
<1> QED BY <1>1, <1>2, <1>3 DEF Same

LEMMA Idle_restore_settings ==
  ASSUME Shaped, NEW r \in DOMAIN reqs, restore_settings(r)
  PROVE  Idle(r) /\ Same
<1>1. Idle(r)
  BY GotoIdle DEF restore_settings, Watched, PlanPcs
<1>2. SameKv
  <2>1. \E x : kv' = [kv EXCEPT !["settings"] = x]
    BY DEF restore_settings
  <2> QED BY <2>1, SetOther
<1>3. drain' = drain /\ risk \subseteq risk'
  BY DEF restore_settings, Kept, Aside, Risk
<1> QED BY <1>1, <1>2, <1>3 DEF Same

LEMMA Idle_restore_end ==
  ASSUME Shaped, NEW r \in DOMAIN reqs, restore_end(r)
  PROVE  Idle(r) /\ Same
<1>1. Idle(r)
  BY ReplyIdle DEF restore_end, Watched, PlanPcs
<1>2. SameKv
  BY KvIsSame DEF restore_end
<1>3. drain' = drain /\ risk \subseteq risk'
  BY DEF restore_end, Kept, Aside, Risk
<1> QED BY <1>1, <1>2, <1>3 DEF Same

LEMMA Idle_delete_artifact ==
  ASSUME Shaped, NEW r \in DOMAIN reqs, delete_artifact(r)
  PROVE  Idle(r) /\ Same
<1>1. Idle(r)
  <2>1. \/ \E w : Reply(r, w)
        \/ \E T : reqs' = [reqs EXCEPT ![r].pc = "delete", ![r].todo = T]
    BY Zenon DEF delete_artifact
  <2>4. ASSUME NEW w, Reply(r, w)
        PROVE  Idle(r)
    BY <2>4, ReplyIdle
  <2>5. "delete" \notin Watched
    BY DEF Watched, PlanPcs
  <2>6. ASSUME NEW T, reqs' = [reqs EXCEPT ![r].pc = "delete", ![r].todo = T]
        PROVE  Idle(r)
    BY <2>6, <2>5, PcTodoIdle, Zenon
  <2> QED BY <2>1, <2>4, <2>6, Zenon
<1>2. SameKv
  BY KvIsSame DEF delete_artifact
<1>3. drain' = drain /\ risk \subseteq risk'
  BY DEF delete_artifact, Kept, Aside, Risk
<1> QED BY <1>1, <1>2, <1>3 DEF Same

LEMMA Idle_start_bulk_delete ==
  ASSUME Shaped, NEW r \in DOMAIN reqs, start_bulk_delete(r)
  PROVE  Idle(r) /\ Same
<1>1. Idle(r)
  <2>1. \/ \E w : Reply(r, w)
        \/ \E T : reqs' = [reqs EXCEPT ![r].pc = "bulk_create", ![r].todo = T]
        \/ Goto(r, "bulk_tree")
    BY Zenon DEF start_bulk_delete
  <2>4. ASSUME NEW w, Reply(r, w)
        PROVE  Idle(r)
    BY <2>4, ReplyIdle
  <2>5. "bulk_create" \notin Watched
    BY DEF Watched, PlanPcs
  <2>6. ASSUME NEW T, reqs' = [reqs EXCEPT ![r].pc = "bulk_create", ![r].todo = T]
        PROVE  Idle(r)
    BY <2>6, <2>5, PcTodoIdle, Zenon
  <2>7. "bulk_tree" \notin Watched
    BY DEF Watched, PlanPcs
  <2>8. ASSUME Goto(r, "bulk_tree")
        PROVE  Idle(r)
    BY <2>8, <2>7, GotoIdle
  <2> QED BY <2>1, <2>4, <2>6, <2>8, Zenon
<1>2. SameKv
  BY KvIsSame, SetTask DEF start_bulk_delete
<1>3. drain' = drain /\ risk \subseteq risk'
  BY DEF start_bulk_delete, Kept, Aside, Risk
<1> QED BY <1>1, <1>2, <1>3 DEF Same

LEMMA Idle_bulk_delete ==
  ASSUME Shaped, NEW r \in DOMAIN reqs, bulk_delete(r)
  PROVE  Idle(r) /\ Same
<1>1. Idle(r)
  BY GotoIdle, ReplyIdle DEF bulk_delete, Watched, PlanPcs
<1>2. SameKv
  BY KvIsSame, SetTask DEF bulk_delete
<1>3. drain' = drain /\ risk \subseteq risk'
  BY DEF bulk_delete, Kept, Aside, Risk
<1> QED BY <1>1, <1>2, <1>3 DEF Same

LEMMA Idle_clean_repo ==
  ASSUME Shaped, NEW r \in DOMAIN reqs, clean_repo(r)
  PROVE  Idle(r) /\ Same
<1>1. Idle(r)
  BY GotoIdle, ReplyIdle DEF clean_repo, Watched, PlanPcs
<1>2. SameKv
  BY KvIsSame, SetTask DEF clean_repo
<1>3. drain' = drain /\ risk \subseteq risk'
  BY DEF clean_repo, Kept, Aside, Risk
<1> QED BY <1>1, <1>2, <1>3 DEF Same

LEMMA Idle_expire_repo_artifacts ==
  ASSUME Shaped, NEW r \in DOMAIN reqs, expire_repo_artifacts(r)
  PROVE  Idle(r) /\ Same
<1>1. Idle(r)
  BY KeepIdle DEF expire_repo_artifacts, Watched, PlanPcs
<1>2. SameKv
  BY KvIsSame DEF expire_repo_artifacts
<1>3. drain' = drain /\ risk \subseteq risk'
  BY DEF expire_repo_artifacts, Kept, Aside, Risk
<1> QED BY <1>1, <1>2, <1>3 DEF Same

LEMMA Idle_collect_archive_files ==
  ASSUME Shaped, NEW r \in DOMAIN reqs, collect_archive_files(r)
  PROVE  Idle(r) /\ Same
<1>1. Idle(r)
  <2>0. "collect" \notin Watched
    BY DEF Watched, PlanPcs
  <2>1. \/ reqs' = [reqs EXCEPT ![r].pc = "collect", ![r].todo = Listed(On(r)),
            ![r].got = [files |-> {}, listed |-> {}, all |-> {x \in Present(r) : InTree(x)}]]
        \/ At(r, "collect") /\ reqs' = [reqs EXCEPT ![r].todo = Tail(@), ![r].got.files = @ \cup Browsed(Head(reqs[r].todo))]
    BY DEF collect_archive_files
  <2>2. CASE reqs' = [reqs EXCEPT ![r].pc = "collect", ![r].todo = Listed(On(r)),
            ![r].got = [files |-> {}, listed |-> {}, all |-> {x \in Present(r) : InTree(x)}]]
    BY <2>0, <2>2, PcTodoGotIdle, Zenon DEF At
  <2>3. CASE At(r, "collect") /\ reqs' = [reqs EXCEPT ![r].todo = Tail(@), ![r].got.files = @ \cup Browsed(Head(reqs[r].todo))]
    BY <2>0, <2>3, TailFilesIdle, Zenon DEF At
  <2> QED BY <2>1, <2>2, <2>3
<1>2. SameKv
  BY KvIsSame DEF collect_archive_files
<1>3. drain' = drain /\ risk \subseteq risk'
  BY DEF collect_archive_files, Kept, Aside, Risk
<1> QED BY <1>1, <1>2, <1>3 DEF Same

LEMMA Idle_fetch_for_archive ==
  ASSUME Shaped, NEW r \in DOMAIN reqs, fetch_for_archive(r)
  PROVE  Idle(r) /\ Same
<1>1. Idle(r)
  <2>1. PICK p, Y : reqs' = [reqs EXCEPT ![r].got.files = @ \ {p}, ![r].got.listed = @ \cup Y]
    BY Zenon DEF fetch_for_archive
  <2>2. reqs[r].pc = "collect"
    BY Zenon DEF fetch_for_archive, At
  <2>3. reqs[r].pc \notin Watched
    BY <2>2 DEF Watched, PlanPcs
  <2> QED BY <2>1, <2>3, TakeFileIdle, Zenon
<1>2. SameKv
  BY KvIsSame, Zenon DEF fetch_for_archive
<1>3. drain' = drain /\ risk \subseteq risk'
  BY Zenon DEF fetch_for_archive, Kept, Aside, Risk
<1> QED BY <1>1, <1>2, <1>3 DEF Same

LEMMA Idle_download_archive ==
  ASSUME Shaped, NEW r \in DOMAIN reqs, download_archive(r)
  PROVE  Idle(r) /\ Same
<1>1. Idle(r)
  BY AnsweredIdle DEF download_archive, Watched, PlanPcs
<1>2. SameKv
  BY KvIsSame DEF download_archive
<1>3. drain' = drain /\ risk \subseteq risk'
  BY DEF download_archive, Kept, Aside, Risk
<1> QED BY <1>1, <1>2, <1>3 DEF Same

LEMMA Idle_get_artifact ==
  ASSUME Shaped, NEW r \in DOMAIN reqs, get_artifact(r)
  PROVE  Idle(r) /\ Same
<1>1. Idle(r)
  BY ReplyIdle DEF get_artifact, Watched, PlanPcs
<1>2. SameKv
  BY KvIsSame DEF get_artifact
<1>3. drain' = drain /\ risk \subseteq risk'
  BY DEF get_artifact, Kept, Aside, Risk
<1> QED BY <1>1, <1>2, <1>3 DEF Same

LEMMA Idle_head_artifact ==
  ASSUME Shaped, NEW r \in DOMAIN reqs, head_artifact(r)
  PROVE  Idle(r) /\ Same
<1>1. Idle(r)
  BY ReplyIdle DEF head_artifact, Watched, PlanPcs
<1>2. SameKv
  BY KvIsSame DEF head_artifact
<1>3. drain' = drain /\ risk \subseteq risk'
  BY DEF head_artifact, Kept, Aside, Risk
<1> QED BY <1>1, <1>2, <1>3 DEF Same

LEMMA Idle_paginated_merge ==
  ASSUME Shaped, NEW r \in DOMAIN reqs, paginated_merge(r)
  PROVE  Idle(r) /\ Same
<1>1. Idle(r)
  <2>0. "page" \notin Watched
    BY DEF Watched, PlanPcs
  <2>1. \/ reqs' = [reqs EXCEPT ![r].pc = "page", ![r].todo = Listed(On(r)),
            ![r].got = [cursor |-> 0, merged |-> {}, listed |-> {}, all |-> Present(r)]]
        \/ At(r, "page") /\ reqs' = [reqs EXCEPT ![r].todo = Tail(@),
             ![r].got.merged = @ \cup list_artifacts(Head(reqs[r].todo), reqs[r].got.cursor, PageLimit + 1)]
        \/ At(r, "page") /\ reqs' = [reqs EXCEPT ![r].todo = Tail(@)]
    BY DEF paginated_merge
  <2>2. CASE reqs' = [reqs EXCEPT ![r].pc = "page", ![r].todo = Listed(On(r)),
            ![r].got = [cursor |-> 0, merged |-> {}, listed |-> {}, all |-> Present(r)]]
    BY <2>0, <2>2, PcTodoGotIdle, Zenon DEF At
  <2>3. CASE At(r, "page") /\ reqs' = [reqs EXCEPT ![r].todo = Tail(@),
             ![r].got.merged = @ \cup list_artifacts(Head(reqs[r].todo), reqs[r].got.cursor, PageLimit + 1)]
    BY <2>0, <2>3, TailMergedIdle, Zenon DEF At
  <2>4. CASE At(r, "page") /\ reqs' = [reqs EXCEPT ![r].todo = Tail(@)]
    BY <2>0, <2>4, TodoIdle DEF At
  <2> QED BY <2>1, <2>2, <2>3, <2>4
<1>2. SameKv
  BY KvIsSame DEF paginated_merge
<1>3. drain' = drain /\ risk \subseteq risk'
  BY DEF paginated_merge, Kept, Aside, Risk
<1> QED BY <1>1, <1>2, <1>3 DEF Same

LEMMA Idle_paginate_results ==
  ASSUME Shaped, NEW r \in DOMAIN reqs, paginate_results(r)
  PROVE  Idle(r) /\ Same
<1>1. Idle(r)
  <2>1. \E g, T : \/ reqs' = [reqs EXCEPT ![r] = Answered(r, "ok", g)]
                 \/ reqs' = [reqs EXCEPT ![r] = [@ EXCEPT !.todo = T, !.got = g]]
    BY Zenon DEF paginate_results
  <2>2. reqs[r].pc = "page"
    BY DEF paginate_results, At
  <2>3. ASSUME NEW g, NEW T, reqs' = [reqs EXCEPT ![r] = [@ EXCEPT !.todo = T, !.got = g]]
        PROVE  Idle(r)
    <3> DEFINE v == [reqs[r] EXCEPT !.todo = T, !.got = g]
    <3>1. PICK W : ReqsIn(W)
      BY DEF Shaped
    <3>2. reqs[r] \in Request(W)
      BY <3>1 DEF ReqsIn
    <3>3. v \in Request(W \cup {T, g}) /\ v.ask = reqs[r].ask /\ v.pc = "page"
      BY <2>2, <3>2 DEF Request
    <3>4. reqs' = [reqs EXCEPT ![r] = v]
      BY <2>3
    <3> HIDE DEF v
    <3>5. Turns(r, "page")
      BY <3>1, <3>3, <3>4, SetRequest DEF Turns
    <3> QED BY <3>5 DEF Idle, Watched, PlanPcs
  <2> QED BY <2>1, <2>3, AnsweredIdle, Zenon
<1>2. SameKv
  BY KvIsSame DEF paginate_results
<1>3. drain' = drain /\ risk \subseteq risk'
  BY DEF paginate_results, Kept, Aside, Risk
<1> QED BY <1>1, <1>2, <1>3 DEF Same

LEMMA Idle_start_check ==
  ASSUME Shaped, NEW r \in DOMAIN reqs, start_check(r)
  PROVE  Idle(r) /\ Same
<1>1. Idle(r)
  BY GotoIdle, ReplyIdle DEF start_check, Watched, PlanPcs
<1>2. SameKv
  BY KvIsSame, SetTask DEF start_check
<1>3. drain' = drain /\ risk \subseteq risk'
  BY DEF start_check, Kept, Aside, Risk
<1> QED BY <1>1, <1>2, <1>3 DEF Same

LEMMA Idle_try_acquire_lease ==
  ASSUME Shaped, NEW r \in DOMAIN reqs, try_acquire_lease(r)
  PROVE  Idle(r) /\ Same
<1>1. Idle(r)
  BY GotoIdle, ReplyIdle DEF try_acquire_lease, Watched, PlanPcs
<1>2. SameKv
  BY KvIsSame, SetTask DEF try_acquire_lease
<1>3. drain' = drain /\ risk \subseteq risk'
  BY DEF try_acquire_lease, Kept, Aside, Risk
<1> QED BY <1>1, <1>2, <1>3 DEF Same

LEMMA Idle_run_check_ends ==
  ASSUME Shaped, NEW r \in DOMAIN reqs, run_check_ends(r)
  PROVE  Idle(r) /\ Same
<1>1. Idle(r)
  BY AnsweredIdle DEF run_check_ends, Watched, PlanPcs
<1>2. SameKv
  BY SetTask DEF run_check_ends
<1>3. drain' = drain /\ risk \subseteq risk'
  BY DEF run_check_ends, Kept, Aside, Risk
<1> QED BY <1>1, <1>2, <1>3 DEF Same

LEMMA Idle_check_cancelled ==
  ASSUME Shaped, NEW r \in DOMAIN reqs, check_cancelled(r)
  PROVE  Idle(r) /\ Same
<1>1. Idle(r)
  BY ReplyIdle DEF check_cancelled, Watched, PlanPcs
<1>2. SameKv
  BY SetTask DEF check_cancelled
<1>3. drain' = drain /\ risk \subseteq risk'
  BY DEF check_cancelled, Kept, Aside, Risk
<1> QED BY <1>1, <1>2, <1>3 DEF Same

LEMMA Idle_create_repo_put ==
  ASSUME Shaped, NEW r \in DOMAIN reqs, create_repo_put(r)
  PROVE  Idle(r)
BY WrittenIdle DEF create_repo_put, Watched, PlanPcs

LEMMA Idle_update_repo_put ==
  ASSUME Shaped, NEW r \in DOMAIN reqs, update_repo_put(r)
  PROVE  Idle(r)
BY WrittenIdle DEF update_repo_put, Watched, PlanPcs

LEMMA Idle_delete_repo_mark ==
  ASSUME Shaped, NEW r \in DOMAIN reqs, delete_repo_mark(r)
  PROVE  Idle(r)
BY ReplyIdle, WrittenIdle DEF delete_repo_mark, Watched, PlanPcs

LEMMA Idle_create_store_put ==
  ASSUME Shaped, NEW r \in DOMAIN reqs, create_store_put(r)
  PROVE  Idle(r)
BY WrittenIdle DEF create_store_put, Watched, PlanPcs

LEMMA Idle_update_store_put ==
  ASSUME Shaped, NEW r \in DOMAIN reqs, update_store_put(r)
  PROVE  Idle(r)
BY WrittenIdle DEF update_store_put, Watched, PlanPcs

LEMMA Idle_delete_store_remove ==
  ASSUME Shaped, NEW r \in DOMAIN reqs, delete_store_remove(r)
  PROVE  Idle(r)
BY WrittenIdle DEF delete_store_remove, Watched, PlanPcs

LEMMA Idle_restore_put ==
  ASSUME Shaped, NEW r \in DOMAIN reqs, restore_put(r)
  PROVE  Idle(r)
<1>1. \/ reqs' = [reqs EXCEPT ![r].todo = Tail(@)]
      \/ \E E : reqs' = [reqs EXCEPT ![r].pc = "announce", ![r].todo = Tail(@), ![r].ev = E]
  BY Zenon DEF restore_put
<1>2. reqs[r].pc = "restore"
  BY DEF restore_put, At
<1> QED BY <1>1, <1>2, RestoreOneIdle, TodoIdle, Zenon DEF Watched, PlanPcs

LEMMA Idle_put_record ==
  ASSUME Shaped, NEW r \in DOMAIN reqs, put_record(r)
  PROVE  Idle(r)
BY KeepIdle DEF put_record, Watched, PlanPcs

LEMMA Idle_upsert_tree_file ==
  ASSUME Shaped, NEW r \in DOMAIN reqs, upsert_tree_file(r)
  PROVE  Idle(r)
BY ReplyIdle DEF upsert_tree_file, Watched, PlanPcs

LEMMA Idle_delete_record ==
  ASSUME Shaped, NEW r \in DOMAIN reqs, delete_record(r)
  PROVE  Idle(r)
<1>1. reqs[r].pc = "delete" /\ "delete" \notin Watched
  BY DEF delete_record, At, Watched, PlanPcs
<1>2. \/ \E w : Reply(r, w)
      \/ \E T : reqs' = [reqs EXCEPT ![r].todo = T]
      \/ \E n : Keep(r, "entry", n)
  BY DEF delete_record
<1>3. "entry" \notin Watched
  BY DEF Watched, PlanPcs
<1> QED BY <1>1, <1>2, <1>3, ReplyIdle, KeepIdle, TodoIdle

LEMMA Idle_delete_tree_file ==
  ASSUME Shaped, NEW r \in DOMAIN reqs, delete_tree_file(r)
  PROVE  Idle(r)
BY PcTailIdle, Zenon DEF delete_tree_file, Watched, PlanPcs

LEMMA Idle_delete_tree_recursive ==
  ASSUME Shaped, NEW r \in DOMAIN reqs, delete_tree_recursive(r)
  PROVE  Idle(r)
BY GotoIdle DEF delete_tree_recursive, Watched, PlanPcs

LEMMA Idle_delete_prefix_artifacts ==
  ASSUME Shaped, NEW r \in DOMAIN reqs, delete_prefix_artifacts(r)
  PROVE  Idle(r)
<1>1. reqs' = [reqs EXCEPT ![r].pc = "bulk_next", ![r].todo = Tail(@)]
  BY DEF delete_prefix_artifacts
<1>4. "bulk_next" \notin Watched
  BY DEF Watched, PlanPcs
<1>5. ASSUME reqs' = [reqs EXCEPT ![r].pc = "bulk_next", ![r].todo = Tail(@)]
      PROVE  Idle(r)
  BY <1>5, <1>4, PcTailIdle, Zenon
<1> QED BY <1>1, <1>5

LEMMA Idle_delete_artifacts_paired_batch ==
  ASSUME Shaped, NEW r \in DOMAIN reqs, delete_artifacts_paired_batch(r)
  PROVE  Idle(r)
BY ReplyIdle, KeepIdle DEF delete_artifacts_paired_batch, Watched, PlanPcs

LEMMA Idle_copy_partition ==
  ASSUME Shaped, NEW r \in DOMAIN reqs, copy_partition(r)
  PROVE  Idle(r)
BY KeepIdle DEF copy_partition, Watched, PlanPcs

LEMMA Idle_put_cached_user ==
  ASSUME Shaped, NEW r \in DOMAIN reqs, put_cached_user(r)
  PROVE  Idle(r) /\ Same
<1>1. PICK f, g, u : f = reqs /\ g = reqs' /\ u = reqs[r].got
  OBVIOUS
<1>2. g = [f EXCEPT ![r].pc = "go", ![r].who = u, ![r].got = None]
  BY <1>1 DEF put_cached_user
<1>3. Turn(f, g, r, "go")
  BY <1>1, <1>2, LookedUpTurn, Zenon DEF Shaped, ReqsIn
<1>4. "go" \notin Watched
  BY DEF Watched, PlanPcs
<1> QED BY <1>1, <1>3, <1>4, TurnsIdle, KvIsSame DEF Same, put_cached_user, Aside

LEMMA Idle_put_user ==
  ASSUME Shaped, NEW r \in DOMAIN reqs, put_user(r)
  PROVE  Idle(r) /\ Same
<1>1. Idle(r)
  <2>1. (\E op : Written(r, op, On(r))) \/ Goto(r, "forget")
    BY DEF put_user
  <2> QED BY <2>1, WrittenIdle, GotoIdle DEF Watched, PlanPcs
<1>2. SameKv
  BY SetUser DEF put_user
<1> QED BY <1>1, <1>2 DEF Same, put_user, Aside, Risk

LEMMA Idle_delete_user ==
  ASSUME Shaped, NEW r \in DOMAIN reqs, delete_user(r)
  PROVE  Idle(r) /\ Same
<1>1. Idle(r)
  BY KeepIdle, ReplyIdle, WrittenIdle DEF delete_user, Watched, PlanPcs
<1>2. SameKv
  BY SetUser, KvIsSame DEF delete_user
<1> QED BY <1>1, <1>2 DEF Same, delete_user, Aside, Risk

LEMMA Idle_Announce ==
  ASSUME Shaped, NEW r \in DOMAIN reqs, Announce(r)
  PROVE  Idle(r) /\ Same
<1>1. Idle(r)
  BY GotoIdle, ReplyIdle DEF Announce, Watched, PlanPcs
<1> QED BY <1>1, KvIsSame DEF Same, Announce, Risk

LEMMA Idle_Stops ==
  ASSUME Shaped, NEW r \in DOMAIN reqs, Stops(r)
  PROVE  Idle(r) /\ Same
<1>1. Idle(r)
  BY ReplyIdle DEF Stops
<1> QED BY <1>1, KvIsSame DEF Same, Stops, Risk

LEMMA Idle_resolve_user_cached ==
  ASSUME Shaped, NEW r \in DOMAIN reqs, resolve_user_cached(r)
  PROVE  Idle(r) /\ Same
<1>1. Idle(r)
  BY KeepIdle DEF resolve_user_cached, Watched, PlanPcs
<1>2. SameKv
  BY KvIsSame DEF resolve_user_cached
<1> QED BY <1>1, <1>2 DEF Same, resolve_user_cached, Aside, Risk

LEMMA Idle_resolve_user_and_roles_cached ==
  ASSUME Shaped, NEW r \in DOMAIN reqs, resolve_user_and_roles_cached(r)
  PROVE  Idle(r) /\ Same
<1>1. Idle(r)
  BY KeepIdle DEF resolve_user_and_roles_cached, Watched, PlanPcs
<1>2. SameKv
  BY KvIsSame DEF resolve_user_and_roles_cached
<1> QED BY <1>1, <1>2 DEF Same, resolve_user_and_roles_cached, Aside, Risk

LEMMA Idle_denied ==
  ASSUME Shaped, NEW r \in DOMAIN reqs, denied(r)
  PROVE  Idle(r) /\ Same
<1>1. Idle(r)
  BY ReplyIdle DEF denied, Watched, PlanPcs
<1>2. SameKv
  BY KvIsSame DEF denied
<1> QED BY <1>1, <1>2 DEF Same, denied, Aside, Risk

LEMMA Idle_login ==
  ASSUME Shaped, NEW r \in DOMAIN reqs, login(r)
  PROVE  Idle(r) /\ Same
<1>1. Idle(r)
  BY AnsweredIdle, ReplyIdle DEF login, Watched, PlanPcs
<1>2. SameKv
  BY KvIsSame DEF login
<1> QED BY <1>1, <1>2 DEF Same, login, Aside, Risk

LEMMA Idle_resolve_identity ==
  ASSUME Shaped, NEW r \in DOMAIN reqs, resolve_identity(r)
  PROVE  Idle(r) /\ Same
<1>1. Idle(r)
  BY ReplyIdle DEF resolve_identity, Watched, PlanPcs
<1>2. SameKv
  BY KvIsSame DEF resolve_identity
<1> QED BY <1>1, <1>2 DEF Same, resolve_identity, Aside, Risk

LEMMA Idle_create_user ==
  ASSUME Shaped, NEW r \in DOMAIN reqs, create_user(r)
  PROVE  Idle(r) /\ Same
<1>1. Idle(r)
  BY ReplyIdle, KeepIdle DEF create_user, Watched, PlanPcs
<1>2. SameKv
  BY KvIsSame DEF create_user
<1> QED BY <1>1, <1>2 DEF Same, create_user, Aside, Risk

LEMMA Idle_update_user ==
  ASSUME Shaped, NEW r \in DOMAIN reqs, update_user(r)
  PROVE  Idle(r) /\ Same
<1>1. Idle(r)
  BY ReplyIdle, KeepIdle DEF update_user, Watched, PlanPcs
<1>2. SameKv
  BY KvIsSame DEF update_user
<1> QED BY <1>1, <1>2 DEF Same, update_user, Aside, Risk

LEMMA Idle_forget ==
  ASSUME Shaped, NEW r \in DOMAIN reqs, forget(r)
  PROVE  Idle(r) /\ Same
<1>1. Idle(r)
  BY AnsweredIdle DEF forget, Watched, PlanPcs
<1>2. SameKv
  BY KvIsSame DEF forget
<1> QED BY <1>1, <1>2 DEF Same, forget, Aside, Risk

LEMMA Idle_create_role ==
  ASSUME Shaped, NEW r \in DOMAIN reqs, create_role(r)
  PROVE  Idle(r) /\ Same
<1>1. Idle(r)
  BY ReplyIdle, GotoIdle DEF create_role, Watched, PlanPcs
<1>2. SameKv
  BY KvIsSame DEF create_role
<1> QED BY <1>1, <1>2 DEF Same, create_role, Aside, Risk

LEMMA Idle_update_role ==
  ASSUME Shaped, NEW r \in DOMAIN reqs, update_role(r)
  PROVE  Idle(r) /\ Same
<1>1. Idle(r)
  BY ReplyIdle, GotoIdle DEF update_role, Watched, PlanPcs
<1>2. SameKv
  BY KvIsSame DEF update_role
<1> QED BY <1>1, <1>2 DEF Same, update_role, Aside, Risk

LEMMA Idle_put_role ==
  ASSUME Shaped, NEW r \in DOMAIN reqs, put_role(r)
  PROVE  Idle(r) /\ Same
<1>1. Idle(r)
  BY GotoIdle DEF put_role, Watched, PlanPcs
<1>2. SameKv
  <2>1. kv' = kv \/ \E x : kv' = [kv EXCEPT !["role"] = x]
    BY DEF put_role
  <2> QED BY <2>1, SetOther, KvIsSame
<1> QED BY <1>1, <1>2 DEF Same, put_role, Aside, Risk

LEMMA Idle_delete_role ==
  ASSUME Shaped, NEW r \in DOMAIN reqs, delete_role(r)
  PROVE  Idle(r) /\ Same
<1>1. Idle(r)
  BY ReplyIdle, GotoIdle DEF delete_role, Watched, PlanPcs
<1>2. SameKv
  <2>1. kv' = kv \/ \E x : kv' = [kv EXCEPT !["role"] = x]
    BY DEF delete_role
  <2> QED BY <2>1, SetOther, KvIsSame
<1> QED BY <1>1, <1>2 DEF Same, delete_role, Aside, Risk

LEMMA Idle_invalidate_role ==
  ASSUME Shaped, NEW r \in DOMAIN reqs, invalidate_role(r)
  PROVE  Idle(r) /\ Same
<1>1. Idle(r)
  BY ReplyIdle DEF invalidate_role, Watched, PlanPcs
<1>2. SameKv
  BY KvIsSame DEF invalidate_role
<1> QED BY <1>1, <1>2 DEF Same, invalidate_role, Aside, Risk

LEMMA Idle_revoke_all_tokens ==
  ASSUME Shaped, NEW r \in DOMAIN reqs, revoke_all_tokens(r)
  PROVE  Idle(r) /\ Same
<1>1. Idle(r)
  BY KeepIdle DEF revoke_all_tokens, Watched, PlanPcs
<1>2. SameKv
  BY KvIsSame DEF revoke_all_tokens
<1> QED BY <1>1, <1>2 DEF Same, revoke_all_tokens, Aside, Risk

LEMMA Idle_run_jwt_rotation ==
  ASSUME Shaped, NEW r \in DOMAIN reqs, run_jwt_rotation(r)
  PROVE  Idle(r) /\ Same
<1>1. Idle(r)
  BY KeepIdle DEF run_jwt_rotation, Watched, PlanPcs
<1>2. SameKv
  BY KvIsSame DEF run_jwt_rotation
<1> QED BY <1>1, <1>2 DEF Same, run_jwt_rotation, Aside, Risk

LEMMA Idle_put_jwt ==
  ASSUME Shaped, NEW r \in DOMAIN reqs, put_jwt(r)
  PROVE  Idle(r) /\ Same
<1>1. Idle(r)
  BY GotoIdle DEF put_jwt, Watched, PlanPcs
<1>2. SameKv
  <2>1. kv' = kv \/ \E x : kv' = [kv EXCEPT !["jwt"] = x]
    BY DEF put_jwt
  <2> QED BY <2>1, SetOther, KvIsSame
<1> QED BY <1>1, <1>2 DEF Same, put_jwt, Aside, Risk

LEMMA Idle_use_jwt ==
  ASSUME Shaped, NEW r \in DOMAIN reqs, use_jwt(r)
  PROVE  Idle(r) /\ Same
<1>1. Idle(r)
  BY ReplyIdle DEF use_jwt, Watched, PlanPcs
<1>2. SameKv
  BY KvIsSame DEF use_jwt
<1> QED BY <1>1, <1>2 DEF Same, use_jwt, Aside, Risk

LEMMA Idle_put_settings ==
  ASSUME Shaped, NEW r \in DOMAIN reqs, put_settings(r)
  PROVE  Idle(r) /\ Same
<1>1. Idle(r)
  BY KeepIdle DEF put_settings, Watched, PlanPcs
<1>2. SameKv
  BY KvIsSame DEF put_settings
<1> QED BY <1>1, <1>2 DEF Same, put_settings, Aside, Risk

LEMMA Idle_save_settings ==
  ASSUME Shaped, NEW r \in DOMAIN reqs, save_settings(r)
  PROVE  Idle(r) /\ Same
<1>1. Idle(r)
  BY GotoIdle DEF save_settings, Watched, PlanPcs
<1>2. SameKv
  <2>1. kv' = kv \/ \E x : kv' = [kv EXCEPT !["settings"] = x]
    BY DEF save_settings
  <2> QED BY <2>1, SetOther, KvIsSame
<1> QED BY <1>1, <1>2 DEF Same, save_settings, Aside, Risk

LEMMA Idle_use_settings ==
  ASSUME Shaped, NEW r \in DOMAIN reqs, use_settings(r)
  PROVE  Idle(r) /\ Same
<1>1. Idle(r)
  BY ReplyIdle DEF use_settings, Watched, PlanPcs
<1>2. SameKv
  BY KvIsSame DEF use_settings
<1> QED BY <1>1, <1>2 DEF Same, use_settings, Aside, Risk

-----------------------------------------------------------------------------
(* What of the invariant is not disturbed.                                  *)

LEMMA RiskStays ==
  ASSUME risk \subseteq risk'
  PROVE  (Wild => Wild') /\ (Exc => Exc') /\ (Loose => Loose') /\ (Wild => Exc) /\ (Wild => Loose)
BY DEF Wild, Exc, Loose, Except

LEMMA SameReady ==
  ASSUME NEW q, Ready(q), reqs'[q] = reqs[q], risk \subseteq risk'
  PROVE  Ready(q)'
<1>1. Wild => Wild'
  BY RiskStays
<1>2. StepFits(q)'
  BY DEF Ready, StepFits, Kind
<1>3. Wild' \/ HasRecord(q)'
  BY <1>1 DEF Ready, HasRecord, Rewrites, At, Kind
<1>4. PlanFits(q)'
  BY DEF Ready, PlanFits, At, Ck
<1> QED BY <1>2, <1>3, <1>4 DEF Ready

LEMMA UnwatchedReady ==
  ASSUME NEW q, reqs'[q].pc \notin Watched
  PROVE  Ready(q)' /\ UsesFit(q)'
<1>1. StepFits(q)'
  BY DEF StepFits, Owner, Watched
<1>2. HasRecord(q)'
  BY DEF HasRecord, Rewrites, At, Watched
<1>3. PlanFits(q)'
  BY DEF PlanFits, At, Watched, PlanPcs, FixPcs
<1>4. UsesFit(q)'
  BY DEF UsesFit, Rewrites, At, Watched
<1> QED BY <1>1, <1>2, <1>3, <1>4 DEF Ready

LEMMA IdleReady ==
  ASSUME NEW r \in DOMAIN reqs, Idle(r)
  PROVE  Ready(r)' /\ UsesFit(r)' /\ \E p : Turns(r, p)
<1>1. PICK p : p \notin Watched /\ Turns(r, p)
  BY DEF Idle
<1>2. reqs'[r].pc \notin Watched
  BY <1>1 DEF Turns
<1> QED BY <1>1, <1>2, UnwatchedReady

\* One request took a step and is ready; the others are as they were.
LEMMA AllReady ==
  ASSUME \A q \in DOMAIN reqs : Ready(q), risk \subseteq risk',
         NEW r \in DOMAIN reqs, NEW p, Turns(r, p), Ready(r)'
  PROVE  \A q \in DOMAIN reqs' : Ready(q)'
<1> SUFFICES ASSUME NEW q \in DOMAIN reqs'
             PROVE  Ready(q)'
  OBVIOUS
<1>1. CASE q = r
  BY <1>1
<1>2. CASE q # r
  <2>1. reqs'[q] = reqs[q] /\ Ready(q)
    BY <1>2 DEF Turns
  <2> QED BY <2>1, SameReady
<1> QED BY <1>1, <1>2

LEMMA SameUses ==
  ASSUME NEW q, UsesFit(q), reqs'[q] = reqs[q], kv'.stores = kv.stores, kv'.repos = kv.repos
  PROVE  UsesFit(q)'
BY DEF UsesFit, Rewrites, At, Kind, To, On, UsedBy, list_repos, Shows

LEMMA AllUses ==
  ASSUME StoreFits, risk \subseteq risk', NEW r \in DOMAIN reqs, NEW p, Turns(r, p), Loose' \/ UsesFit(r)',
         kv'.stores = kv.stores, kv'.repos = kv.repos
  PROVE  StoreFits'
<1> SUFFICES ASSUME ~Loose', NEW q \in DOMAIN reqs'
             PROVE  UsesFit(q)'
  BY DEF StoreFits
<1>1. CASE q = r
  BY <1>1
<1>2. CASE q # r
  <2>1. reqs'[q] = reqs[q] /\ UsesFit(q)
    BY <1>2, RiskStays DEF Turns, StoreFits
  <2> QED BY <2>1, SameUses
<1> QED BY <1>1, <1>2

\* The records but for the requests.
RecordsInv == FilesTyped /\ (Wild \/ NamesTyped) /\ NewIsEmpty /\ DrainFits
NamesSame == kv'.repos = kv.repos /\ kv'.stores = kv.stores /\ risk \subseteq risk'

LEMMA NamesStay ==
  ASSUME Wild \/ NamesTyped, StoreInUse, NamesSame
  PROVE  (Wild' \/ NamesTyped') /\ StoreInUse'
<1>1. Wild' \/ NamesTyped'
  BY RiskStays DEF NamesSame, NamesTyped
<1>2. StoreInUse'
  BY RiskStays DEF NamesSame, StoreInUse, Loose, list_repos, Shows
<1> QED BY <1>1, <1>2

\* A drain is in order as long as no name it has listed is taken, and no file put
\* where it has been.
LEMMA SafeStays ==
  ASSUME NEW d, DrainSafe(d), drain' = drain,
         \A n \in Pending(d) \cap Repos :
           /\ Draining(n) => Draining(n)'
           /\ Draining(n) => \A x : x.repo = n => (x \in kv'.arts => x \in kv.arts) /\ (x \in kv'.tree => x \in kv.tree)
  PROVE  DrainSafe(d)'
<1>1. Pending(d)' = Pending(d)
  BY DEF Pending
<1>2. \A n \in Pending(d) \cap Repos : Draining(n)'
  BY DEF DrainSafe
<1>3. Finished(d)'
  <2>1. CASE drain[d].pc = "idle"
    BY <2>1 DEF Finished
  <2>2. CASE drain[d].pc # "idle"
    <3>1. drain[d].repo \in Pending(d) \cap Repos /\ Draining(drain[d].repo)
      BY <2>2 DEF DrainSafe, Finished, Pending
    <3> QED BY <3>1 DEF DrainSafe, Finished
  <2> QED BY <2>1, <2>2
<1> QED BY <1>1, <1>2, <1>3 DEF DrainSafe

LEMMA SameRecords ==
  ASSUME RecordsInv, StoreInUse, Same
  PROVE  RecordsInv' /\ StoreInUse'
<1>1. NamesSame
  BY DEF Same, SameKv, NamesSame
<1>2. (Wild' \/ NamesTyped') /\ StoreInUse'
  BY <1>1, NamesStay DEF RecordsInv
<1>3. FilesTyped'
  BY DEF Same, SameKv, RecordsInv, FilesTyped
<1>4. NewIsEmpty'
  BY RiskStays DEF Same, SameKv, RecordsInv, NewIsEmpty, Exc
<1>5. DrainFits'
  BY RiskStays, SafeStays DEF Same, SameKv, RecordsInv, DrainFits, Draining
<1> QED BY <1>2, <1>3, <1>4, <1>5 DEF RecordsInv

LEMMA IdleKeeps ==
  ASSUME LifeInv, NEW r \in DOMAIN reqs, Idle(r), Same
  PROVE  LifeInv'
<1>1. PICK p : Turns(r, p)
  BY IdleReady
<1>2. Ready(r)' /\ UsesFit(r)' /\ risk \subseteq risk' /\ kv'.stores = kv.stores /\ kv'.repos = kv.repos
  BY IdleReady DEF Same, SameKv
<1>3. \A q \in DOMAIN reqs' : Ready(q)'
  BY <1>1, <1>2, AllReady DEF LifeInv
<1>4. StoreFits'
  BY <1>1, <1>2, AllUses DEF LifeInv
<1>5. RecordsInv' /\ StoreInUse'
  BY SameRecords DEF LifeInv, RecordsInv
<1> QED BY <1>3, <1>4, <1>5 DEF LifeInv, RecordsInv

LEMMA SameRequests ==
  ASSUME LifeInv, reqs' = reqs, risk \subseteq risk'
  PROVE  /\ \A q \in DOMAIN reqs' : Ready(q)'
         /\ kv'.stores = kv.stores /\ kv'.repos = kv.repos => StoreFits'
<1>1. \A q \in DOMAIN reqs' : Ready(q)'
  BY SameReady DEF LifeInv
<1>2. ASSUME kv'.stores = kv.stores, kv'.repos = kv.repos
      PROVE  StoreFits'
  BY <1>2, RiskStays, SameUses DEF LifeInv, StoreFits
<1> QED BY <1>1, <1>2

LEMMA RestKeeps ==
  ASSUME LifeInv, reqs' = reqs, Same
  PROVE  LifeInv'
<1>1. RecordsInv' /\ StoreInUse'
  BY SameRecords DEF LifeInv, RecordsInv
<1>2. (\A q \in DOMAIN reqs' : Ready(q)') /\ StoreFits'
  BY SameRequests DEF Same, SameKv
<1> QED BY <1>1, <1>2 DEF LifeInv, RecordsInv

-----------------------------------------------------------------------------
(* The life of a repository as its users see it.                            *)

LifeOf(n) == IF kv.repos[n] = None THEN "absent" ELSE IF kv.repos[n].deleting THEN "deleting" ELSE "live"
FilesOf(n) == {x.path : x \in {y \in kv.arts \cup kv.tree : y.repo = n}}
Unchanged(n) == LifeOf(n)' = LifeOf(n) /\ FilesOf(n)' = FilesOf(n)
\* What may become of one repository.
Lives(n) ==
    \/ LifeOf(n) = "absent" /\ LifeOf(n)' = "live" /\ FilesOf(n)' = FilesOf(n)
    \/ LifeOf(n) = "live" /\ LifeOf(n)' = "live"
    \/ LifeOf(n) = "live" /\ LifeOf(n)' = "deleting" /\ FilesOf(n)' = FilesOf(n)
    \/ LifeOf(n) = "deleting" /\ LifeOf(n)' = "deleting" /\ FilesOf(n)' \subseteq FilesOf(n)
    \/ LifeOf(n) = "deleting" /\ LifeOf(n)' = "absent" /\ FilesOf(n) = {} /\ FilesOf(n)' = {}
Promised ==
    \/ Exc'
    \/ \A n \in Repos : Unchanged(n)
    \/ \E n \in Repos : Lives(n) /\ \A m \in Repos \ {n} : Unchanged(m)

LEMMA SamePromised ==
  ASSUME Same
  PROVE  Promised
BY DEF Same, SameKv, Promised, Unchanged, LifeOf, FilesOf

LEMMA PathsTyped ==
  ASSUME FilesTyped, NEW n
  PROVE  FilesOf(n) \subseteq AllPaths
BY DEF FilesTyped, FilesOf, IsFile, IsEntry

LEMMA PathsTypedNext ==
  ASSUME FilesTyped', NEW n
  PROVE  FilesOf(n)' \subseteq AllPaths
BY DEF FilesTyped, FilesOf, IsFile, IsEntry, AllPaths

\* Such steps are those of the promise.
LEMMA PromisedSteps ==
  ASSUME FilesTyped', Promised, risk \subseteq risk'
  PROVE  [Lifecycle!Next]_(Lifecycle!vars)
<1> DEFINE life == [n \in Repos |-> LifeOf(n)]
           files == [n \in Repos |-> FilesOf(n)]
           life1 == [n \in Repos |-> LifeOf(n)']
           files1 == [n \in Repos |-> FilesOf(n)']
<1>1. /\ life = [n \in Repos |-> IF kv.repos[n] = None THEN "absent" ELSE IF kv.repos[n].deleting THEN "deleting" ELSE "live"]
      /\ files = [n \in Repos |-> {x.path : x \in {y \in kv.arts \cup kv.tree : y.repo = n}}]
      /\ life1 = [n \in Repos |-> IF kv'.repos[n] = None THEN "absent" ELSE IF kv'.repos[n].deleting THEN "deleting" ELSE "live"]
      /\ files1 = [n \in Repos |-> {x.path : x \in {y \in kv'.arts \cup kv'.tree : y.repo = n}}]
  BY DEF LifeOf, FilesOf
<1>2. /\ life1 \in [Repos -> {"absent", "live", "deleting"}]
      /\ files1 \in [Repos -> SUBSET AllPaths]
  BY PathsTypedNext DEF LifeOf
<1>3. CASE Exc'
  <2>1. Lifecycle!Race
    BY <1>1, <1>2, <1>3 DEF Lifecycle!Race, Exc, AllPaths
  <2> QED BY <2>1 DEF Lifecycle!Next
<1>4. CASE ~Exc'
  <2>1. ~Exc
    BY <1>4, RiskStays
  <2>2. CASE \A n \in Repos : Unchanged(n)
    <3>1. \A n \in Repos : LifeOf(n)' = LifeOf(n) /\ FilesOf(n)' = FilesOf(n)
      BY <2>2 DEF Unchanged
    <3>2. life1 = life /\ files1 = files
      BY <3>1
    <3> HIDE DEF life, files, life1, files1
    <3>3. Exc' = Exc
      BY <1>4, <2>1 DEF Exc, Except
    <3> QED BY <1>1, <3>2, <3>3 DEF Lifecycle!vars, Exc
  <2>3. CASE \E n \in Repos : Lives(n) /\ \A m \in Repos \ {n} : Unchanged(m)
    <3>1. PICK n \in Repos : Lives(n) /\ \A m \in Repos \ {n} : Unchanged(m)
      BY <2>3
    <3>2. life1 = [life EXCEPT ![n] = LifeOf(n)'] /\ files1 = [files EXCEPT ![n] = FilesOf(n)']
      BY <3>1 DEF Unchanged
    <3>3. life[n] = LifeOf(n) /\ files[n] = FilesOf(n) /\ FilesOf(n)' \subseteq AllPaths
      BY PathsTypedNext
    <3>4. FilesOf(n)' = FilesOf(n) => files1 = files
      BY <3>2
    <3>5. LifeOf(n)' = LifeOf(n) => life1 = life
      BY <3>2
    <3> HIDE DEF life, files, life1, files1
    <3>6. Lifecycle!Create(n) \/ Lifecycle!Change(n) \/ Lifecycle!Delete(n) \/ Lifecycle!Drain(n) \/ Lifecycle!Vanish(n)
      <4>1. CASE LifeOf(n) = "absent" /\ LifeOf(n)' = "live" /\ FilesOf(n)' = FilesOf(n)
        <5>1. life[n] = "absent" /\ life1 = [life EXCEPT ![n] = "live"] /\ files1 = files
          BY <3>2, <3>3, <3>4, <4>1
        <5> QED BY <1>1, <5>1 DEF Lifecycle!Create
      <4>2. CASE LifeOf(n) = "live" /\ LifeOf(n)' = "live"
        <5>1. life[n] = "live" /\ life1 = life /\ \E fs \in SUBSET (Paths \cup OddPaths) : files1 = [files EXCEPT ![n] = fs]
          BY <3>2, <3>3, <3>5, <4>2 DEF AllPaths
        <5> QED BY <1>1, <5>1 DEF Lifecycle!Change
      <4>3. CASE LifeOf(n) = "live" /\ LifeOf(n)' = "deleting" /\ FilesOf(n)' = FilesOf(n)
        <5>1. life[n] = "live" /\ life1 = [life EXCEPT ![n] = "deleting"] /\ files1 = files
          BY <3>2, <3>3, <3>4, <4>3
        <5> QED BY <1>1, <5>1 DEF Lifecycle!Delete
      <4>4. CASE LifeOf(n) = "deleting" /\ LifeOf(n)' = "deleting" /\ FilesOf(n)' \subseteq FilesOf(n)
        <5>1. life[n] = "deleting" /\ life1 = life /\ \E fs \in SUBSET files[n] : files1 = [files EXCEPT ![n] = fs]
          BY <3>2, <3>3, <3>5, <4>4
        <5> QED BY <1>1, <5>1 DEF Lifecycle!Drain
      <4>5. CASE LifeOf(n) = "deleting" /\ LifeOf(n)' = "absent" /\ FilesOf(n) = {} /\ FilesOf(n)' = {}
        <5>1. life[n] = "deleting" /\ files[n] = {} /\ life1 = [life EXCEPT ![n] = "absent"] /\ files1 = files
          BY <3>2, <3>3, <3>4, <4>5
        <5> QED BY <1>1, <5>1 DEF Lifecycle!Vanish
      <4> QED BY <3>1, <4>1, <4>2, <4>3, <4>4, <4>5 DEF Lives
    <3>7. Exc' = Exc
      BY <1>4, <2>1 DEF Exc, Except
    <3> QED BY <3>6, <3>7 DEF Lifecycle!Next, Exc
  <2> QED BY <1>4, <2>2, <2>3 DEF Promised
<1> QED BY <1>3, <1>4

-----------------------------------------------------------------------------
(* A request goes on to a step that is watched.                             *)

LEMMA TakenReady ==
  ASSUME NEW r \in DOMAIN reqs, NEW p, Turns(r, p), p \notin PlanPcs, p \in DOMAIN Owner => Kind(r) = Owner[p],
         (p \in {"mark", "reserve"} \/ (p = "put" /\ Kind(r) = "update_repo")) => Wild' \/ Live(reqs'[r].got)
  PROVE  Ready(r)'
<1>1. reqs'[r].pc = p /\ Kind(r)' = Kind(r)
  BY DEF Turns, Kind
<1>2. StepFits(r)'
  BY <1>1 DEF StepFits, Owner
<1>3. Wild' \/ HasRecord(r)'
  BY <1>1 DEF HasRecord, Rewrites, At, Live
<1>4. PlanFits(r)'
  BY <1>1 DEF PlanFits, At, PlanPcs, FixPcs
<1> QED BY <1>2, <1>3, <1>4 DEF Ready

LEMMA TakenUses ==
  ASSUME NEW r \in DOMAIN reqs, NEW p, Turns(r, p),
         p \in {"checked", "put"} /\ Kind(r) = "create_repo" => kv'.stores[To(r)] # None,
         p = "reserve" \/ (p = "put" /\ Kind(r) = "update_repo") => kv'.stores[reqs'[r].got.store] # None,
         p \in {"blobs", "remove"} => \A n \in list_repos' : kv'.repos[n].store # On(r)
  PROVE  UsesFit(r)'
<1>1. reqs'[r].pc = p /\ Kind(r)' = Kind(r) /\ To(r)' = To(r) /\ On(r)' = On(r)
  BY DEF Turns, Kind, To, On
<1>2. p \in {"blobs", "remove"} => UsedBy(On(r))' = {}
  BY <1>1 DEF UsedBy
<1> QED BY <1>1, <1>2 DEF UsesFit, Rewrites, At

LEMMA TakenKeeps ==
  ASSUME LifeInv, NEW r \in DOMAIN reqs, NEW p, Turns(r, p), Ready(r)', Loose' \/ UsesFit(r)', Same
  PROVE  LifeInv'
<1>1. risk \subseteq risk' /\ kv'.stores = kv.stores /\ kv'.repos = kv.repos
  BY DEF Same, SameKv
<1>2. \A q \in DOMAIN reqs' : Ready(q)'
  BY <1>1, AllReady DEF LifeInv
<1>3. StoreFits'
  BY <1>1, AllUses DEF LifeInv
<1>4. RecordsInv' /\ StoreInUse'
  BY SameRecords DEF LifeInv, RecordsInv
<1> QED BY <1>2, <1>3, <1>4 DEF LifeInv, RecordsInv

LEMMA PlanKeeps ==
  ASSUME LifeInv, NEW r \in DOMAIN reqs, NEW p, Turns(r, p), p \in PlanPcs, PlanFits(r)', Same
  PROVE  LifeInv'
<1>1. reqs'[r].pc = p
  BY DEF Turns
<1>2. Ready(r)'
  BY <1>1 DEF Ready, StepFits, Owner, HasRecord, Rewrites, At, PlanPcs
<1>3. UsesFit(r)'
  BY <1>1 DEF UsesFit, Rewrites, At, PlanPcs
<1> QED BY <1>2, <1>3, TakenKeeps

LEMMA SameIf ==
  ASSUME kv' = kv, drain' = drain, risk \subseteq risk'
  PROVE  Same
BY DEF Same, SameKv

LEMMA Life_create_repo ==
  ASSUME Shaped, LifeInv, NEW r \in DOMAIN reqs, create_repo(r)
  PROVE  LifeInv' /\ Same
<1>1. Same
  BY SameIf DEF create_repo, Kept, Aside
<1>2. CASE Reply(r, "no_store")
  BY <1>1, <1>2, ReplyIdle, IdleKeeps
<1>3. CASE Goto(r, "checked") /\ kv.stores[To(r)] # None
  <2>1. Turns(r, "checked")
    BY <1>3, GotoTurns DEF Shaped
  <2>2. Ready(r)'
    BY <2>1, TakenReady DEF PlanPcs, Owner
  <2>3. UsesFit(r)'
    BY <1>1, <1>3, <2>1, TakenUses DEF Same, SameKv
  <2> QED BY <1>1, <2>1, <2>2, <2>3, TakenKeeps
<1> QED BY <1>1, <1>2, <1>3 DEF create_repo

LEMMA Life_create_repo_free ==
  ASSUME Shaped, LifeInv, NEW r \in DOMAIN reqs, create_repo_free(r)
  PROVE  LifeInv' /\ Same
<1>1. Same
  BY SameIf DEF create_repo_free, Kept, Aside
<1>2. CASE Reply(r, "conflict")
  BY <1>1, <1>2, ReplyIdle, IdleKeeps
<1>3. CASE Goto(r, "put")
  <2>1. Turns(r, "put") /\ Kind(r) = "create_repo"
    BY <1>3, GotoTurns DEF Shaped, create_repo_free
  <2>2. Ready(r)'
    BY <2>1, TakenReady DEF PlanPcs, Owner
  <2>3. Loose' \/ kv.stores[To(r)] # None
    BY <1>1, RiskStays DEF LifeInv, StoreFits, UsesFit, create_repo_free, At, Same
  <2>4. Loose' \/ UsesFit(r)'
    BY <1>1, <2>1, <2>3, TakenUses DEF Same, SameKv
  <2> QED BY <1>1, <2>1, <2>2, <2>4, TakenKeeps
<1> QED BY <1>2, <1>3, <1>1 DEF create_repo_free

\* The record of a repository that is shown.
LEMMA Shown1 ==
  ASSUME LifeInv, NEW n \in Repos, Shows(kv.repos[n]), ~Wild
  PROVE  Live(kv.repos[n]) /\ (Loose \/ kv.stores[kv.repos[n].store] # None)
BY DEF LifeInv, NamesTyped, Shows, Live, StoreInUse, Loose, list_repos

LEMMA Life_update_repo ==
  ASSUME Shaped, RequestsFit, LifeInv, NEW r \in DOMAIN reqs, update_repo(r)
  PROVE  LifeInv' /\ Same
<1>1. Same /\ risk' = risk
  BY SameIf DEF update_repo, Kept, Aside
<1>2. CASE Reply(r, "not_found")
  BY <1>1, <1>2, ReplyIdle, IdleKeeps
<1>3. CASE get_repo(On(r)) # None /\ Keep(r, "put", get_repo(On(r)))
  <2> DEFINE g == get_repo(On(r))
  <2>1. Turns(r, "put") /\ Kind(r) = "update_repo" /\ reqs'[r].got = g
    BY <1>3, KeepTurns DEF Shaped, update_repo, Asks
  <2>2. On(r) \in Repos
    BY <2>1, ControlAssumption DEF RequestsFit, Kind, On
  <2>3. Shows(kv.repos[On(r)]) /\ g = kv.repos[On(r)]
    BY <1>3 DEF get_repo
  <2>4. Wild \/ Live(g)
    BY <2>2, <2>3, Shown1
  <2>5. Loose \/ kv.stores[g.store] # None
    BY <2>2, <2>3, Shown1 DEF Wild, Loose, Except
  <2> HIDE DEF g
  <2>6. Ready(r)'
    BY <1>1, <2>1, <2>4, TakenReady, RiskStays DEF PlanPcs, Owner
  <2>7. Loose' \/ UsesFit(r)'
    BY <1>1, <2>1, <2>5, TakenUses, RiskStays DEF Same, SameKv
  <2> QED BY <1>1, <2>1, <2>6, <2>7, TakenKeeps
<1> QED BY <1>1, <1>2, <1>3 DEF update_repo

LEMMA Life_delete_repo ==
  ASSUME Shaped, RequestsFit, LifeInv, NEW r \in DOMAIN reqs, delete_repo(r)
  PROVE  LifeInv' /\ Same
<1>1. Same /\ risk' = risk
  BY SameIf DEF delete_repo, Kept, Aside
<1>2. CASE Reply(r, "not_found") \/ Written(r, "deleted", On(r))
  BY <1>1, <1>2, ReplyIdle, WrittenIdle, IdleKeeps
<1>3. CASE kv.repos[On(r)] # None /\ ~kv.repos[On(r)].deleting /\ Keep(r, "mark", kv.repos[On(r)])
  <2>1. Turns(r, "mark") /\ Kind(r) = "delete_repo" /\ reqs'[r].got = kv.repos[On(r)]
    BY <1>3, KeepTurns DEF Shaped, delete_repo, Asks
  <2>2. On(r) \in Repos
    BY <2>1, ControlAssumption DEF RequestsFit, Kind, On
  <2>3. Wild \/ Live(kv.repos[On(r)])
    BY <1>3, <2>2, Shown1 DEF Shows
  <2>4. Ready(r)'
    BY <1>1, <2>1, <2>3, TakenReady, RiskStays DEF PlanPcs, Owner
  <2>5. UsesFit(r)'
    BY <1>1, <2>1, TakenUses
  <2> QED BY <1>1, <2>1, <2>4, <2>5, TakenKeeps
<1> QED BY <1>1, <1>2, <1>3 DEF delete_repo

LEMMA Life_clone_repo ==
  ASSUME Shaped, RequestsFit, LifeInv, NEW r \in DOMAIN reqs, clone_repo(r)
  PROVE  LifeInv' /\ Same
<1>1. SameKv
  BY KvIsSame, SetTask DEF clone_repo
<1>2. Same /\ risk' = risk
  BY <1>1 DEF clone_repo, Kept, Aside, Same
<1>3. CASE \E what : Reply(r, what)
  BY <1>2, <1>3, ReplyIdle, IdleKeeps
<1>4. CASE get_repo(On(r)) # None /\ Keep(r, "reserve", get_repo(On(r)))
  <2> DEFINE g == get_repo(On(r))
  <2>1. Turns(r, "reserve") /\ Kind(r) = "clone_repo" /\ reqs'[r].got = g
    BY <1>4, KeepTurns DEF Shaped, clone_repo, Asks
  <2>2. On(r) \in Repos
    BY <2>1, ControlAssumption DEF RequestsFit, Kind, On
  <2>3. Shows(kv.repos[On(r)]) /\ g = kv.repos[On(r)]
    BY <1>4 DEF get_repo
  <2>4. Wild \/ Live(g)
    BY <2>2, <2>3, Shown1
  <2>5. Loose \/ kv.stores[g.store] # None
    BY <2>2, <2>3, Shown1 DEF Wild, Loose, Except
  <2> HIDE DEF g
  <2>6. Ready(r)'
    BY <1>2, <2>1, <2>4, TakenReady, RiskStays DEF PlanPcs, Owner
  <2>7. Loose' \/ UsesFit(r)'
    BY <1>2, <2>1, <2>5, TakenUses, RiskStays DEF Same, SameKv
  <2> QED BY <1>2, <2>1, <2>6, <2>7, TakenKeeps
<1> QED BY <1>2, <1>3, <1>4 DEF clone_repo

LEMMA Life_create_store ==
  ASSUME Shaped, LifeInv, NEW r \in DOMAIN reqs, create_store(r)
  PROVE  LifeInv' /\ Same
<1>1. Same
  BY SameIf DEF create_store, Kept, Aside
<1>2. CASE Reply(r, "conflict")
  BY <1>1, <1>2, ReplyIdle, IdleKeeps
<1>3. CASE \E p \in {"tried", "put"} : Goto(r, p)
  <2>1. PICK p \in {"tried", "put"} : Goto(r, p)
    BY <1>3
  <2>2. Turns(r, p)
    BY <2>1, GotoTurns DEF Shaped
  <2>3. Kind(r) = "create_store"
    BY DEF create_store, Asks, LifeInv, Ready, StepFits, Owner, At
  <2>4. Ready(r)'
    BY <2>2, <2>3, TakenReady DEF PlanPcs, Owner
  <2>5. UsesFit(r)'
    BY <2>2, <2>3, TakenUses
  <2> QED BY <1>1, <2>2, <2>4, <2>5, TakenKeeps
<1> QED BY <1>1, <1>2, <1>3 DEF create_store

LEMMA Life_update_store ==
  ASSUME Shaped, LifeInv, NEW r \in DOMAIN reqs, update_store(r)
  PROVE  LifeInv' /\ Same
<1>1. Same
  BY SameIf DEF update_store, Kept, Aside
<1>2. CASE Reply(r, "not_found")
  BY <1>1, <1>2, ReplyIdle, IdleKeeps
<1>3. CASE Goto(r, "put")
  <2>1. Turns(r, "put") /\ Kind(r) = "update_store"
    BY <1>3, GotoTurns DEF Shaped, update_store, Asks
  <2>2. Ready(r)'
    BY <2>1, TakenReady DEF PlanPcs, Owner
  <2>3. UsesFit(r)'
    BY <2>1, TakenUses
  <2> QED BY <1>1, <2>1, <2>2, <2>3, TakenKeeps
<1> QED BY <1>1, <1>2, <1>3 DEF update_store

LEMMA Life_delete_store ==
  ASSUME Shaped, LifeInv, NEW r \in DOMAIN reqs, delete_store(r)
  PROVE  LifeInv' /\ Same
<1>1. Same
  BY SameIf DEF delete_store, Kept, Aside
<1>2. CASE \E what : Reply(r, what)
  BY <1>1, <1>2, ReplyIdle, IdleKeeps
<1>3. Kind(r) = "delete_store"
  BY DEF delete_store, Asks, LifeInv, Ready, StepFits, Owner, At
<1>4. CASE Goto(r, "users")
  <2>1. Turns(r, "users")
    BY <1>4, GotoTurns DEF Shaped
  <2>2. Ready(r)'
    BY <1>3, <2>1, TakenReady DEF PlanPcs, Owner
  <2>3. UsesFit(r)'
    BY <2>1, TakenUses
  <2> QED BY <1>1, <2>1, <2>2, <2>3, TakenKeeps
<1>5. CASE \E p \in {"blobs", "remove"} : Goto(r, p) /\ (UsedBy(On(r)) = {} \/ At(r, "blobs"))
  <2>1. PICK p \in {"blobs", "remove"} : Goto(r, p) /\ (UsedBy(On(r)) = {} \/ At(r, "blobs"))
    BY <1>5
  <2>2. Turns(r, p)
    BY <2>1, GotoTurns DEF Shaped
  <2>3. Ready(r)'
    BY <1>3, <2>2, TakenReady DEF PlanPcs, Owner
  <2>4. Loose' \/ UsedBy(On(r)) = {}
    BY <1>1, <2>1, RiskStays DEF LifeInv, StoreFits, UsesFit, At, Same
  <2>5. list_repos' = list_repos /\ kv'.repos = kv.repos
    BY <1>1 DEF Same, SameKv, list_repos, Shows
  <2>6. Loose' \/ UsesFit(r)'
    BY <2>2, <2>4, <2>5, TakenUses DEF UsedBy
  <2> QED BY <1>1, <2>2, <2>3, <2>6, TakenKeeps
<1> QED BY <1>1, <1>2, <1>4, <1>5 DEF delete_store

LEMMA Life_put_artifact ==
  ASSUME Shaped, LifeInv, NEW r \in DOMAIN reqs, put_artifact(r)
  PROVE  LifeInv' /\ Same
<1>1. Same
  BY SameIf DEF put_artifact, Kept, Aside, Risk
<1>2. CASE \E what : Reply(r, what)
  BY <1>1, <1>2, ReplyIdle, IdleKeeps
<1>3. CASE \E g : Keep(r, "stream", g)
  <2>1. Turns(r, "stream") /\ Kind(r) = "put"
    BY <1>3, KeepTurns DEF Shaped, put_artifact, Asks
  <2>2. Ready(r)'
    BY <2>1, TakenReady DEF PlanPcs, Owner
  <2>3. UsesFit(r)'
    BY <2>1, TakenUses
  <2> QED BY <1>1, <2>1, <2>2, <2>3, TakenKeeps
<1> QED BY <1>1, <1>2, <1>3 DEF put_artifact

LEMMA Life_commit_ingestion ==
  ASSUME Shaped, LifeInv, NEW r \in DOMAIN reqs, commit_ingestion(r)
  PROVE  LifeInv' /\ Same
<1>1. SameKv
  BY SetBlobs, Zenon DEF commit_ingestion
<1>2. Same
  BY <1>1 DEF Same, commit_ingestion, Kept, Aside, Risk
<1>3. Turns(r, "record")
  BY KeepTurns DEF Shaped, commit_ingestion
<1>4. Kind(r) = "put"
  BY DEF commit_ingestion, LifeInv, Ready, StepFits, Owner, At
<1>5. Ready(r)'
  BY <1>3, <1>4, TakenReady DEF PlanPcs, Owner
<1>6. UsesFit(r)'
  BY <1>3, TakenUses
<1> QED BY <1>2, <1>3, <1>5, <1>6, TakenKeeps

-----------------------------------------------------------------------------
(* The steps of a check that write no file.                                 *)

LEMMA PlainPlan ==
  ASSUME NEW r, NEW p, Turns(r, p), p \in PlanPcs, p \notin FixPcs \cup {"chk_tags"}, CheckFields \subseteq DOMAIN reqs'[r].got
  PROVE  PlanFits(r)'
BY DEF PlanFits, Turns, At, Ck

\* Fields of what it keeps are changed.
SameBut(a, b, fields) == DOMAIN b = DOMAIN a /\ \A l \in DOMAIN a : l \notin fields => b[l] = a[l]
Leads(f, g, r, fields) == Turn(f, g, r, f[r].pc) /\ SameBut(f[r].got, g[r].got, fields) /\ g[r].todo = f[r].todo

LEMMA OneLeads ==
  ASSUME NEW f, NEW W, f \in [DOMAIN f -> Request(W)], NEW r \in DOMAIN f, NEW j, NEW x,
         NEW g, g = [f EXCEPT ![r].got[j] = x]
  PROVE  Leads(f, g, r, {j})
<1> DEFINE y == [f[r].got EXCEPT ![j] = x]
<1>1. g = [f EXCEPT ![r].got = y]
  OBVIOUS
<1>2. f[r] \in Request(W)
  OBVIOUS
<1>3. SameBut(f[r].got, y, {j})
  BY DEF SameBut
<1> HIDE DEF y
<1>4. g[r].got = y /\ g[r].todo = f[r].todo
  BY <1>1, <1>2 DEF Request
<1>5. Turn(f, g, r, f[r].pc)
  BY <1>1, FirstTurn DEF OtherFields
<1> QED BY <1>3, <1>4, <1>5 DEF Leads

LEMMA BothLead ==
  ASSUME NEW f, NEW g, NEW h, NEW r, NEW A, NEW B, Leads(f, g, r, A), Leads(g, h, r, B)
  PROVE  Leads(f, h, r, A \cup B)
<1>1. Turn(f, h, r, f[r].pc)
  BY DEF Leads, Turn
<1>2. SameBut(f[r].got, h[r].got, A \cup B) /\ h[r].todo = f[r].todo
  BY DEF Leads, SameBut
<1> QED BY <1>1, <1>2 DEF Leads

LEMMA ScanStoreLeads ==
  ASSUME NEW f, NEW W, f \in [DOMAIN f -> Request(W)], NEW r \in DOMAIN f, NEW X, NEW Y,
         NEW g, g = [f EXCEPT ![r].got.stores = @ \ {X}, ![r].got.filter = bloom_union(@, Y)]
  PROVE  Leads(f, g, r, {"stores", "filter"})
<1> DEFINE f1 == [f EXCEPT ![r].got.stores = @ \ {X}]
           x1 == f[r].got.stores \ {X}
           x2 == bloom_union(f1[r].got.filter, Y)
<1>1. f1 = [f EXCEPT ![r].got["stores"] = x1]
  OBVIOUS
<1>2. g = [f1 EXCEPT ![r].got["filter"] = x2]
  OBVIOUS
<1> HIDE DEF f1, x1, x2
<1>3. Leads(f, f1, r, {"stores"})
  BY <1>1, OneLeads
<1>4. PICK V : f1 \in [DOMAIN f1 -> Request(V)] /\ r \in DOMAIN f1
  BY <1>3 DEF Leads, Turn
<1>5. Leads(f1, g, r, {"filter"})
  BY <1>2, <1>4, OneLeads
<1>6. {"stores"} \cup {"filter"} = {"stores", "filter"}
  OBVIOUS
<1> QED BY <1>3, <1>5, <1>6, BothLead

LEMMA ScanRecordsLeads ==
  ASSUME NEW f, NEW W, f \in [DOMAIN f -> Request(W)], NEW r \in DOMAIN f, NEW X, NEW Y,
         NEW g, g = [f EXCEPT ![r].got.stores = @ \ {X}, ![r].got.work = Y]
  PROVE  Leads(f, g, r, {"stores", "work"})
<1> DEFINE f1 == [f EXCEPT ![r].got.stores = @ \ {X}]
           x1 == f[r].got.stores \ {X}
           x2 == Y
<1>1. f1 = [f EXCEPT ![r].got["stores"] = x1]
  OBVIOUS
<1>2. g = [f1 EXCEPT ![r].got["work"] = x2]
  OBVIOUS
<1> HIDE DEF f1, x1, x2
<1>3. Leads(f, f1, r, {"stores"})
  BY <1>1, OneLeads
<1>4. PICK V : f1 \in [DOMAIN f1 -> Request(V)] /\ r \in DOMAIN f1
  BY <1>3 DEF Leads, Turn
<1>5. Leads(f1, g, r, {"work"})
  BY <1>2, <1>4, OneLeads
<1>6. {"stores"} \cup {"work"} = {"stores", "work"}
  OBVIOUS
<1> QED BY <1>3, <1>5, <1>6, BothLead

LEMMA VerifyLeads ==
  ASSUME NEW f, NEW W, f \in [DOMAIN f -> Request(W)], NEW r \in DOMAIN f, NEW X, NEW Y,
         NEW g, g = [f EXCEPT ![r].got.work = @ \ {X}, ![r].got.missing = @ \cup Y]
  PROVE  Leads(f, g, r, {"work", "missing"})
<1> DEFINE f1 == [f EXCEPT ![r].got.work = @ \ {X}]
           x1 == f[r].got.work \ {X}
           x2 == f1[r].got.missing \cup Y
<1>1. f1 = [f EXCEPT ![r].got["work"] = x1]
  OBVIOUS
<1>2. g = [f1 EXCEPT ![r].got["missing"] = x2]
  OBVIOUS
<1> HIDE DEF f1, x1, x2
<1>3. Leads(f, f1, r, {"work"})
  BY <1>1, OneLeads
<1>4. PICK V : f1 \in [DOMAIN f1 -> Request(V)] /\ r \in DOMAIN f1
  BY <1>3 DEF Leads, Turn
<1>5. Leads(f1, g, r, {"missing"})
  BY <1>2, <1>4, OneLeads
<1>6. {"work"} \cup {"missing"} = {"work", "missing"}
  OBVIOUS
<1> QED BY <1>3, <1>5, <1>6, BothLead

\* The request is where it was, and what it keeps has the fields that it had.
LEMMA PlainKeeps ==
  ASSUME LifeInv, NEW r \in DOMAIN reqs, NEW p, Turns(r, p), p \in PlanPcs, p \notin FixPcs \cup {"chk_tags"},
         reqs[r].pc \in PlanPcs, DOMAIN reqs'[r].got = DOMAIN reqs[r].got, Same
  PROVE  LifeInv'
<1>1. CheckFields \subseteq DOMAIN reqs[r].got
  BY DEF LifeInv, Ready, PlanFits, Ck
<1> QED BY <1>1, PlainPlan, PlanKeeps

Reading(r) == reqs[r].pc \in {"chk_scan", "chk_records"}

LEMMA LeadKeeps ==
  ASSUME LifeInv, NEW f, NEW g, f = reqs, g = reqs', NEW r \in DOMAIN reqs, NEW A, Leads(f, g, r, A),
         Reading(r), Same
  PROVE  LifeInv'
<1>1. Turns(r, reqs[r].pc)
  BY DEF Leads, Turn, Turns, ReqsIn
<1> QED BY <1>1, PlainKeeps DEF Leads, SameBut, PlanPcs, FixPcs, Reading

LEMMA ScanStoreKeeps ==
  ASSUME Shaped, LifeInv, NEW r \in DOMAIN reqs, NEW X, NEW Y, Reading(r), Same,
         reqs' = [reqs EXCEPT ![r].got.stores = @ \ {X}, ![r].got.filter = bloom_union(@, Y)]
  PROVE  LifeInv'
<1>1. PICK f, g : f = reqs /\ g = reqs'
  OBVIOUS
<1>2. Leads(f, g, r, {"stores", "filter"})
  BY <1>1, ScanStoreLeads, Zenon DEF Shaped, ReqsIn
<1> QED BY <1>1, <1>2, LeadKeeps

LEMMA ScanRecordsKeeps ==
  ASSUME Shaped, LifeInv, NEW r \in DOMAIN reqs, NEW X, NEW Y, Reading(r), Same,
         reqs' = [reqs EXCEPT ![r].got.stores = @ \ {X}, ![r].got.work = Y]
  PROVE  LifeInv'
<1>1. PICK f, g : f = reqs /\ g = reqs'
  OBVIOUS
<1>2. Leads(f, g, r, {"stores", "work"})
  BY <1>1, ScanRecordsLeads, Zenon DEF Shaped, ReqsIn
<1> QED BY <1>1, <1>2, LeadKeeps

LEMMA VerifyKeeps ==
  ASSUME Shaped, LifeInv, NEW r \in DOMAIN reqs, NEW X, NEW Y, Reading(r), Same,
         reqs' = [reqs EXCEPT ![r].got.work = @ \ {X}, ![r].got.missing = @ \cup Y]
  PROVE  LifeInv'
<1>1. PICK f, g : f = reqs /\ g = reqs'
  OBVIOUS
<1>2. Leads(f, g, r, {"work", "missing"})
  BY <1>1, VerifyLeads, Zenon DEF Shaped, ReqsIn
<1> QED BY <1>1, <1>2, LeadKeeps

LEMMA GotKeeps ==
  ASSUME Shaped, LifeInv, NEW r \in DOMAIN reqs, NEW k, NEW x, Reading(r), Same,
         reqs' = [reqs EXCEPT ![r].got[k] = x]
  PROVE  LifeInv'
<1>1. PICK f, g : f = reqs /\ g = reqs'
  OBVIOUS
<1>2. Leads(f, g, r, {k})
  BY <1>1, OneLeads DEF Shaped, ReqsIn
<1> QED BY <1>1, <1>2, LeadKeeps

LEMMA Life_check_begin ==
  ASSUME Shaped, LifeInv, NEW r \in DOMAIN reqs, check_begin(r)
  PROVE  LifeInv' /\ Same
<1>1. Same
  BY SameIf DEF check_begin, Kept, Aside
<1>2. PICK g : /\ Keep(r, "chk_stores", g)
               /\ g = [repos |-> list_repos, repo |-> None, listed |-> {}, stores |-> {}, filter |-> {}, work |-> {}, missing |-> {},
                       paths |-> {}, dels |-> {}, moves |-> {}, applied |-> FALSE, moved |-> {}, lost |-> {x \in Lost : x.repo \in list_repos}]
  BY DEF check_begin
<1>3. CheckFields \subseteq DOMAIN g
  BY <1>2 DEF CheckFields
<1>4. Turns(r, "chk_stores") /\ reqs'[r].got = g
  BY <1>2, KeepTurns DEF Shaped
<1>5. PlanFits(r)'
  BY <1>3, <1>4, PlainPlan DEF PlanPcs, FixPcs
<1> QED BY <1>1, <1>4, <1>5, PlanKeeps DEF PlanPcs

LEMMA KeepPlain ==
  ASSUME Shaped, LifeInv, NEW r \in DOMAIN reqs, NEW g, NEW p, Keep(r, p, g), DOMAIN g = DOMAIN Ck(r), Same,
         reqs[r].pc \in {"chk_stores", "chk_scan"}, p \in {"chk_scan", "chk_records"}
  PROVE  LifeInv'
<1>1. Turns(r, p) /\ reqs'[r].got = g
  BY KeepTurns DEF Shaped
<1> QED BY <1>1, PlainKeeps DEF PlanPcs, FixPcs, Ck

LEMMA Life_list_stores ==
  ASSUME Shaped, LifeInv, NEW r \in DOMAIN reqs, list_stores(r)
  PROVE  LifeInv' /\ Same
<1>1. Same
  BY SameIf DEF list_stores, Risk
<1> DEFINE all == {s \in Stores : kv.stores[s] # None}
           g == [Ck(r) EXCEPT !.listed = all, !.stores = all]
<1>2. (Keep(r, "chk_scan", g) \/ Keep(r, "chk_scan", Ck(r))) /\ reqs[r].pc = "chk_stores"
  BY DEF list_stores, At
<1>3. DOMAIN g = DOMAIN Ck(r)
  OBVIOUS
<1> HIDE DEF g
<1> QED BY <1>1, <1>2, <1>3, KeepPlain

LEMMA Life_scan_all_blobs ==
  ASSUME Shaped, LifeInv, NEW r \in DOMAIN reqs, scan_all_blobs(r)
  PROVE  LifeInv' /\ Same
<1>1. Same
  BY SameIf DEF scan_all_blobs, Risk
<1>2. Reading(r)
  BY DEF scan_all_blobs, At, Reading
<1>3. \/ \E s, ids : Listed1(r, s, ids)
      \/ \E s : reqs' = [reqs EXCEPT ![r].got.stores = @ \ {s}]
  BY DEF scan_all_blobs
<1>4. ASSUME NEW s, NEW ids, Listed1(r, s, ids)
      PROVE  LifeInv'
  BY <1>1, <1>2, <1>4, ScanStoreKeeps, Zenon DEF Listed1
<1>5. ASSUME NEW s, reqs' = [reqs EXCEPT ![r].got.stores = @ \ {s}]
      PROVE  LifeInv'
  BY <1>1, <1>2, <1>5, GotKeeps
<1> QED BY <1>1, <1>3, <1>4, <1>5

LEMMA Life_scan_ends ==
  ASSUME Shaped, LifeInv, NEW r \in DOMAIN reqs, scan_ends(r)
  PROVE  LifeInv' /\ Same
<1>1. Same
  BY SameIf DEF scan_ends, Kept, Aside
<1> DEFINE g == [Ck(r) EXCEPT !.stores = Ck(r).listed]
<1>2. Keep(r, "chk_records", g) /\ reqs[r].pc = "chk_scan"
  BY DEF scan_ends, At
<1>3. DOMAIN g = DOMAIN Ck(r)
  OBVIOUS
<1> HIDE DEF g
<1> QED BY <1>1, <1>2, <1>3, KeepPlain

LEMMA Life_scan_records ==
  ASSUME Shaped, LifeInv, NEW r \in DOMAIN reqs, scan_records(r)
  PROVE  LifeInv' /\ Same
<1>1. Same
  BY SameIf DEF scan_records
<1>2. Reading(r)
  BY DEF scan_records, At, Reading
<1>3. PICK s : \/ reqs' = [reqs EXCEPT ![r].got.stores = @ \ {s}, ![r].got.work = {b \in kv.recs : b.store = s}]
               \/ reqs' = [reqs EXCEPT ![r].got.stores = @ \ {s}]
  BY Zenon DEF scan_records
<1>4. CASE reqs' = [reqs EXCEPT ![r].got.stores = @ \ {s}, ![r].got.work = {b \in kv.recs : b.store = s}]
  BY <1>1, <1>2, <1>4, ScanRecordsKeeps, Zenon
<1>5. CASE reqs' = [reqs EXCEPT ![r].got.stores = @ \ {s}]
  BY <1>1, <1>2, <1>5, GotKeeps
<1> QED BY <1>1, <1>3, <1>4, <1>5

LEMMA Life_verify_blob ==
  ASSUME Shaped, LifeInv, NEW r \in DOMAIN reqs, verify_blob(r)
  PROVE  LifeInv' /\ Same
<1>1. Same
  BY SameIf, Zenon DEF verify_blob, Kept, Aside
<1>2. Reading(r)
  BY Zenon DEF verify_blob, At, Reading
<1>3. PICK b, Y : reqs' = [reqs EXCEPT ![r].got.work = @ \ {b}, ![r].got.missing = @ \cup Y]
  BY DEF verify_blob
<1> QED BY <1>1, <1>2, <1>3, VerifyKeeps, Zenon

LEMMA Life_delete_blob_counted ==
  ASSUME Shaped, LifeInv, NEW r \in DOMAIN reqs, delete_blob_counted(r)
  PROVE  LifeInv' /\ Same
<1>1. SameKv
  <2>1. kv' = kv \/ \E x : kv' = [kv EXCEPT !["recs"] = x]
    BY DEF delete_blob_counted
  <2> QED BY <2>1, KvIsSame, SetOther
<1>2. Same
  BY <1>1 DEF Same, delete_blob_counted, Kept, Aside
<1>3. Reading(r)
  BY DEF delete_blob_counted, At, Reading
<1>4. \/ \E x : reqs' = [reqs EXCEPT ![r].got["missing"] = x]
      \/ Goto(r, "chk_repo")
  BY DEF delete_blob_counted, Found
<1>5. CASE Goto(r, "chk_repo")
  <2>1. Turns(r, "chk_repo") /\ reqs'[r].got = reqs[r].got
    BY <1>5, GotoTurns DEF Shaped
  <2> QED BY <1>2, <1>3, <2>1, PlainKeeps DEF PlanPcs, FixPcs, Reading
<1>6. ASSUME NEW x, reqs' = [reqs EXCEPT ![r].got["missing"] = x]
      PROVE  LifeInv'
  BY <1>2, <1>3, <1>6, GotKeeps
<1> QED BY <1>2, <1>4, <1>5, <1>6

-----------------------------------------------------------------------------
(* Lists of operations.                                                     *)

LEMMA FiniteRange ==
  ASSUME NEW f, IsFiniteSet(DOMAIN f)
  PROVE  IsFiniteSet({f[x] : x \in DOMAIN f})
<1> DEFINE T == {f[x] : x \in DOMAIN f}
           g == [x \in DOMAIN f |-> f[x]]
<1>1. g \in Surjection(DOMAIN f, T)
  BY DEF Surjection
<1> HIDE DEF g, T
<1>2. IsFiniteSet(T)
  BY <1>1, FS_Surjection, Zenon
<1> QED BY <1>2 DEF T

LEMMA FinitePaths ==
  ASSUME NEW S, IsFiniteSet(S)
  PROVE  IsFiniteSet({x.path : x \in S})
<1> DEFINE f == [x \in S |-> x.path]
<1>1. {f[x] : x \in DOMAIN f} = {x.path : x \in S} /\ DOMAIN f = S
  OBVIOUS
<1> HIDE DEF f
<1> QED BY <1>1, FiniteRange

LEMMA ListOf ==
  ASSUME NEW S, IsFiniteSet(S)
  PROVE  /\ Len(SetToSeq(S)) \in Nat
         /\ \A k \in 1 .. Len(SetToSeq(S)) : SetToSeq(S)[k] \in S
<1>1. Cardinality(S) \in Nat /\ ExistsBijection(1 .. Cardinality(S), S)
  BY FS_CardinalityType, Zenon
<1>2. \E f \in [1 .. Cardinality(S) -> S] : IsInjective(f)
  BY <1>1 DEF ExistsBijection, Bijection, Injection
<1>3. SetToSeq(S) \in [1 .. Cardinality(S) -> S]
  BY <1>2 DEF SetToSeq
<1>4. SetToSeq(S) \in Seq(S) /\ Len(SetToSeq(S)) = Cardinality(S)
  BY <1>1, <1>3
<1> QED BY <1>1, <1>3, <1>4

LEMMA TodoOf ==
  ASSUME NEW n, NEW f, NEW m \in Nat, f = [k \in 1 .. m |-> f[k]], \A k \in 1 .. m : OpFits(f[k], n)
  PROVE  TodoFits(f, n)
<1> DEFINE S == {f[k] : k \in 1 .. m}
<1>1. f \in [1 .. m -> S]
  OBVIOUS
<1>2. f \in Seq(S)
  BY <1>1
<1>3. \A o \in S : OpFits(o, n)
  OBVIOUS
<1> QED BY <1>2, <1>3 DEF TodoFits

LEMMA TodoNone ==
  ASSUME NEW n
  PROVE  TodoFits(<<>>, n)
<1> DEFINE S == {}
<1>1. <<>> \in Seq(S) /\ \A o \in S : OpFits(o, n)
  OBVIOUS
<1> HIDE DEF S
<1> QED BY <1>1, Zenon DEF TodoFits

LEMMA TodoOne ==
  ASSUME NEW n, NEW o, OpFits(o, n)
  PROVE  TodoFits(<<o>>, n)
<1> DEFINE S == {o}
           a == <<o>>
<1>1. a \in Seq(S) /\ \A x \in S : OpFits(x, n)
  OBVIOUS
<1> HIDE DEF S
<1> QED BY <1>1, Zenon DEF TodoFits

LEMMA TodoBoth ==
  ASSUME NEW n, NEW a, NEW b, TodoFits(a, n), TodoFits(b, n)
  PROVE  TodoFits(a \o b, n)
<1>1. PICK S : a \in Seq(S) /\ \A o \in S : OpFits(o, n)
  BY DEF TodoFits
<1>2. PICK T : b \in Seq(T) /\ \A o \in T : OpFits(o, n)
  BY DEF TodoFits
<1> DEFINE U == S \cup T
<1>3. a \in Seq(U) /\ b \in Seq(U)
  BY <1>1, <1>2
<1>4. \A o \in U : OpFits(o, n)
  BY <1>1, <1>2
<1> HIDE DEF U
<1>5. a \o b \in Seq(U)
  BY <1>3, ConcatProperties
<1> QED BY <1>4, <1>5 DEF TodoFits

LEMMA TodoFirst ==
  ASSUME NEW n, NEW a, TodoFits(a, n), a # <<>>
  PROVE  OpFits(Head(a), n) /\ TodoFits(Tail(a), n)
<1>1. PICK S : a \in Seq(S) /\ \A o \in S : OpFits(o, n)
  BY DEF TodoFits
<1>2. Head(a) \in S /\ Tail(a) \in Seq(S)
  BY <1>1, HeadTailProperties
<1> QED BY <1>1, <1>2 DEF TodoFits

LEMMA TodoRest ==
  ASSUME NEW n, NEW a, TodoFits(a, n), NEW k \in {1, 2}
  PROVE  TodoFits(SubSeq(a, k + 1, Len(a)), n)
<1>1. PICK S : a \in Seq(S) /\ \A o \in S : OpFits(o, n)
  BY DEF TodoFits
<1>2. Len(a) \in Nat /\ \A i \in k + 1 .. Len(a) : a[i] \in S
  BY <1>1
<1>3. k + 1 \in Int /\ Len(a) \in Int
  BY <1>2
<1>4. SubSeq(a, k + 1, Len(a)) \in Seq(S)
  BY <1>2, <1>3, SubSeqProperties
<1> QED BY <1>1, <1>4 DEF TodoFits

LEMMA DeletesFit ==
  ASSUME NEW n, NEW S, IsFiniteSet(S), NEW why
  PROVE  TodoFits([k \in 1 .. Len(SetToSeq(S)) |-> Op("delete", SetToSeq(S)[k], None, why)], n)
<1> DEFINE f == [k \in 1 .. Len(SetToSeq(S)) |-> Op("delete", SetToSeq(S)[k], None, why)]
<1>1. Len(SetToSeq(S)) \in Nat
  BY ListOf
<1>2. \A k \in 1 .. Len(SetToSeq(S)) : OpFits(f[k], n)
  BY DEF OpFits, Op
<1>3. f = [k \in 1 .. Len(SetToSeq(S)) |-> f[k]]
  OBVIOUS
<1> HIDE DEF f
<1>4. TodoFits(f, n)
  BY <1>1, <1>2, <1>3, TodoOf
<1> QED BY <1>4 DEF f

LEMMA MovesFit ==
  ASSUME NEW n, NEW S, IsFiniteSet(S), \A x \in S : IsFile(x) /\ x.repo = n /\ x.path \in DOMAIN Normal
  PROVE  TodoFits([k \in 1 .. 2 * Len(SetToSeq(S)) |->
                     IF k % 2 = 1 THEN Op("delete", SetToSeq(S)[(k + 1) \div 2].path, None, "move")
                     ELSE Op("look", Normal[SetToSeq(S)[k \div 2].path], SetToSeq(S)[k \div 2], "move")], n)
<1> DEFINE s == SetToSeq(S)
           f == [k \in 1 .. 2 * Len(s) |->
                     IF k % 2 = 1 THEN Op("delete", s[(k + 1) \div 2].path, None, "move")
                     ELSE Op("look", Normal[s[k \div 2].path], s[k \div 2], "move")]
<1>1. Len(s) \in Nat /\ \A k \in 1 .. Len(s) : s[k] \in S
  BY ListOf
<1> HIDE DEF s
<1>2. ASSUME NEW k \in 1 .. 2 * Len(s)
      PROVE  OpFits(f[k], n)
  <2>1. CASE k % 2 = 1
    BY <2>1 DEF OpFits, Op
  <2>2. CASE k % 2 # 1
    <3>1. k \div 2 \in 1 .. Len(s)
      BY <1>1, <2>2
    <3>2. PICK x : x = s[k \div 2] /\ x \in S
      BY <1>1, <3>1
    <3>3. f[k] = Op("look", Normal[x.path], x, "move")
      BY <2>2, <3>2
    <3>4. Normal[x.path] \in AllPaths
      BY <3>2, ControlAssumption DEF AllPaths
    <3>5. IsFile(x) /\ x.repo = n
      BY <3>2
    <3> HIDE DEF f
    <3> QED BY <3>3, <3>4, <3>5 DEF OpFits, Op
  <2> QED BY <2>1, <2>2
<1>3. f = [k \in 1 .. 2 * Len(s) |-> f[k]] /\ 2 * Len(s) \in Nat
  BY <1>1
<1> HIDE DEF f
<1>4. TodoFits(f, n)
  BY <1>2, <1>3, TodoOf
<1> QED BY <1>4 DEF f, s

LEMMA ChartsFit ==
  ASSUME NEW n, NEW S, IsFiniteSet(S), \A x \in S : IsFile(x) /\ x.repo = n /\ x.path \in DOMAIN chart_path
  PROVE  TodoFits([k \in 1 .. 2 * Len(SetToSeq(S)) |->
                     IF k % 2 = 1 THEN Op("put", chart_path[SetToSeq(S)[(k + 1) \div 2].path], SetToSeq(S)[(k + 1) \div 2], "chart")
                     ELSE Op("delete", SetToSeq(S)[k \div 2].path, None, "chart")], n)
<1> DEFINE s == SetToSeq(S)
           f == [k \in 1 .. 2 * Len(s) |->
                     IF k % 2 = 1 THEN Op("put", chart_path[s[(k + 1) \div 2].path], s[(k + 1) \div 2], "chart")
                     ELSE Op("delete", s[k \div 2].path, None, "chart")]
<1>1. Len(s) \in Nat /\ \A k \in 1 .. Len(s) : s[k] \in S
  BY ListOf
<1> HIDE DEF s
<1>2. ASSUME NEW k \in 1 .. 2 * Len(s)
      PROVE  OpFits(f[k], n)
  <2>1. CASE k % 2 # 1
    BY <2>1 DEF OpFits, Op
  <2>2. CASE k % 2 = 1
    <3>1. (k + 1) \div 2 \in 1 .. Len(s)
      BY <1>1, <2>2
    <3>2. PICK x : x = s[(k + 1) \div 2] /\ x \in S
      BY <1>1, <3>1
    <3>3. f[k] = Op("put", chart_path[x.path], x, "chart")
      BY <2>2, <3>2
    <3>4. chart_path[x.path] \in AllPaths
      BY <3>2, ControlAssumption DEF AllPaths
    <3>5. IsFile(x) /\ x.repo = n
      BY <3>2
    <3> HIDE DEF f
    <3> QED BY <3>3, <3>4, <3>5 DEF OpFits, Op
  <2> QED BY <2>1, <2>2
<1>3. f = [k \in 1 .. 2 * Len(s) |-> f[k]] /\ 2 * Len(s) \in Nat
  BY <1>1
<1> HIDE DEF f
<1>4. TodoFits(f, n)
  BY <1>2, <1>3, TodoOf
<1> QED BY <1>4 DEF f, s

-----------------------------------------------------------------------------
(* The steps of a check that make or follow a list of operations.           *)

LEMMA TurnIs ==
  ASSUME NEW f, NEW g, f = reqs, g = reqs', NEW r, NEW p, Turn(f, g, r, p)
  PROVE  Turns(r, p)
BY DEF Turn, Turns, ReqsIn

LEMMA FixPlan ==
  ASSUME NEW r, NEW p, Turns(r, p), p \in FixPcs, CheckFields \subseteq DOMAIN reqs'[r].got,
         TodoFits(reqs'[r].todo, reqs'[r].got.repo)
  PROVE  PlanFits(r)' /\ p \in PlanPcs
BY DEF PlanFits, Turns, At, Ck, FixPcs, PlanPcs

LEMMA AtPlan ==
  ASSUME LifeInv, NEW r \in DOMAIN reqs, reqs[r].pc \in FixPcs
  PROVE  CheckFields \subseteq DOMAIN Ck(r) /\ TodoFits(reqs[r].todo, Ck(r).repo)
BY DEF LifeInv, Ready, PlanFits, FixPcs, PlanPcs

WithTodo(f, r, T) == [f EXCEPT ![r].todo = T]

LEMMA TodoSet ==
  ASSUME NEW f, NEW W, f \in [DOMAIN f -> Request(W)], NEW r \in DOMAIN f, NEW T, NEW g, g = WithTodo(f, r, T)
  PROVE  Turn(f, g, r, f[r].pc) /\ g[r].got = f[r].got /\ g[r].todo = T
<1>1. f[r] \in Request(W)
  OBVIOUS
<1>2. g[r].got = f[r].got /\ g[r].todo = T
  BY <1>1 DEF Request, WithTodo
<1>3. Turn(f, g, r, f[r].pc)
  BY FirstTurn DEF OtherFields, WithTodo
<1> QED BY <1>2, <1>3

\* What a check keeps when it has made its list.
Planned(f, r, X, T) == [f EXCEPT ![r].pc = "chk_fix", ![r].got.moved = @ \cup X, ![r].todo = T]
WithPlace(f, r, X, T) == [f EXCEPT ![r].pc = "chk_place", ![r].got.applied = FALSE, ![r].got.moved = @ \cup X, ![r].todo = T]

LEMMA PlanLeads ==
  ASSUME NEW f, NEW W, f \in [DOMAIN f -> Request(W)], NEW r \in DOMAIN f, NEW X, NEW T,
         NEW g, g = Planned(f, r, X, T)
  PROVE  Turn(f, g, r, "chk_fix") /\ SameBut(f[r].got, g[r].got, {"moved"}) /\ g[r].todo = T
<1> DEFINE f1 == [f EXCEPT ![r].pc = "chk_fix"]
           f2 == [f1 EXCEPT ![r].got.moved = @ \cup X]
           x2 == f1[r].got.moved \cup X
<1>1. f1 = [f EXCEPT ![r].pc = "chk_fix"]
  OBVIOUS
<1>2. f2 = [f1 EXCEPT ![r].got["moved"] = x2]
  OBVIOUS
<1>3. g = WithTodo(f2, r, T)
  BY DEF Planned, WithTodo
<1> HIDE DEF f1, f2, x2
<1>4. Turn(f, f1, r, "chk_fix")
  BY <1>1, FirstTurnPc DEF OtherFields
<1>5. f1[r].got = f[r].got
  BY <1>1 DEF Request
<1>6. PICK V : f1 \in [DOMAIN f1 -> Request(V)] /\ r \in DOMAIN f1
  BY <1>4 DEF Turn
<1>7. Leads(f1, f2, r, {"moved"})
  BY <1>2, <1>6, OneLeads
<1>8. PICK U : f2 \in [DOMAIN f2 -> Request(U)] /\ r \in DOMAIN f2
  BY <1>7 DEF Leads, Turn
<1>9. Turn(f2, g, r, f2[r].pc) /\ g[r].got = f2[r].got /\ g[r].todo = T
  BY <1>3, <1>8, TodoSet
<1>11. Turn(f, g, r, "chk_fix")
  BY <1>4, <1>7, <1>9 DEF Leads, Turn
<1> QED BY <1>5, <1>7, <1>9, <1>11 DEF Leads

LEMMA PlaceLeads ==
  ASSUME NEW f, NEW W, f \in [DOMAIN f -> Request(W)], NEW r \in DOMAIN f, NEW X, NEW T,
         NEW g, g = WithPlace(f, r, X, T)
  PROVE  Turn(f, g, r, "chk_place") /\ SameBut(f[r].got, g[r].got, {"applied", "moved"}) /\ g[r].todo = T
<1> DEFINE f1 == [f EXCEPT ![r].pc = "chk_place"]
           f2 == [f1 EXCEPT ![r].got.applied = FALSE]
           f3 == [f2 EXCEPT ![r].got.moved = @ \cup X]
           x3 == f2[r].got.moved \cup X
<1>1. f1 = [f EXCEPT ![r].pc = "chk_place"]
  OBVIOUS
<1>2. f2 = [f1 EXCEPT ![r].got["applied"] = FALSE]
  OBVIOUS
<1>3. f3 = [f2 EXCEPT ![r].got["moved"] = x3]
  OBVIOUS
<1>4. g = WithTodo(f3, r, T)
  BY ZenonT(60) DEF WithPlace, WithTodo
<1> HIDE DEF f1, f2, f3, x3
<1>5. Turn(f, f1, r, "chk_place")
  BY <1>1, FirstTurnPc DEF OtherFields
<1>6. f1[r].got = f[r].got
  BY <1>1 DEF Request
<1>7. PICK V : f1 \in [DOMAIN f1 -> Request(V)] /\ r \in DOMAIN f1
  BY <1>5 DEF Turn
<1>8. Leads(f1, f2, r, {"applied"})
  BY <1>2, <1>7, OneLeads
<1>9. PICK U : f2 \in [DOMAIN f2 -> Request(U)] /\ r \in DOMAIN f2
  BY <1>8 DEF Leads, Turn
<1>10. Leads(f2, f3, r, {"moved"})
  BY <1>3, <1>9, OneLeads
<1>11. {"applied"} \cup {"moved"} = {"applied", "moved"}
  OBVIOUS
<1>12. Leads(f1, f3, r, {"applied", "moved"})
  BY <1>8, <1>10, <1>11, BothLead
<1>13. PICK Y : f3 \in [DOMAIN f3 -> Request(Y)] /\ r \in DOMAIN f3
  BY <1>12 DEF Leads, Turn
<1>14. Turn(f3, g, r, f3[r].pc) /\ g[r].got = f3[r].got /\ g[r].todo = T
  BY <1>4, <1>13, TodoSet
<1>16. Turn(f, g, r, "chk_place")
  BY <1>5, <1>12, <1>14 DEF Leads, Turn
<1> QED BY <1>6, <1>12, <1>14, <1>16 DEF Leads

LEMMA TodoLeads ==
  ASSUME Shaped, NEW r \in DOMAIN reqs, NEW x, reqs' = [reqs EXCEPT ![r].todo = x]
  PROVE  Turns(r, reqs[r].pc) /\ reqs'[r].got = reqs[r].got /\ reqs'[r].todo = x
<1>1. PICK f, g : f = reqs /\ g = reqs'
  OBVIOUS
<1>2. PICK W : f \in [DOMAIN f -> Request(W)] /\ r \in DOMAIN f
  BY <1>1 DEF Shaped, ReqsIn
<1>3. g = [f EXCEPT ![r].todo = x]
  BY <1>1
<1>4. Turn(f, g, r, f[r].pc)
  BY <1>2, <1>3, FirstTurn DEF OtherFields
<1>5. f[r] \in Request(W)
  BY <1>2
<1>6. g[r].got = f[r].got /\ g[r].todo = x
  BY <1>2, <1>3, <1>5 DEF Request
<1> QED BY <1>1, <1>4, <1>6, TurnIs

\* An operation is done, or is followed by the next one on its path.
LEMMA PopFits ==
  ASSUME Shaped, LifeInv, NEW r \in DOMAIN reqs, reqs[r].pc \in FixPcs, NEW k \in {1, 2}, Pop(r, k)
  PROVE  \E p : Turns(r, p) /\ p \in PlanPcs /\ PlanFits(r)'
<1> DEFINE x == SubSeq(reqs[r].todo, k + 1, Len(reqs[r].todo))
<1>1. reqs' = [reqs EXCEPT ![r].todo = x]
  BY DEF Pop
<1>2. CheckFields \subseteq DOMAIN Ck(r) /\ TodoFits(x, Ck(r).repo)
  BY AtPlan, TodoRest
<1> HIDE DEF x
<1>3. Turns(r, reqs[r].pc) /\ reqs'[r].got = reqs[r].got /\ reqs'[r].todo = x
  BY <1>1, TodoLeads
<1> QED BY <1>2, <1>3, FixPlan DEF Ck

LEMMA ThenFits ==
  ASSUME Shaped, LifeInv, NEW r \in DOMAIN reqs, reqs[r].pc \in FixPcs, reqs[r].todo # <<>>, NEW op, Then(r, op),
         op \in {"look", "put", "put_entry"} => Head1(r).op \in {"look", "put", "put_entry"}
  PROVE  \E p : Turns(r, p) /\ p \in PlanPcs /\ PlanFits(r)'
<1> DEFINE o == [Head1(r) EXCEPT !.op = op]
           x == <<o>> \o Tail(reqs[r].todo)
           n == Ck(r).repo
<1>1. reqs' = [reqs EXCEPT ![r].todo = x]
  BY DEF Then, Head1
<1>2. OpFits(Head1(r), n) /\ TodoFits(Tail(reqs[r].todo), n) /\ CheckFields \subseteq DOMAIN Ck(r)
  BY AtPlan, TodoFirst DEF Head1
<1>3. OpFits(o, n)
  BY <1>2 DEF OpFits
<1> HIDE DEF o
<1>4. TodoFits(x, n)
  BY <1>2, <1>3, TodoOne, TodoBoth
<1> HIDE DEF x
<1>5. Turns(r, reqs[r].pc) /\ reqs'[r].got = reqs[r].got /\ reqs'[r].todo = x
  BY <1>1, TodoLeads
<1> QED BY <1>2, <1>4, <1>5, FixPlan DEF Ck

LEMMA Life_fix_look ==
  ASSUME Shaped, LifeInv, NEW r \in DOMAIN reqs, fix_look(r)
  PROVE  LifeInv' /\ Same
<1>1. Same
  BY SameIf DEF fix_look, Kept, Aside, Risk
<1>2. reqs[r].pc \in FixPcs /\ reqs[r].todo # <<>> /\ Head1(r).op = "look"
  BY DEF fix_look, Fixing, FixPcs
<1>3. Pop(r, 1) \/ Then(r, "put")
  BY DEF fix_look
<1>4. \E p : Turns(r, p) /\ p \in PlanPcs /\ PlanFits(r)'
  BY <1>2, <1>3, PopFits, ThenFits
<1> QED BY <1>1, <1>4, PlanKeeps

LEMMA Life_fix_fails ==
  ASSUME Shaped, LifeInv, NEW r \in DOMAIN reqs, fix_fails(r)
  PROVE  LifeInv' /\ Same
<1>1. Same
  BY SameIf DEF fix_fails, Risk
<1>2. reqs[r].pc \in FixPcs
  BY DEF fix_fails, Fixing, FixPcs
<1>3. Pop(r, 1) \/ Pop(r, 2)
  BY DEF fix_fails
<1>4. \E p : Turns(r, p) /\ p \in PlanPcs /\ PlanFits(r)'
  BY <1>2, <1>3, PopFits
<1> QED BY <1>1, <1>4, PlanKeeps

LEMMA FoldKeeps ==
  ASSUME Shaped, LifeInv, NEW r \in DOMAIN reqs, NEW g, Keep(r, "chk_tags", g), Same, CheckFields \subseteq DOMAIN g,
         IsFiniteSet(g.dels), IsFiniteSet(g.moves),
         \A x \in g.moves : IsFile(x) /\ x.repo = g.repo /\ x.path \in DOMAIN Normal
  PROVE  LifeInv'
<1>1. Turns(r, "chk_tags") /\ reqs'[r].got = g
  BY KeepTurns DEF Shaped
<1>2. PlanFits(r)'
  BY <1>1 DEF PlanFits, Turns, At, Ck, FixPcs
<1> QED BY <1>1, <1>2, PlanKeeps DEF PlanPcs

LEMMA Life_fold_all_artifacts ==
  ASSUME Shaped, LifeInv, NEW r \in DOMAIN reqs, fold_all_artifacts(r)
  PROVE  LifeInv' /\ Same
<1>1. Same
  BY SameIf DEF fold_all_artifacts, Risk
<1>2. CheckFields \subseteq DOMAIN Ck(r)
  BY DEF fold_all_artifacts, At, LifeInv, Ready, PlanFits, PlanPcs
<1>3. IsFiniteSet(kv.arts) /\ \A x \in kv.arts : IsFile(x)
  BY DEF LifeInv, FilesTyped
<1> DEFINE n == CHOOSE m \in Ck(r).repos : TRUE
           all == {x \in kv.arts : x.repo = n}
           lost == {y \in all : Dangling(r, y)}
           dels == {x.path : x \in lost}
           moves == {x \in all : x.path \in DOMAIN Normal}
           next == [Ck(r) EXCEPT !.repos = @ \ {n}, !.repo = n, !.applied = FALSE]
           read == [next EXCEPT !.paths = {x.path : x \in all}, !.dels = dels, !.moves = moves]
           none == [next EXCEPT !.paths = {}, !.dels = {}, !.moves = {}]
<1>4. Keep(r, "chk_tags", read) \/ Keep(r, "chk_tags", none)
  BY DEF fold_all_artifacts
<1>5. DOMAIN next = DOMAIN Ck(r) /\ next.repo = n
  BY <1>2 DEF CheckFields
<1>6. CheckFields \subseteq DOMAIN read /\ read.repo = n /\ read.dels = dels /\ read.moves = moves
  BY <1>2, <1>5 DEF CheckFields
<1>7. CheckFields \subseteq DOMAIN none /\ none.repo = n /\ none.dels = {} /\ none.moves = {}
  BY <1>2, <1>5 DEF CheckFields
<1>8. IsFiniteSet(dels) /\ IsFiniteSet(moves) /\ \A x \in moves : IsFile(x) /\ x.repo = n /\ x.path \in DOMAIN Normal
  <2>1. lost \subseteq kv.arts /\ moves \subseteq kv.arts
    OBVIOUS
  <2>2. \A x \in moves : IsFile(x) /\ x.repo = n /\ x.path \in DOMAIN Normal
    BY <1>3
  <2> HIDE DEF lost, moves
  <2>3. IsFiniteSet(lost) /\ IsFiniteSet(moves)
    BY <1>3, <2>1, FS_Subset
  <2> QED BY <2>2, <2>3, FinitePaths
<1> HIDE DEF n, dels, moves, read, none
<1>9. CASE Keep(r, "chk_tags", read)
  BY <1>1, <1>6, <1>8, <1>9, FoldKeeps
<1>10. CASE Keep(r, "chk_tags", none)
  <2>1. IsFiniteSet(none.dels) /\ IsFiniteSet(none.moves)
    BY <1>7, FS_EmptySet
  <2> QED BY <1>1, <1>7, <1>10, <2>1, FoldKeeps
<1> QED BY <1>1, <1>4, <1>9, <1>10

LEMMA PlanKeepsMoved ==
  ASSUME Shaped, LifeInv, NEW r \in DOMAIN reqs, reqs[r].pc \in PlanPcs, NEW X, NEW T, TodoFits(T, Ck(r).repo), Same,
         reqs' = Planned(reqs, r, X, T)
  PROVE  LifeInv'
<1>1. PICK f, g : f = reqs /\ g = reqs'
  OBVIOUS
<1>2. Turn(f, g, r, "chk_fix") /\ SameBut(f[r].got, g[r].got, {"moved"}) /\ g[r].todo = T
  <2>1. PICK W : f \in [DOMAIN f -> Request(W)] /\ r \in DOMAIN f
    BY <1>1 DEF Shaped, ReqsIn
  <2>2. g = Planned(f, r, X, T)
    BY <1>1
  <2> QED BY <2>1, <2>2, PlanLeads
<1>3. Turns(r, "chk_fix")
  BY <1>1, <1>2, TurnIs
<1>4. CheckFields \subseteq DOMAIN Ck(r)
  BY DEF LifeInv, Ready, PlanFits
<1>5. CheckFields \subseteq DOMAIN reqs'[r].got /\ reqs'[r].got.repo = Ck(r).repo
  BY <1>1, <1>2, <1>4 DEF SameBut, CheckFields, Ck
<1>6. PlanFits(r)' /\ "chk_fix" \in PlanPcs
  BY <1>1, <1>2, <1>3, <1>5, FixPlan DEF FixPcs
<1> QED BY <1>3, <1>6, PlanKeeps

LEMMA Life_docker_tags ==
  ASSUME Shaped, LifeInv, NEW r \in DOMAIN reqs, docker_tags(r)
  PROVE  LifeInv' /\ Same
<1>1. Same
  BY SameIf, Zenon DEF docker_tags, Kept, Aside
<1> DEFINE n == Ck(r).repo
           dels == Ck(r).dels
           tagged == {y \in kv.arts : /\ y.repo = n /\ y.path \in Tags
                                      /\ ManifestOf[y.path] \notin Ck(r).paths}
           tags == {x.path : x \in tagged}
           moves == {x \in Ck(r).moves : x.path \notin Ck(r).dels}
           D == [k \in 1 .. Len(SetToSeq(dels)) |-> Op("delete", SetToSeq(dels)[k], None, "lost")]
           E == [k \in 1 .. Len(SetToSeq(tags)) |-> Op("delete", SetToSeq(tags)[k], None, "tag")]
           F == [k \in 1 .. 2 * Len(SetToSeq(moves)) |->
                     IF k % 2 = 1 THEN Op("delete", SetToSeq(moves)[(k + 1) \div 2].path, None, "move")
                     ELSE Op("look", Normal[SetToSeq(moves)[k \div 2].path], SetToSeq(moves)[k \div 2], "move")]
<1>2. \E X : reqs' = Planned(reqs, r, X, IF ~Fixes(r) THEN <<>> ELSE D \o E \o F)
  BY Zenon DEF Planned, docker_tags, Each, Pairs
<1>3. /\ IsFiniteSet(dels) /\ IsFiniteSet(Ck(r).moves)
      /\ \A x \in Ck(r).moves : IsFile(x) /\ x.repo = n /\ x.path \in DOMAIN Normal
      /\ reqs[r].pc \in PlanPcs
  BY Zenon DEF docker_tags, At, LifeInv, Ready, PlanFits, PlanPcs
<1>4. IsFiniteSet(moves)
  <2>1. moves \subseteq Ck(r).moves
    OBVIOUS
  <2> QED BY <1>3, <2>1, FS_Subset
<1>5. IsFiniteSet(tags)
  <2>1. tagged \subseteq kv.arts /\ IsFiniteSet(kv.arts)
    BY DEF LifeInv, FilesTyped
  <2>2. IsFiniteSet(tagged)
    BY <2>1, FS_Subset
  <2> HIDE DEF tagged
  <2> QED BY <2>2, FinitePaths
<1>6. \A x \in moves : IsFile(x) /\ x.repo = n /\ x.path \in DOMAIN Normal
  BY <1>3
<1> HIDE DEF n, dels, tags, moves
<1>7. TodoFits(D, n) /\ TodoFits(E, n)
  BY <1>3, <1>5, DeletesFit
<1>8. TodoFits(F, n)
  BY <1>4, <1>6, MovesFit
<1> HIDE DEF D, E, F
<1>9. TodoFits(D \o E, n)
  BY <1>7, TodoBoth
<1>10. TodoFits((D \o E) \o F, n)
  BY <1>8, <1>9, TodoBoth
<1> DEFINE T == IF ~Fixes(r) THEN <<>> ELSE D \o E \o F
<1>11. TodoFits(T, Ck(r).repo)
  BY <1>10, TodoNone DEF n
<1>12. PICK X : reqs' = Planned(reqs, r, X, T)
  BY <1>2
<1> HIDE DEF T
<1> QED BY <1>1, <1>3, <1>11, <1>12, PlanKeepsMoved

LEMMA PlaceKeeps ==
  ASSUME Shaped, LifeInv, NEW r \in DOMAIN reqs, reqs[r].pc \in PlanPcs, NEW X, NEW T, TodoFits(T, Ck(r).repo), Same,
         reqs' = WithPlace(reqs, r, X, T)
  PROVE  LifeInv'
<1>1. PICK f, g : f = reqs /\ g = reqs'
  OBVIOUS
<1>2. Turn(f, g, r, "chk_place") /\ SameBut(f[r].got, g[r].got, {"applied", "moved"}) /\ g[r].todo = T
  <2>1. PICK W : f \in [DOMAIN f -> Request(W)] /\ r \in DOMAIN f
    BY <1>1 DEF Shaped, ReqsIn
  <2>2. g = WithPlace(f, r, X, T)
    BY <1>1
  <2> QED BY <2>1, <2>2, PlaceLeads
<1>3. Turns(r, "chk_place")
  BY <1>1, <1>2, TurnIs
<1>4. CheckFields \subseteq DOMAIN Ck(r)
  BY DEF LifeInv, Ready, PlanFits
<1>5. CheckFields \subseteq DOMAIN reqs'[r].got /\ reqs'[r].got.repo = Ck(r).repo
  BY <1>1, <1>2, <1>4 DEF SameBut, CheckFields, Ck
<1>6. PlanFits(r)' /\ "chk_place" \in PlanPcs
  BY <1>1, <1>2, <1>3, <1>5, FixPlan DEF FixPcs
<1> QED BY <1>3, <1>6, PlanKeeps

LEMMA Life_check_helm_canonicalization ==
  ASSUME Shaped, LifeInv, NEW r \in DOMAIN reqs, check_helm_canonicalization(r)
  PROVE  LifeInv' /\ Same
<1>1. SameKv
  <2>1. kv' = kv \/ \E x : kv' = [kv EXCEPT !["stale"] = x]
    BY DEF check_helm_canonicalization
  <2> QED BY <2>1, KvIsSame, SetOther
<1>2. Same
  BY <1>1 DEF Same, check_helm_canonicalization, Kept, Aside
<1>3. reqs[r].pc \in FixPcs /\ reqs[r].pc \in PlanPcs
  BY DEF check_helm_canonicalization, At, FixPcs, PlanPcs
<1>4. CASE Goto(r, "chk_repo")
  <2>1. Turns(r, "chk_repo") /\ reqs'[r].got = reqs[r].got
    BY <1>4, GotoTurns DEF Shaped
  <2> QED BY <1>2, <1>3, <2>1, PlainKeeps DEF PlanPcs, FixPcs
<1>5. CASE ~Goto(r, "chk_repo")
  <2> DEFINE n == Ck(r).repo
             plan == enumerate_legacy_chart_relocations(n)
             T == [k \in 1 .. 2 * Len(SetToSeq(plan)) |->
                     IF k % 2 = 1 THEN Op("put", chart_path[SetToSeq(plan)[(k + 1) \div 2].path], SetToSeq(plan)[(k + 1) \div 2], "chart")
                     ELSE Op("delete", SetToSeq(plan)[k \div 2].path, None, "chart")]
  <2>1. \E X : reqs' = WithPlace(reqs, r, X, T)
    BY <1>5, Zenon DEF WithPlace, check_helm_canonicalization, Pairs
  <2>2. IsFiniteSet(plan) /\ \A x \in plan : IsFile(x) /\ x.repo = n /\ x.path \in DOMAIN chart_path
    <3>1. plan \subseteq kv.arts /\ \A x \in plan : x.repo = n /\ x.path \in DOMAIN chart_path
      BY DEF enumerate_legacy_chart_relocations
    <3>2. IsFiniteSet(kv.arts) /\ \A x \in kv.arts : IsFile(x)
      BY DEF LifeInv, FilesTyped
    <3> HIDE DEF plan
    <3> QED BY <3>1, <3>2, FS_Subset
  <2> HIDE DEF n, plan
  <2>3. TodoFits(T, n)
    BY <2>2, ChartsFit
  <2> HIDE DEF T
  <2>4. TodoFits(T, Ck(r).repo)
    BY <2>3 DEF n
  <2> QED BY <1>2, <1>3, <2>1, <2>4, PlaceKeeps
<1> QED BY <1>2, <1>4, <1>5

-----------------------------------------------------------------------------
(* Files of one repository are written or deleted.                          *)

\* What is new was meant for the repository that is there.
Intended(x, n) == x.repo = n /\ (Exc' \/ (Shows(kv.repos[n]) /\ kv.repos[n].made = x.in))
Apart(S, T, n) == \A x : x.repo # n => (x \in S <=> x \in T)
Refiled(n) ==
    /\ NamesSame /\ drain' = drain /\ IsFiniteSet(kv'.arts)
    /\ Apart(kv'.arts, kv.arts, n) /\ Apart(kv'.tree, kv.tree, n)
    /\ \A x \in kv'.arts : x \in kv.arts \/ (IsFile(x) /\ Intended(x, n))
    /\ \A x \in kv'.tree : x \in kv.tree \/ (IsEntry(x) /\ Intended(x, n))

LEMMA RefiledRecords ==
  ASSUME RecordsInv, StoreInUse, NEW n, Refiled(n)
  PROVE  RecordsInv' /\ StoreInUse'
<1>1. (Wild' \/ NamesTyped') /\ StoreInUse'
  BY NamesStay DEF RecordsInv, Refiled
<1>2. FilesTyped'
  BY DEF RecordsInv, FilesTyped, Refiled, IsFile, IsEntry, AllPaths
<1>3. risk \subseteq risk' /\ kv'.repos = kv.repos
  BY DEF Refiled, NamesSame
<1>4. NewIsEmpty'
  <2> SUFFICES ASSUME ~Exc', NEW x \in kv'.arts \cup kv'.tree
               PROVE  kv.repos[x.repo] # None /\ kv.repos[x.repo].made = x.in
    BY <1>3 DEF NewIsEmpty, Exc
  <2>1. x \in kv.arts \cup kv.tree \/ Intended(x, n)
    BY DEF Refiled
  <2> QED BY <1>3, <2>1, RiskStays DEF RecordsInv, NewIsEmpty, Exc, Intended, Shows
<1>5. DrainFits'
  <2> SUFFICES ASSUME ~Exc', NEW d \in Drainers
               PROVE  DrainSafe(d)'
    BY DEF Refiled, RecordsInv, DrainFits
  <2>1. DrainSafe(d) /\ drain' = drain
    BY <1>3, RiskStays DEF Refiled, RecordsInv, DrainFits
  <2>2. \A m : (Draining(m) <=> Draining(m)') /\ (Draining(m) => ~Shows(kv.repos[m]))
    BY <1>3 DEF Draining, Shows
  <2>3. \A m : Draining(m) => \A x : x.repo = m => (x \in kv'.arts => x \in kv.arts) /\ (x \in kv'.tree => x \in kv.tree)
    BY <2>2 DEF Refiled, Intended
  <2> QED BY <2>1, <2>2, <2>3, SafeStays
<1> QED BY <1>1, <1>2, <1>4, <1>5 DEF RecordsInv

LEMMA RefiledPromised ==
  ASSUME RecordsInv, NEW n, Refiled(n)
  PROVE  Promised
<1> SUFFICES ASSUME ~Exc'
             PROVE  Promised
  BY DEF Promised
<1>1. ~Exc /\ kv'.repos = kv.repos
  BY RiskStays DEF Refiled, NamesSame
<1>2. \A m \in Repos : LifeOf(m)' = LifeOf(m)
  BY <1>1 DEF LifeOf
<1>3. \A m \in Repos \ {n} : Unchanged(m)
  <2> SUFFICES ASSUME NEW m \in Repos \ {n}
               PROVE  FilesOf(m)' = FilesOf(m)
    BY <1>2 DEF Unchanged
  <2>1. \A x : x.repo = m => (x \in kv'.arts \cup kv'.tree <=> x \in kv.arts \cup kv.tree)
    BY DEF Refiled, Apart
  <2>2. {y \in kv'.arts \cup kv'.tree : y.repo = m} = {y \in kv.arts \cup kv.tree : y.repo = m}
    BY <2>1
  <2> QED BY <2>2 DEF FilesOf
<1>4. CASE n \notin Repos
  BY <1>3, <1>4 DEF Promised
<1>5. CASE n \in Repos
  <2>1. LifeOf(n) = "live" \/ ~Shows(kv.repos[n])
    BY DEF LifeOf, Shows
  <2>2. CASE LifeOf(n) = "live"
    BY <1>2, <1>3, <1>5, <2>2 DEF Promised, Lives
  <2>3. CASE ~Shows(kv.repos[n])
    <3>1. FilesOf(n)' \subseteq FilesOf(n)
      BY <2>3 DEF FilesOf, Refiled, Intended
    <3>2. CASE LifeOf(n) = "absent"
      <4>1. FilesOf(n) = {}
        BY <1>1, <3>2 DEF LifeOf, FilesOf, RecordsInv, NewIsEmpty, Exc
      <4>2. Unchanged(n)
        BY <1>2, <1>5, <3>1, <4>1 DEF Unchanged
      <4> QED BY <1>3, <4>2 DEF Promised
    <3>3. CASE LifeOf(n) # "absent"
      <4>1. LifeOf(n) = "deleting"
        BY <2>3, <3>3 DEF LifeOf, Shows
      <4> QED BY <1>2, <1>3, <1>5, <3>1, <4>1 DEF Promised, Lives
    <3> QED BY <3>2, <3>3
  <2> QED BY <2>1, <2>2, <2>3
<1> QED BY <1>4, <1>5

LEMMA RefiledKeeps ==
  ASSUME LifeInv, NEW n, Refiled(n), NEW r \in DOMAIN reqs, NEW p, Turns(r, p), Ready(r)', UsesFit(r)'
  PROVE  LifeInv' /\ Promised /\ risk \subseteq risk'
<1>1. RecordsInv' /\ StoreInUse' /\ Promised
  BY RefiledRecords, RefiledPromised DEF LifeInv, RecordsInv
<1>2. risk \subseteq risk' /\ kv'.stores = kv.stores /\ kv'.repos = kv.repos
  BY DEF Refiled, NamesSame
<1>3. \A q \in DOMAIN reqs' : Ready(q)'
  BY <1>2, AllReady DEF LifeInv
<1>4. StoreFits'
  BY <1>2, AllUses DEF LifeInv
<1> QED BY <1>1, <1>2, <1>3, <1>4 DEF LifeInv, RecordsInv

LEMMA RefiledIdle ==
  ASSUME LifeInv, NEW n, Refiled(n), NEW r \in DOMAIN reqs, Idle(r)
  PROVE  LifeInv' /\ Promised /\ risk \subseteq risk'
BY IdleReady, RefiledKeeps

\* The records of files, or the entries, are others.
Around == drain' = drain /\ risk \subseteq risk'

LEMMA ArtsRefiled ==
  ASSUME Shaped, NEW n, NEW S, kv' = [kv EXCEPT !.arts = S], Around, IsFiniteSet(S), Apart(S, kv.arts, n),
         \A x \in S : x \in kv.arts \/ (IsFile(x) /\ Intended(x, n))
  PROVE  Refiled(n)
<1>1. kv'.repos = kv.repos /\ kv'.stores = kv.stores /\ kv'.tree = kv.tree /\ kv'.arts = S
  BY DEF Shaped, KvIn, Store
<1> QED BY <1>1 DEF Refiled, NamesSame, Around, Apart

LEMMA TreeRefiled ==
  ASSUME Shaped, LifeInv, NEW n, NEW T, kv' = [kv EXCEPT !.tree = T], Around, Apart(T, kv.tree, n),
         \A x \in T : x \in kv.tree \/ (IsEntry(x) /\ Intended(x, n))
  PROVE  Refiled(n)
<1>1. kv'.repos = kv.repos /\ kv'.stores = kv.stores /\ kv'.tree = T /\ kv'.arts = kv.arts
  BY DEF Shaped, KvIn, Store
<1> QED BY <1>1 DEF Refiled, NamesSame, Around, Apart, LifeInv, FilesTyped

LEMMA LessArts ==
  ASSUME Shaped, LifeInv, NEW n, NEW S, kv' = [kv EXCEPT !.arts = S], Around, S \subseteq kv.arts,
         \A x \in kv.arts \ S : x.repo = n
  PROVE  Refiled(n)
<1>1. IsFiniteSet(S)
  BY FS_Subset DEF LifeInv, FilesTyped
<1>2. Apart(S, kv.arts, n)
  BY DEF Apart
<1> QED BY <1>1, <1>2, ArtsRefiled

LEMMA LessTree ==
  ASSUME Shaped, LifeInv, NEW n, NEW T, kv' = [kv EXCEPT !.tree = T], Around, T \subseteq kv.tree,
         \A x \in kv.tree \ T : x.repo = n
  PROVE  Refiled(n)
<1>1. Apart(T, kv.tree, n)
  BY DEF Apart
<1> QED BY <1>1, TreeRefiled

LEMMA OneArt ==
  ASSUME Shaped, LifeInv, NEW n, NEW p, NEW y, kv' = [kv EXCEPT !.arts = (@ \ Of(@, n, p)) \cup {y}], Around, IsFile(y), Intended(y, n)
  PROVE  Refiled(n)
<1> DEFINE S == (kv.arts \ Of(kv.arts, n, p)) \cup {y}
<1>1. kv' = [kv EXCEPT !.arts = S]
  OBVIOUS
<1>2. Apart(S, kv.arts, n)
  BY DEF Apart, Of, Intended
<1>3. IsFiniteSet(S)
  <2>1. IsFiniteSet(kv.arts \ Of(kv.arts, n, p))
    BY FS_Subset DEF LifeInv, FilesTyped
  <2> QED BY <2>1, FS_AddElement
<1>4. \A x \in S : x \in kv.arts \/ (IsFile(x) /\ Intended(x, n))
  OBVIOUS
<1> HIDE DEF S
<1> QED BY <1>1, <1>2, <1>3, <1>4, ArtsRefiled

LEMMA OneEntry ==
  ASSUME Shaped, LifeInv, NEW n, NEW p, NEW y, kv' = [kv EXCEPT !.tree = (@ \ Of(@, n, p)) \cup {y}], Around, IsEntry(y), Intended(y, n)
  PROVE  Refiled(n)
<1> DEFINE T == (kv.tree \ Of(kv.tree, n, p)) \cup {y}
<1>1. kv' = [kv EXCEPT !.tree = T]
  OBVIOUS
<1>2. Apart(T, kv.tree, n)
  BY DEF Apart, Of, Intended
<1>4. \A x \in T : x \in kv.tree \/ (IsEntry(x) /\ Intended(x, n))
  OBVIOUS
<1> HIDE DEF T
<1> QED BY <1>1, <1>2, <1>4, TreeRefiled

\* A file for the repository that it was meant for, or a step that is counted as late.
LEMMA MeantIntended ==
  ASSUME NEW g, NEW x, NEW X, Risk(X \cup IF Meant(g) THEN {} ELSE {"late"}), x.repo = g.repo, x.in = g.in
  PROVE  Intended(x, g.repo)
BY DEF Risk, Meant, Intended, Exc, Except

LEMMA PathOfPut ==
  ASSUME RequestsFit, NEW r \in DOMAIN reqs, Kind(r) = "put"
  PROVE  To(r) \in AllPaths
BY ControlAssumption DEF RequestsFit, Kind, To, AllPaths

LEMMA Life_put_record ==
  ASSUME Shaped, RequestsFit, LifeInv, NEW r \in DOMAIN reqs, put_record(r)
  PROVE  LifeInv' /\ Promised /\ risk \subseteq risk'
<1> DEFINE g == reqs[r].got
           y == [repo |-> g.repo, path |-> To(r), by |-> r, in |-> g.in, id |-> BlobId(g.repo, To(r), r)]
<1>1. kv' = [kv EXCEPT !.arts = (@ \ Of(@, g.repo, To(r))) \cup {y}]
  BY DEF put_record
<1>2. Kind(r) = "put"
  BY DEF put_record, LifeInv, Ready, StepFits, Owner, At
<1>3. Risk((Overlap(r) \cup During) \cup IF Meant(g) THEN {} ELSE {"late"}) /\ Around
  BY DEF put_record, Risk, Kept, Aside, Around
<1>4. y.repo = g.repo /\ y.in = g.in /\ y.path = To(r)
  OBVIOUS
<1>5. IsFile(y)
  BY <1>2, <1>4, PathOfPut DEF IsFile
<1> HIDE DEF y, g
<1>6. Intended(y, g.repo)
  BY <1>3, <1>4, MeantIntended
<1>7. Refiled(g.repo)
  BY <1>1, <1>3, <1>5, <1>6, OneArt
<1> QED BY <1>7, Idle_put_record, RefiledIdle

LEMMA Life_upsert_tree_file ==
  ASSUME Shaped, RequestsFit, LifeInv, NEW r \in DOMAIN reqs, upsert_tree_file(r)
  PROVE  LifeInv' /\ Promised /\ risk \subseteq risk'
<1> DEFINE g == reqs[r].got
           y == [repo |-> g.repo, path |-> To(r), in |-> g.in]
<1>1. kv' = [kv EXCEPT !.tree = (@ \ Of(@, g.repo, To(r))) \cup {y}]
  BY DEF upsert_tree_file
<1>2. Kind(r) = "put"
  BY DEF upsert_tree_file
<1>3. Risk(Overlap(r) \cup IF Meant(g) THEN {} ELSE {"late"}) /\ Around
  BY DEF upsert_tree_file, Risk, Kept, Aside, Around
<1>4. y.repo = g.repo /\ y.in = g.in /\ y.path = To(r)
  OBVIOUS
<1>5. IsEntry(y)
  BY <1>2, <1>4, PathOfPut DEF IsEntry
<1> HIDE DEF y, g
<1>6. Intended(y, g.repo)
  BY <1>3, <1>4, MeantIntended
<1>7. Refiled(g.repo)
  BY <1>1, <1>3, <1>5, <1>6, OneEntry
<1> QED BY <1>7, Idle_upsert_tree_file, RefiledIdle

LEMMA Life_delete_record ==
  ASSUME Shaped, LifeInv, NEW r \in DOMAIN reqs, delete_record(r)
  PROVE  LifeInv' /\ Promised /\ risk \subseteq risk'
<1>1. Idle(r) /\ Around
  BY Idle_delete_record DEF delete_record, Around, Kept, Aside, Risk
<1>2. CASE kv' = kv
  <2>1. Same
    BY <1>1, <1>2, SameIf DEF Around
  <2> QED BY <1>1, <2>1, IdleKeeps, SamePromised DEF Around
<1>3. CASE kv' # kv
  <2> DEFINE n == Head(reqs[r].todo)
             S == kv.arts \ Of(kv.arts, n, To(r))
  <2>1. kv' = [kv EXCEPT !.arts = S]
    BY <1>3 DEF delete_record
  <2>2. S \subseteq kv.arts /\ \A x \in kv.arts \ S : x.repo = n
    BY DEF Of
  <2> HIDE DEF S, n
  <2> QED BY <1>1, <2>1, <2>2, LessArts, RefiledIdle
<1> QED BY <1>2, <1>3

LEMMA Life_delete_tree_file ==
  ASSUME Shaped, LifeInv, NEW r \in DOMAIN reqs, delete_tree_file(r)
  PROVE  LifeInv' /\ Promised /\ risk \subseteq risk'
<1>1. Idle(r) /\ Around
  BY Idle_delete_tree_file, Zenon DEF delete_tree_file, Around, Kept, Aside, Risk
<1> DEFINE n == Head(reqs[r].todo)
           T == kv.tree \ Of(kv.tree, n, To(r))
<1>2. kv' = [kv EXCEPT !.tree = T]
  BY DEF delete_tree_file
<1>3. T \subseteq kv.tree /\ \A x \in kv.tree \ T : x.repo = n
  BY DEF Of
<1> HIDE DEF T, n
<1> QED BY <1>1, <1>2, <1>3, LessTree, RefiledIdle

LEMMA Life_delete_tree_recursive ==
  ASSUME Shaped, LifeInv, NEW r \in DOMAIN reqs, delete_tree_recursive(r)
  PROVE  LifeInv' /\ Promised /\ risk \subseteq risk'
<1>1. Idle(r) /\ Around
  BY Idle_delete_tree_recursive DEF delete_tree_recursive, Around, Kept, Aside, Risk
<1> DEFINE n == Head(reqs[r].todo)
           T == {x \in kv.tree : x.repo # n \/ x.path \notin Under}
<1>2. kv' = [kv EXCEPT !.tree = T]
  BY DEF delete_tree_recursive
<1>3. T \subseteq kv.tree /\ \A x \in kv.tree \ T : x.repo = n
  OBVIOUS
<1> HIDE DEF T, n
<1> QED BY <1>1, <1>2, <1>3, LessTree, RefiledIdle

LEMMA Life_delete_prefix_artifacts ==
  ASSUME Shaped, LifeInv, NEW r \in DOMAIN reqs, delete_prefix_artifacts(r)
  PROVE  LifeInv' /\ Promised /\ risk \subseteq risk'
<1>1. Idle(r) /\ Around
  BY Idle_delete_prefix_artifacts, Zenon DEF delete_prefix_artifacts, Around, Kept, Aside, Risk
<1> DEFINE n == Head(reqs[r].todo)
           S == {x \in kv.arts : x.repo # n \/ ~HasPrefix(x.path)}
<1>2. kv' = [kv EXCEPT !.arts = S]
  BY DEF delete_prefix_artifacts
<1>3. S \subseteq kv.arts /\ \A x \in kv.arts \ S : x.repo = n
  OBVIOUS
<1> HIDE DEF S, n
<1> QED BY <1>1, <1>2, <1>3, LessArts, RefiledIdle

LEMMA LessTreeTask ==
  ASSUME Shaped, LifeInv, NEW n, NEW T, NEW r, NEW y, kv' = [kv EXCEPT !.tree = T, !.tasks[r] = y], Around, T \subseteq kv.tree,
         \A x \in kv.tree \ T : x.repo = n
  PROVE  Refiled(n)
<1>1. kv'.repos = kv.repos /\ kv'.stores = kv.stores /\ kv'.tree = T /\ kv'.arts = kv.arts
  BY DEF Shaped, KvIn, Store
<1> QED BY <1>1 DEF Refiled, NamesSame, Around, Apart, LifeInv, FilesTyped

LEMMA Life_delete_artifacts_paired_batch ==
  ASSUME Shaped, LifeInv, NEW r \in DOMAIN reqs, delete_artifacts_paired_batch(r)
  PROVE  LifeInv' /\ Promised /\ risk \subseteq risk'
<1>1. Idle(r) /\ Around
  BY Idle_delete_artifacts_paired_batch, Zenon DEF delete_artifacts_paired_batch, Around, Kept, Aside, Risk
<1> DEFINE n == On(r)
           S == kv.arts \ AtPaths(kv.arts, r)
           T == kv.tree \ AtPaths(kv.tree, r)
<1>2. kv' = [kv EXCEPT !.arts = S] \/ kv' = [kv EXCEPT !.tree = T, !.tasks[r] = "completed"]
  BY DEF delete_artifacts_paired_batch
<1>3. /\ S \subseteq kv.arts /\ \A x \in kv.arts \ S : x.repo = n
      /\ T \subseteq kv.tree /\ \A x \in kv.tree \ T : x.repo = n
  BY DEF AtPaths
<1> HIDE DEF S, T, n
<1>4. CASE kv' = [kv EXCEPT !.arts = S]
  BY <1>1, <1>3, <1>4, LessArts, RefiledIdle
<1>5. CASE kv' = [kv EXCEPT !.tree = T, !.tasks[r] = "completed"]
  BY <1>1, <1>3, <1>5, LessTreeTask, RefiledIdle, Zenon
<1> QED BY <1>2, <1>4, <1>5

\* A page of records is copied from one repository to another.
LEMMA PagedFiles ==
  ASSUME NEW X, NEW n, NEW m, NEW p, NEW r, NEW S, S = Paged(X, n, m, p, r), \A x \in X : IsFile(x)
  PROVE  /\ Apart(S, X, m)
         /\ \A x \in S : x \in X \/ (IsFile(x) /\ x.repo = m /\ x.in = r)
         /\ IsFiniteSet(X) => IsFiniteSet(S)
<1> DEFINE O == Of(X, n, p)
           copy == [x \in O |-> [x EXCEPT !.repo = m, !.in = r]]
           C == {copy[x] : x \in DOMAIN copy}
           D == X \ Of(X, m, p)
<1>1. S = X \/ S = D \cup C
  BY Zenon DEF Paged
<1>2. \A x \in C : IsFile(x) /\ x.repo = m /\ x.in = r
  <2> SUFFICES ASSUME NEW x \in O
               PROVE  IsFile(copy[x]) /\ copy[x].repo = m /\ copy[x].in = r
    BY Zenon
  <2>1. x = [repo |-> x.repo, path |-> x.path, by |-> x.by, in |-> x.in, id |-> x.id] /\ x.path \in AllPaths
    BY DEF IsFile, Of
  <2>2. copy[x] = [repo |-> m, path |-> x.path, by |-> x.by, in |-> r, id |-> x.id]
    BY <2>1
  <2> HIDE DEF copy
  <2> QED BY <2>1, <2>2 DEF IsFile
<1>3. D \subseteq X /\ \A x \in X \ D : x.repo = m
  BY DEF Of
<1>4. IsFiniteSet(X) => IsFiniteSet(D \cup C)
  <2> SUFFICES ASSUME IsFiniteSet(X)
               PROVE  IsFiniteSet(D \cup C)
    BY Zenon
  <2>1. O \subseteq X /\ DOMAIN copy = O
    BY DEF Of
  <2> HIDE DEF O, copy, D
  <2>2. IsFiniteSet(O) /\ IsFiniteSet(D)
    BY <1>3, <2>1, FS_Subset
  <2>3. IsFiniteSet(C)
    BY <2>1, <2>2, FiniteRange
  <2> QED BY <2>2, <2>3, FS_Union
<1> HIDE DEF C, D
<1>5. Apart(S, X, m)
  BY <1>1, <1>2, <1>3 DEF Apart
<1> QED BY <1>1, <1>2, <1>3, <1>4, <1>5

LEMMA PagedEntries ==
  ASSUME NEW X, NEW n, NEW m, NEW p, NEW r, NEW S, S = Paged(X, n, m, p, r), \A x \in X : IsEntry(x)
  PROVE  /\ Apart(S, X, m)
         /\ \A x \in S : x \in X \/ (IsEntry(x) /\ x.repo = m /\ x.in = r)
<1> DEFINE C == {[x EXCEPT !.repo = m, !.in = r] : x \in Of(X, n, p)}
           D == X \ Of(X, m, p)
<1>1. S = X \/ S = D \cup C
  BY Zenon DEF Paged
<1>2. \A x \in C : IsEntry(x) /\ x.repo = m /\ x.in = r
  <2> SUFFICES ASSUME NEW x \in X, NEW y, y = [x EXCEPT !.repo = m, !.in = r]
               PROVE  IsEntry(y) /\ y.repo = m /\ y.in = r
    BY Zenon DEF Of
  <2>1. x = [repo |-> x.repo, path |-> x.path, in |-> x.in] /\ x.path \in AllPaths
    BY DEF IsEntry
  <2>2. y = [repo |-> m, path |-> x.path, in |-> r]
    BY <2>1
  <2> QED BY <2>1, <2>2 DEF IsEntry
<1>3. D \subseteq X /\ \A x \in X \ D : x.repo = m
  BY DEF Of
<1> HIDE DEF C, D
<1> QED BY <1>1, <1>2, <1>3 DEF Apart

LEMMA Life_copy_partition ==
  ASSUME Shaped, LifeInv, NEW r \in DOMAIN reqs, copy_partition(r)
  PROVE  LifeInv' /\ Promised /\ risk \subseteq risk'
<1>1. Idle(r) /\ Around
  BY Idle_copy_partition DEF copy_partition, Around, Kept, Aside, Risk
<1>2. PICK p : \/ kv' = [kv EXCEPT !.arts = Paged(kv.arts, On(r), To(r), p, r)]
               \/ kv' = [kv EXCEPT !.tree = Paged(kv.tree, On(r), To(r), p, r)]
  BY DEF copy_partition
<1>3. \A x : x.repo = To(r) /\ x.in = r => Intended(x, To(r))
  BY DEF copy_partition, Risk, Late, Intended, Exc, Except
<1>4. IsFiniteSet(kv.arts) /\ (\A x \in kv.arts : IsFile(x)) /\ (\A x \in kv.tree : IsEntry(x))
  BY DEF LifeInv, FilesTyped
<1>5. CASE kv' = [kv EXCEPT !.arts = Paged(kv.arts, On(r), To(r), p, r)]
  <2>1. PICK S : S = Paged(kv.arts, On(r), To(r), p, r)
    OBVIOUS
  <2>2. /\ Apart(S, kv.arts, To(r)) /\ IsFiniteSet(S)
        /\ \A x \in S : x \in kv.arts \/ (IsFile(x) /\ x.repo = To(r) /\ x.in = r)
    BY <1>4, <2>1, PagedFiles
  <2>3. kv' = [kv EXCEPT !.arts = S]
    BY <1>5, <2>1
  <2>4. Refiled(To(r))
    BY <1>1, <1>3, <2>2, <2>3, ArtsRefiled
  <2> QED BY <1>1, <2>4, RefiledIdle
<1>6. CASE kv' = [kv EXCEPT !.tree = Paged(kv.tree, On(r), To(r), p, r)]
  <2>1. PICK T : T = Paged(kv.tree, On(r), To(r), p, r)
    OBVIOUS
  <2>2. /\ Apart(T, kv.tree, To(r))
        /\ \A x \in T : x \in kv.tree \/ (IsEntry(x) /\ x.repo = To(r) /\ x.in = r)
    BY <1>4, <2>1, PagedEntries
  <2>3. kv' = [kv EXCEPT !.tree = T]
    BY <1>6, <2>1
  <2>4. Refiled(To(r))
    BY <1>1, <1>3, <2>2, <2>3, TreeRefiled
  <2> QED BY <1>1, <2>4, RefiledIdle
<1> QED BY <1>2, <1>5, <1>6

\* A check is ready for what follows on its list.
PlannedOn(r) == \E p : Turns(r, p) /\ p \in PlanPcs /\ PlanFits(r)'

LEMMA RefiledPlan ==
  ASSUME LifeInv, NEW n, Refiled(n), NEW r \in DOMAIN reqs, PlannedOn(r)
  PROVE  LifeInv' /\ Promised /\ risk \subseteq risk'
<1>1. PICK p : Turns(r, p) /\ p \in PlanPcs /\ PlanFits(r)'
  BY DEF PlannedOn
<1>2. reqs'[r].pc = p
  BY <1>1 DEF Turns
<1>3. Ready(r)'
  BY <1>1, <1>2 DEF Ready, StepFits, Owner, HasRecord, Rewrites, At, PlanPcs
<1>4. UsesFit(r)'
  BY <1>1, <1>2 DEF UsesFit, Rewrites, At, PlanPcs
<1> QED BY <1>1, <1>3, <1>4, RefiledKeeps

LEMMA Life_fix_delete ==
  ASSUME Shaped, LifeInv, NEW r \in DOMAIN reqs, fix_delete(r)
  PROVE  LifeInv' /\ Promised /\ risk \subseteq risk'
<1>1. reqs[r].pc \in FixPcs /\ reqs[r].todo # <<>> /\ Around
  BY DEF fix_delete, Fixing, FixPcs, Around, Kept, Aside, Risk
<1>2. Pop(r, 1) \/ Then(r, "delete_entry")
  BY DEF fix_delete
<1>3. PlannedOn(r)
  BY <1>1, <1>2, PopFits, ThenFits DEF PlannedOn
<1> DEFINE n == Ck(r).repo
           S == kv.arts \ Of(kv.arts, n, Head1(r).path)
           T == kv.tree \ Of(kv.tree, n, Head1(r).path)
<1>4. kv' = kv \/ kv' = [kv EXCEPT !.arts = S] \/ kv' = [kv EXCEPT !.tree = T]
  BY DEF fix_delete
<1>5. /\ S \subseteq kv.arts /\ \A x \in kv.arts \ S : x.repo = n
      /\ T \subseteq kv.tree /\ \A x \in kv.tree \ T : x.repo = n
  BY DEF Of
<1> HIDE DEF S, T, n
<1>6. CASE kv' = kv
  <2>1. Same
    BY <1>1, <1>6, SameIf DEF Around
  <2> QED BY <1>1, <1>3, <2>1, PlanKeeps, SamePromised DEF PlannedOn, Around
<1>7. CASE kv' = [kv EXCEPT !.arts = S]
  BY <1>1, <1>3, <1>5, <1>7, LessArts, RefiledPlan
<1>8. CASE kv' = [kv EXCEPT !.tree = T]
  BY <1>1, <1>3, <1>5, <1>8, LessTree, RefiledPlan
<1> QED BY <1>4, <1>6, <1>7, <1>8

Placing(f, r) == [f EXCEPT ![r].todo = Tail(@), ![r].got.applied = TRUE]

LEMMA PlacingLeads ==
  ASSUME NEW f, NEW W, f \in [DOMAIN f -> Request(W)], NEW r \in DOMAIN f, NEW g, g = Placing(f, r)
  PROVE  Turn(f, g, r, f[r].pc) /\ SameBut(f[r].got, g[r].got, {"applied"}) /\ g[r].todo = Tail(f[r].todo)
<1> DEFINE T == Tail(f[r].todo)
           f1 == WithTodo(f, r, T)
<1>1. g = [f1 EXCEPT ![r].got["applied"] = TRUE]
  BY DEF Placing, WithTodo
<1> HIDE DEF T
<1>2. Turn(f, f1, r, f[r].pc) /\ f1[r].got = f[r].got /\ f1[r].todo = T
  BY TodoSet
<1> HIDE DEF f1
<1>3. PICK V : f1 \in [DOMAIN f1 -> Request(V)] /\ r \in DOMAIN f1
  BY <1>2 DEF Turn
<1>4. Leads(f1, g, r, {"applied"})
  BY <1>1, <1>3, OneLeads
<1>5. Turn(f, g, r, f[r].pc)
  BY <1>2, <1>4 DEF Leads, Turn
<1> QED BY <1>2, <1>4, <1>5 DEF Leads, T

LEMMA PlacingFits ==
  ASSUME Shaped, LifeInv, NEW r \in DOMAIN reqs, reqs[r].pc \in FixPcs, reqs[r].todo # <<>>, reqs' = Placing(reqs, r)
  PROVE  PlannedOn(r)
<1>1. PICK f, g : f = reqs /\ g = reqs'
  OBVIOUS
<1>2. Turn(f, g, r, f[r].pc) /\ SameBut(f[r].got, g[r].got, {"applied"}) /\ g[r].todo = Tail(f[r].todo)
  <2>1. PICK W : f \in [DOMAIN f -> Request(W)] /\ r \in DOMAIN f
    BY <1>1 DEF Shaped, ReqsIn
  <2>2. g = Placing(f, r)
    BY <1>1
  <2> QED BY <2>1, <2>2, PlacingLeads
<1>3. Turns(r, reqs[r].pc)
  BY <1>1, <1>2, TurnIs
<1>4. CheckFields \subseteq DOMAIN Ck(r) /\ TodoFits(Tail(reqs[r].todo), Ck(r).repo)
  BY AtPlan, TodoFirst
<1>5. CheckFields \subseteq DOMAIN reqs'[r].got /\ reqs'[r].got.repo = Ck(r).repo
  BY <1>1, <1>2, <1>4 DEF SameBut, CheckFields, Ck
<1> QED BY <1>1, <1>2, <1>3, <1>4, <1>5, FixPlan DEF PlannedOn

LEMMA Life_fix_put ==
  ASSUME Shaped, LifeInv, NEW r \in DOMAIN reqs, fix_put(r)
  PROVE  LifeInv' /\ Promised /\ risk \subseteq risk'
<1> DEFINE o == Head1(r)
           n == Ck(r).repo
           new == [o.rec EXCEPT !.path = o.path]
           entry == [repo |-> n, path |-> o.path, in |-> new.in]
           g == [repo |-> n, in |-> o.rec.in]
<1>1. reqs[r].pc \in FixPcs /\ reqs[r].todo # <<>> /\ Around /\ o.op \in {"put", "put_entry"}
  BY DEF fix_put, Fixing, FixPcs, Around, Kept, Aside, Risk
<1>2. OpFits(o, n)
  BY <1>1, AtPlan, TodoFirst DEF Head1
<1>3. IsFile(o.rec) /\ o.rec.repo = n /\ o.path \in AllPaths
  BY <1>1, <1>2 DEF OpFits
<1>4. new = [repo |-> n, path |-> o.path, by |-> o.rec.by, in |-> o.rec.in, id |-> o.rec.id]
  BY <1>3 DEF IsFile
<1>5. IsFile(new) /\ IsEntry(entry) /\ new.repo = n /\ new.in = g.in /\ entry.repo = n /\ entry.in = g.in /\ g.repo = n
  BY <1>3, <1>4 DEF IsFile, IsEntry
<1>6. Risk(Overlap(r) \cup IF Meant(g) THEN {} ELSE {"late"})
  BY DEF fix_put
<1>7. \/ o.op = "put" /\ Then(r, "put_entry") /\ kv' = [kv EXCEPT !.arts = (@ \ Of(@, n, o.path)) \cup {new}]
      \/ /\ o.op = "put_entry" /\ kv' = [kv EXCEPT !.tree = (@ \ Of(@, n, o.path)) \cup {entry}]
         /\ reqs' = Placing(reqs, r)
  BY DEF fix_put, Placing
<1> HIDE DEF new, entry, g, n
<1>8. Intended(new, n) /\ Intended(entry, n)
  BY <1>5, <1>6, MeantIntended
<1>9. CASE o.op = "put" /\ Then(r, "put_entry") /\ kv' = [kv EXCEPT !.arts = (@ \ Of(@, n, o.path)) \cup {new}]
  <2>1. Refiled(n)
    BY <1>1, <1>5, <1>8, <1>9, OneArt
  <2>2. PlannedOn(r)
    BY <1>1, <1>9, ThenFits DEF PlannedOn
  <2> QED BY <2>1, <2>2, RefiledPlan
<1>10. CASE /\ o.op = "put_entry" /\ kv' = [kv EXCEPT !.tree = (@ \ Of(@, n, o.path)) \cup {entry}]
            /\ reqs' = Placing(reqs, r)
  <2>1. Refiled(n)
    BY <1>1, <1>5, <1>8, <1>10, OneEntry
  <2>2. PlannedOn(r)
    BY <1>1, <1>10, PlacingFits
  <2> QED BY <2>1, <2>2, RefiledPlan
<1> QED BY <1>7, <1>9, <1>10

-----------------------------------------------------------------------------
(* A repository or a store is recorded.                                     *)

FilesStay == kv'.arts = kv.arts /\ kv'.tree = kv.tree /\ Around

\* After a record was written over another, or restored, little is left to keep.
LEMMA WildKeeps ==
  ASSUME LifeInv, FilesStay, Wild', NEW r \in DOMAIN reqs, Idle(r)
  PROVE  LifeInv' /\ Promised /\ risk \subseteq risk'
<1>1. Ready(r)' /\ risk \subseteq risk' /\ \E p : Turns(r, p)
  BY IdleReady DEF FilesStay, Around
<1>2. \A q \in DOMAIN reqs' : Ready(q)'
  BY <1>1, AllReady DEF LifeInv
<1>3. Exc' /\ Loose'
  BY DEF Wild, Exc, Loose, Except
<1>4. FilesTyped' /\ NewIsEmpty' /\ DrainFits' /\ StoreInUse' /\ StoreFits'
  BY <1>3 DEF LifeInv, FilesStay, Around, FilesTyped, NewIsEmpty, Exc, Loose, DrainFits, StoreInUse, StoreFits
<1> QED BY <1>1, <1>2, <1>3, <1>4 DEF LifeInv, Promised

LEMMA RecordIsSome ==
  ASSUME NEW v \in RepoRecord
  PROVE  v # None
BY ControlAssumption DEF RepoRecord, Makers

\* What the record of a repository may be replaced by: a new one, or the same
\* with another mark or writer.
Renamed(n, v) ==
    /\ n \in Repos /\ v \in RepoRecord /\ FilesStay
    /\ kv'.stores = kv.stores /\ kv'.repos = [kv.repos EXCEPT ![n] = v]
    /\ \/ /\ kv.repos[n] = None /\ ~v.deleting
          /\ Exc' \/ \A d \in Drainers : n \notin Pending(d)
          /\ Loose' \/ kv.stores[v.store] # None
          /\ Loose' \/ \A q \in DOMAIN reqs : reqs[q].pc \in {"blobs", "remove"} => On(q) # v.store
       \/ Live(kv.repos[n]) /\ v.made = kv.repos[n].made /\ v.store = kv.repos[n].store

LEMMA RenamedNames ==
  ASSUME LifeInv, ~Wild', NEW n, NEW v, Renamed(n, v)
  PROVE  /\ NamesTyped' /\ v # None /\ kv'.repos[n] = v /\ \A m : m # n => kv'.repos[m] = kv.repos[m]
         /\ \A m \in list_repos' : m = n \/ m \in list_repos
<1>1. ~Wild /\ NamesTyped /\ v # None
  BY RiskStays, RecordIsSome DEF LifeInv, Renamed, FilesStay, Around
<1>2. kv'.repos[n] = v /\ \A m : m # n => kv'.repos[m] = kv.repos[m]
  BY <1>1 DEF NamesTyped, Renamed
<1>3. NamesTyped'
  BY <1>1 DEF NamesTyped, Renamed, RepoRecord, Makers
<1>4. \A m \in list_repos' : m = n \/ m \in list_repos
  BY <1>2 DEF list_repos, Shows
<1> QED BY <1>1, <1>2, <1>3, <1>4

LEMMA RenamedFiles ==
  ASSUME LifeInv, ~Exc', NEW n, NEW v, Renamed(n, v)
  PROVE  NewIsEmpty' /\ DrainFits' /\ Promised
<1>1. ~Wild' /\ ~Exc /\ ~Wild
  BY RiskStays DEF Renamed, FilesStay, Around, Wild, Exc, Except
<1>2. v # None /\ kv'.repos[n] = v /\ \A m : m # n => kv'.repos[m] = kv.repos[m]
  BY <1>1, RenamedNames
<1>3. \A x \in kv.arts \cup kv.tree : kv.repos[x.repo] # None /\ kv.repos[x.repo].made = x.in
  BY <1>1 DEF LifeInv, NewIsEmpty, Exc
<1>4. NewIsEmpty'
  <2> SUFFICES ASSUME NEW x \in kv.arts \cup kv.tree
               PROVE  kv'.repos[x.repo] # None /\ kv'.repos[x.repo].made = x.in
    BY DEF NewIsEmpty, Renamed, FilesStay
  <2> QED BY <1>2, <1>3 DEF Renamed
<1>5. DrainFits'
  <2> SUFFICES ASSUME NEW d \in Drainers
               PROVE  DrainSafe(d)'
    BY DEF LifeInv, DrainFits, Renamed, FilesStay, Around
  <2>1. drain' = drain /\ DrainSafe(d)
    BY <1>1 DEF LifeInv, DrainFits, Renamed, FilesStay, Around
  <2>2. n \notin Pending(d)
    BY <2>1, RecordIsSome DEF Renamed, Live, DrainSafe, Draining
  <2>3. \A m \in Pending(d) : Draining(m)' <=> Draining(m)
    BY <1>2, <2>2 DEF Draining
  <2> QED BY <2>1, <2>3, SafeStays DEF Renamed, FilesStay
<1>6. Promised
  <2>1. \A m : FilesOf(m)' = FilesOf(m)
    BY DEF Renamed, FilesStay, FilesOf
  <2>2. \A m \in Repos \ {n} : Unchanged(m)
    BY <1>2, <2>1 DEF Unchanged, LifeOf
  <2>3. Lives(n)
    <3>1. CASE kv.repos[n] = None /\ ~v.deleting
      BY <1>2, <2>1, <3>1 DEF Lives, LifeOf
    <3>2. CASE Live(kv.repos[n])
      BY <1>2, <2>1, <3>2, RecordIsSome DEF Lives, LifeOf, Live
    <3> QED BY <3>1, <3>2 DEF Renamed
  <2> QED BY <2>2, <2>3 DEF Promised, Renamed
<1> QED BY <1>4, <1>5, <1>6

LEMMA RenamedUses ==
  ASSUME LifeInv, ~Loose', NEW n, NEW v, Renamed(n, v), NEW r \in DOMAIN reqs, Idle(r)
  PROVE  StoreInUse' /\ StoreFits'
<1>1. ~Wild' /\ ~Loose /\ ~Wild
  BY RiskStays DEF Renamed, FilesStay, Around, Wild, Loose, Except
<1>2. /\ v # None /\ kv'.repos[n] = v /\ \A m : m # n => kv'.repos[m] = kv.repos[m]
      /\ \A m \in list_repos' : m = n \/ m \in list_repos
  BY <1>1, RenamedNames
<1>3. \A m \in list_repos : kv.stores[kv.repos[m].store] # None
  BY <1>1 DEF LifeInv, StoreInUse, Loose
<1>4. Live(kv.repos[n]) => n \in list_repos
  BY RecordIsSome DEF Live, list_repos, Shows, Renamed
<1>5. kv.stores[v.store] # None /\ kv'.stores = kv.stores
  BY <1>3, <1>4 DEF Renamed
<1>6. StoreInUse'
  <2> SUFFICES ASSUME NEW m \in list_repos'
               PROVE  kv'.stores[kv'.repos[m].store] # None
    BY DEF StoreInUse
  <2> QED BY <1>2, <1>3, <1>5
<1>7. StoreFits'
  <2> SUFFICES ASSUME NEW q \in DOMAIN reqs'
               PROVE  UsesFit(q)'
    BY DEF StoreFits
  <2>1. CASE q = r
    BY <2>1, IdleReady
  <2>2. CASE q # r
    <3>1. q \in DOMAIN reqs /\ reqs'[q] = reqs[q] /\ UsesFit(q)
      BY <1>1, <2>2 DEF Idle, Turns, LifeInv, StoreFits
    <3>2. Kind(q)' = Kind(q) /\ To(q)' = To(q) /\ On(q)' = On(q) /\ Rewrites(q)' = Rewrites(q)
      BY <3>1 DEF Kind, To, On, Rewrites, At
    <3>3. ASSUME reqs[q].pc \in {"blobs", "remove"}
          PROVE  UsedBy(On(q))' = {}
      <4>1. UsedBy(On(q)) = {}
        BY <3>1, <3>3 DEF UsesFit
      <4>2. v.store # On(q)
        <5>1. CASE Live(kv.repos[n])
          <6>1. n \in list_repos /\ v.store = kv.repos[n].store
            BY <1>4, <5>1, RecordIsSome DEF Renamed, Live
          <6> QED BY <4>1, <6>1 DEF UsedBy
        <5>2. CASE ~Live(kv.repos[n])
          <6>1. \A q1 \in DOMAIN reqs : reqs[q1].pc \in {"blobs", "remove"} => On(q1) # v.store
            BY <5>2 DEF Renamed
          <6> QED BY <3>1, <3>3, <6>1
        <5> QED BY <5>1, <5>2
      <4>3. \A m \in list_repos' : kv'.repos[m].store # On(q)
        BY <1>2, <4>1, <4>2 DEF UsedBy
      <4> QED BY <3>2, <4>3 DEF UsedBy
    <3> QED BY <1>5, <3>1, <3>2, <3>3 DEF UsesFit
  <2> QED BY <2>1, <2>2
<1> QED BY <1>6, <1>7

LEMMA RenamedKeeps ==
  ASSUME LifeInv, NEW n, NEW v, Renamed(n, v), NEW r \in DOMAIN reqs, Idle(r)
  PROVE  LifeInv' /\ Promised /\ risk \subseteq risk'
<1>1. CASE Wild'
  BY <1>1, WildKeeps DEF Renamed
<1>2. CASE ~Wild'
  <2>1. Ready(r)' /\ risk \subseteq risk' /\ \E p : Turns(r, p)
    BY IdleReady DEF Renamed, FilesStay, Around
  <2>2. \A q \in DOMAIN reqs' : Ready(q)'
    BY <2>1, AllReady DEF LifeInv
  <2>3. FilesTyped' /\ NamesTyped'
    BY <1>2, RenamedNames DEF LifeInv, FilesTyped, Renamed, FilesStay
  <2>4. NewIsEmpty' /\ DrainFits' /\ Promised
    <3>1. CASE Exc'
      BY <3>1 DEF Exc, NewIsEmpty, DrainFits, Promised, LifeInv, Renamed, FilesStay, Around
    <3> QED BY <3>1, RenamedFiles
  <2>5. StoreInUse' /\ StoreFits'
    <3>1. CASE Loose'
      BY <3>1 DEF Loose, StoreInUse, StoreFits
    <3> QED BY <3>1, RenamedUses
  <2> QED BY <2>1, <2>2, <2>3, <2>4, <2>5 DEF LifeInv
<1> QED BY <1>1, <1>2

LEMMA SetRepo ==
  ASSUME Shaped, NEW n, NEW v, kv' = [kv EXCEPT !.repos[n] = v]
  PROVE  kv'.repos = [kv.repos EXCEPT ![n] = v] /\ kv'.stores = kv.stores /\ kv'.arts = kv.arts /\ kv'.tree = kv.tree
BY DEF Shaped, KvIn, Store

\* A name that is none is not recorded.
LEMMA NoNameKeeps ==
  ASSUME Shaped, LifeInv, ~Wild, NEW n, n \notin Repos, NEW v, kv' = [kv EXCEPT !.repos[n] = v], Around,
         NEW r \in DOMAIN reqs, Idle(r)
  PROVE  LifeInv' /\ Promised /\ risk \subseteq risk'
<1>1. kv'.repos = kv.repos
  BY SetRepo DEF LifeInv, NamesTyped
<1>2. Same
  BY <1>1, SetRepo DEF Same, SameKv, Around
<1> QED BY <1>2, IdleKeeps, SamePromised DEF Around

\* The users of the store of a new repository were not counted before.
LEMMA CountedStore ==
  ASSUME LifeInv, NEW s, NEW X, Risk(X \cup Uncounted(s))
  PROVE  Loose' \/ \A q \in DOMAIN reqs : reqs[q].pc \in {"blobs", "remove"} => On(q) # s
<1> SUFFICES ASSUME NEW q \in DOMAIN reqs, reqs[q].pc \in {"blobs", "remove"}, On(q) = s
             PROVE  Loose'
  OBVIOUS
<1>1. Kind(q) = "delete_store"
  BY DEF LifeInv, Ready, StepFits, Owner
<1>2. q \in Busy
  BY DEF Busy
<1>3. "store_race" \in Uncounted(s)
  BY <1>1, <1>2 DEF Uncounted
<1> QED BY <1>3 DEF Risk, Loose, Except

\* A name that is taken is none that is still to be drained.
LEMMA DrainedName ==
  ASSUME NEW n, NEW X, NEW Y, Risk(X \cup Undrained(n) \cup Y)
  PROVE  Exc' \/ \A d \in Drainers : n \notin Pending(d)
BY DEF Risk, Undrained, Pending, Exc, Except

LEMMA Life_create_repo_put ==
  ASSUME Shaped, RequestsFit, LifeInv, NEW r \in DOMAIN reqs, create_repo_put(r)
  PROVE  LifeInv' /\ Promised /\ risk \subseteq risk'
<1> DEFINE n == On(r)
           v == [store |-> To(r), deleting |-> FALSE, made |-> r, by |-> r]
<1>1. kv' = [kv EXCEPT !.repos[n] = v] /\ Risk(Overwritten(n) \cup Undrained(n) \cup Uncounted(To(r))) /\ Around
  BY DEF create_repo_put, Around, Kept, Aside, Risk
<1>2. Idle(r)
  BY Idle_create_repo_put
<1>3. n \in Repos /\ To(r) \in Stores /\ r \in Reqs
  BY ControlAssumption DEF create_repo_put, RequestsFit, Kind, On, To
<1>4. v \in RepoRecord /\ v.store = To(r) /\ ~v.deleting
  BY <1>3 DEF RepoRecord, Makers
<1> HIDE DEF n, v
<1>5. FilesStay /\ kv'.stores = kv.stores /\ kv'.repos = [kv.repos EXCEPT ![n] = v]
  BY <1>1, SetRepo DEF FilesStay
<1>6. CASE Wild'
  BY <1>2, <1>5, <1>6, WildKeeps
<1>7. CASE ~Wild'
  <2>1. kv.repos[n] = None
    BY <1>1, <1>7 DEF Overwritten, Risk, Wild, Except
  <2>2. Loose' \/ kv.stores[To(r)] # None
    BY <1>1, RiskStays DEF create_repo_put, LifeInv, StoreFits, UsesFit, At, Around
  <2>3. Loose' \/ \A q \in DOMAIN reqs : reqs[q].pc \in {"blobs", "remove"} => On(q) # To(r)
    BY <1>1, CountedStore
  <2>4. Exc' \/ \A d \in Drainers : n \notin Pending(d)
    BY <1>1, DrainedName
  <2>5. Renamed(n, v)
    BY <1>3, <1>4, <1>5, <2>1, <2>2, <2>3, <2>4 DEF Renamed
  <2> QED BY <1>2, <2>5, RenamedKeeps
<1> QED BY <1>6, <1>7

LEMMA Life_update_repo_put ==
  ASSUME Shaped, RequestsFit, LifeInv, NEW r \in DOMAIN reqs, update_repo_put(r)
  PROVE  LifeInv' /\ Promised /\ risk \subseteq risk'
<1> DEFINE n == On(r)
           g == reqs[r].got
           v == [g EXCEPT !.by = r]
<1>1. kv' = [kv EXCEPT !.repos[n] = v] /\ Around
  BY DEF update_repo_put, Around, Kept, Aside, Risk
<1>2. Idle(r)
  BY Idle_update_repo_put
<1>3. n \in Repos /\ r \in Reqs
  BY ControlAssumption DEF update_repo_put, RequestsFit, Kind, On
<1>4. Wild \/ Live(g)
  BY DEF update_repo_put, LifeInv, Ready, HasRecord, Rewrites
<1>5. Live(g) => v \in RepoRecord /\ v.made = g.made /\ v.store = g.store
  BY <1>3 DEF Live, RepoRecord, Makers
<1>6. Wild' \/ kv.repos[n] = g
  BY DEF update_repo_put, Risk, Wild, Except
<1> HIDE DEF n, g, v
<1>7. FilesStay /\ kv'.stores = kv.stores /\ kv'.repos = [kv.repos EXCEPT ![n] = v]
  BY <1>1, SetRepo DEF FilesStay
<1>8. CASE Wild'
  BY <1>2, <1>7, <1>8, WildKeeps
<1>9. CASE ~Wild'
  <2>1. Live(g) /\ kv.repos[n] = g
    BY <1>1, <1>4, <1>6, <1>9, RiskStays DEF Around
  <2>2. Renamed(n, v)
    BY <1>3, <1>5, <1>7, <2>1 DEF Renamed
  <2> QED BY <1>2, <2>2, RenamedKeeps
<1> QED BY <1>8, <1>9

LEMMA Life_delete_repo_mark ==
  ASSUME Shaped, LifeInv, NEW r \in DOMAIN reqs, delete_repo_mark(r)
  PROVE  LifeInv' /\ Promised /\ risk \subseteq risk'
<1>1. Idle(r) /\ Around
  BY Idle_delete_repo_mark DEF delete_repo_mark, Around, Kept, Aside
<1>2. CASE kv' = kv
  <2>1. Same
    BY <1>1, <1>2, SameIf DEF Around
  <2> QED BY <1>1, <2>1, IdleKeeps, SamePromised DEF Around
<1>3. CASE kv' # kv
  <2> DEFINE n == On(r)
             g == reqs[r].got
             v == [g EXCEPT !.deleting = TRUE]
  <2>1. kv.repos[n] = g /\ kv' = [kv EXCEPT !.repos[n].deleting = TRUE]
    BY <1>3 DEF delete_repo_mark
  <2>2. kv' = [kv EXCEPT !.repos[n] = v]
    BY <2>1
  <2>3. Wild \/ Live(g)
    BY DEF delete_repo_mark, LifeInv, Ready, HasRecord
  <2>4. Live(g) => v \in RepoRecord /\ v.made = g.made /\ v.store = g.store
    BY DEF Live, RepoRecord, Makers
  <2> HIDE DEF n, g, v
  <2>5. FilesStay /\ kv'.stores = kv.stores /\ kv'.repos = [kv.repos EXCEPT ![n] = v]
    BY <1>1, <2>2, SetRepo DEF FilesStay
  <2>6. CASE Wild
    BY <1>1, <2>5, <2>6, WildKeeps, RiskStays DEF Around
  <2>7. CASE ~Wild /\ n \notin Repos
    BY <1>1, <2>2, <2>7, NoNameKeeps
  <2>8. CASE ~Wild /\ n \in Repos
    <3>1. Renamed(n, v)
      BY <2>1, <2>3, <2>4, <2>5, <2>8 DEF Renamed
    <3> QED BY <1>1, <3>1, RenamedKeeps
  <2> QED BY <2>6, <2>7, <2>8
<1> QED BY <1>2, <1>3

LEMMA Idle_clone_reserve ==
  ASSUME Shaped, NEW r \in DOMAIN reqs, clone_reserve(r)
  PROVE  Idle(r)
BY ReplyIdle, KeepIdle DEF clone_reserve, Watched, PlanPcs

LEMMA Life_clone_reserve ==
  ASSUME Shaped, RequestsFit, LifeInv, NEW r \in DOMAIN reqs, clone_reserve(r)
  PROVE  LifeInv' /\ Promised /\ risk \subseteq risk'
<1>1. Idle(r) /\ Around
  BY Idle_clone_reserve, Zenon DEF clone_reserve, Around, Kept, Aside, Risk
<1>2. CASE ~typed_put_if_absent(r)
  <2>1. kv' = [kv EXCEPT !.tasks[r] = "failed"]
    BY <1>2 DEF clone_reserve
  <2>2. SameKv
    BY <2>1, SetTask
  <2>3. Same
    BY <1>1, <2>2 DEF Same, Around
  <2> QED BY <1>1, <2>3, IdleKeeps, SamePromised DEF Around
<1>3. CASE typed_put_if_absent(r)
  <2> DEFINE n == To(r)
             g == reqs[r].got
             v == [g EXCEPT !.made = r, !.by = r]
  <2>1. kv.repos[n] = None /\ kv' = [kv EXCEPT !.repos[n] = v] /\ Risk(Undrained(n) \cup Uncounted(g.store))
    BY <1>3 DEF clone_reserve, typed_put_if_absent
  <2> Risk({} \cup Undrained(n) \cup Uncounted(g.store))
    BY <2>1 DEF Risk
  <2>2. Wild \/ Live(g)
    BY DEF clone_reserve, LifeInv, Ready, HasRecord, Rewrites
  <2>3. r \in Reqs
    BY DEF RequestsFit
  <2>4. Live(g) => v \in RepoRecord /\ v.store = g.store /\ ~v.deleting
    BY <2>3 DEF Live, RepoRecord, Makers
  <2>5. Loose \/ kv.stores[g.store] # None
    BY DEF clone_reserve, LifeInv, StoreFits, UsesFit, Rewrites
  <2> HIDE DEF n, g, v
  <2>6. FilesStay /\ kv'.stores = kv.stores /\ kv'.repos = [kv.repos EXCEPT ![n] = v]
    BY <1>1, <2>1, SetRepo DEF FilesStay
  <2>7. CASE Wild
    BY <1>1, <2>6, <2>7, WildKeeps, RiskStays DEF Around
  <2>8. CASE ~Wild /\ n \notin Repos
    BY <1>1, <2>1, <2>8, NoNameKeeps
  <2>9. CASE ~Wild /\ n \in Repos
    <3>1. Loose' \/ \A q \in DOMAIN reqs : reqs[q].pc \in {"blobs", "remove"} => On(q) # g.store
      BY <2>1, CountedStore
    <3>2. Loose' \/ kv.stores[g.store] # None
      BY <1>1, <2>5, RiskStays DEF Around
    <3>3. Exc' \/ \A d \in Drainers : n \notin Pending(d)
      BY DrainedName
    <3>4. Renamed(n, v)
      BY <2>1, <2>2, <2>4, <2>6, <2>9, <3>1, <3>2, <3>3 DEF Renamed
    <3> QED BY <1>1, <3>4, RenamedKeeps
  <2> QED BY <2>7, <2>8, <2>9
<1> QED BY <1>2, <1>3

\* The records of stores change.
Stored == kv'.repos = kv.repos /\ FilesStay

LEMMA SetStore ==
  ASSUME Shaped, NEW s, NEW v, kv' = [kv EXCEPT !.stores[s] = v]
  PROVE  kv'.stores = [kv.stores EXCEPT ![s] = v] /\ kv'.repos = kv.repos /\ kv'.arts = kv.arts /\ kv'.tree = kv.tree
BY DEF Shaped, KvIn, Store

LEMMA StoredKeeps ==
  ASSUME LifeInv, Stored, Wild' \/ NamesTyped', StoreInUse', StoreFits', NEW r \in DOMAIN reqs, Idle(r)
  PROVE  LifeInv' /\ Promised /\ risk \subseteq risk'
<1>1. Ready(r)' /\ risk \subseteq risk' /\ \E p : Turns(r, p)
  BY IdleReady DEF Stored, FilesStay, Around
<1>2. \A q \in DOMAIN reqs' : Ready(q)'
  BY <1>1, AllReady DEF LifeInv
<1>3. FilesTyped' /\ NewIsEmpty' /\ DrainFits'
  <2>1. FilesTyped' /\ NewIsEmpty'
    BY <1>1, RiskStays DEF LifeInv, Stored, FilesStay, Around, FilesTyped, NewIsEmpty, Exc
  <2>2. ASSUME NEW d, DrainSafe(d)
        PROVE  DrainSafe(d)'
    BY <2>2 DEF Stored, FilesStay, Around, DrainSafe, Finished, Draining, Pending
  <2>3. drain' = drain /\ (Exc => Exc')
    BY <1>1, RiskStays DEF Stored, FilesStay, Around
  <2>4. DrainFits'
    BY <2>2, <2>3 DEF LifeInv, DrainFits
  <2> QED BY <2>1, <2>4
<1>4. \A n \in Repos : Unchanged(n)
  BY DEF Stored, FilesStay, Unchanged, LifeOf, FilesOf
<1> QED BY <1>1, <1>2, <1>3, <1>4 DEF LifeInv, Promised

\* A repository that is recorded, and what will be, names one of the stores.
LEMMA StoreIsNamed ==
  ASSUME RequestsFit, LifeInv, ~Wild
  PROVE  /\ \A n \in list_repos : kv.repos[n].store \in Stores
         /\ \A q \in DOMAIN reqs : Kind(q) = "create_repo" => To(q) \in Stores
         /\ \A q \in DOMAIN reqs : Rewrites(q) => reqs[q].got.store \in Stores
<1>1. \A n \in list_repos : kv.repos[n].store \in Stores
  BY DEF LifeInv, NamesTyped, list_repos, Shows, RepoRecord
<1>2. \A q \in DOMAIN reqs : Kind(q) = "create_repo" => To(q) \in Stores
  BY ControlAssumption DEF RequestsFit, Kind, To
<1>3. \A q \in DOMAIN reqs : Rewrites(q) => reqs[q].got.store \in Stores
  BY DEF LifeInv, Ready, HasRecord, Live, RepoRecord
<1> QED BY <1>1, <1>2, <1>3

LEMMA StorePutKeeps ==
  ASSUME Shaped, RequestsFit, LifeInv, NEW r \in DOMAIN reqs, Idle(r), Around, NEW s, kv' = [kv EXCEPT !.stores[s] = r]
  PROVE  LifeInv' /\ Promised /\ risk \subseteq risk'
<1>1. Stored /\ kv'.stores = [kv.stores EXCEPT ![s] = r]
  BY SetStore DEF Stored, FilesStay
<1>2. CASE Wild
  BY <1>1, <1>2, WildKeeps, RiskStays DEF Stored, Around
<1>3. CASE ~Wild
  <2>1. PICK W : kv.stores \in [Stores -> W]
    BY <1>3 DEF LifeInv, NamesTyped
  <2>2. kv'.stores \in [Stores -> W \cup {r}]
    BY <1>1, <2>1
  <2>3. NamesTyped'
    BY <1>1, <1>3, <2>2 DEF LifeInv, NamesTyped, Stored
  <2>4. r # None
    BY ControlAssumption DEF RequestsFit
  <2>5. \A t \in Stores : kv.stores[t] # None => kv'.stores[t] # None
    BY <1>1, <2>1, <2>4
  <2>6. StoreInUse'
    <3> SUFFICES ASSUME ~Loose', NEW n \in list_repos
                 PROVE  kv'.stores[kv.repos[n].store] # None
      BY <1>1 DEF StoreInUse, Loose, list_repos, Shows, Stored
    <3> QED BY <1>3, <2>5, StoreIsNamed, RiskStays DEF LifeInv, StoreInUse, Loose, Around
  <2>7. StoreFits'
    <3> SUFFICES ASSUME ~Loose', NEW q \in DOMAIN reqs'
                 PROVE  UsesFit(q)'
      BY DEF StoreFits
    <3>1. CASE q = r
      BY <3>1, IdleReady
    <3>2. CASE q # r
      <4>1. q \in DOMAIN reqs /\ reqs'[q] = reqs[q] /\ UsesFit(q)
        BY <3>2, RiskStays DEF Idle, Turns, LifeInv, StoreFits, Around
      <4>2. /\ Kind(q)' = Kind(q) /\ To(q)' = To(q) /\ On(q)' = On(q) /\ Rewrites(q)' = Rewrites(q)
            /\ reqs[q].pc \in {"blobs", "remove"} => UsedBy(On(q))' = UsedBy(On(q))
        BY <1>1, <4>1 DEF Kind, To, On, Rewrites, At, UsedBy, list_repos, Shows, Stored
      <4> QED BY <1>3, <2>5, <4>1, <4>2, StoreIsNamed DEF UsesFit
    <3> QED BY <3>1, <3>2
  <2> QED BY <1>1, <2>3, <2>6, <2>7, StoredKeeps
<1> QED BY <1>2, <1>3

LEMMA Life_create_store_put ==
  ASSUME Shaped, RequestsFit, LifeInv, NEW r \in DOMAIN reqs, create_store_put(r)
  PROVE  LifeInv' /\ Promised /\ risk \subseteq risk'
<1>1. Idle(r) /\ Around
  BY Idle_create_store_put DEF create_store_put, Around, Aside
<1>2. PICK s : kv' = [kv EXCEPT !.stores[s] = r]
  BY DEF create_store_put
<1> QED BY <1>1, <1>2, StorePutKeeps

LEMMA Life_update_store_put ==
  ASSUME Shaped, RequestsFit, LifeInv, NEW r \in DOMAIN reqs, update_store_put(r)
  PROVE  LifeInv' /\ Promised /\ risk \subseteq risk'
<1>1. Idle(r) /\ Around
  BY Idle_update_store_put DEF update_store_put, Around, Aside
<1>2. PICK s : kv' = [kv EXCEPT !.stores[s] = r]
  BY DEF update_store_put
<1> QED BY <1>1, <1>2, StorePutKeeps

LEMMA Life_delete_store_remove ==
  ASSUME Shaped, RequestsFit, LifeInv, NEW r \in DOMAIN reqs, delete_store_remove(r)
  PROVE  LifeInv' /\ Promised /\ risk \subseteq risk'
<1> DEFINE s == On(r)
<1>1. Idle(r) /\ Around /\ kv' = [kv EXCEPT !.stores[s] = None] /\ Risk(IF Using(s) # {} THEN {"store_race"} ELSE {})
  BY Idle_delete_store_remove DEF delete_store_remove, Around, Aside, Risk
<1>2. Stored /\ kv'.stores = [kv.stores EXCEPT ![s] = None]
  BY <1>1, SetStore DEF Stored, FilesStay
<1>3. CASE Wild
  BY <1>1, <1>2, <1>3, WildKeeps, RiskStays DEF Stored, Around
<1>4. CASE ~Wild
  <2>1. PICK W : kv.stores \in [Stores -> W]
    BY <1>4 DEF LifeInv, NamesTyped
  <2>2. kv'.stores \in [Stores -> W \cup {None}]
    BY <1>2, <2>1
  <2>3. NamesTyped'
    BY <1>2, <1>4, <2>2 DEF LifeInv, NamesTyped, Stored
  <2>4. \A t \in Stores : t # s => kv'.stores[t] = kv.stores[t]
    BY <1>2, <2>1
  <2>5. Loose' \/ UsedBy(s) = {}
    BY <1>1, RiskStays DEF delete_store_remove, LifeInv, StoreFits, UsesFit, At, Around
  <2>6. Loose' \/ Using(s) = {}
    BY <1>1 DEF Risk, Loose, Except
  <2> HIDE DEF s
  <2>7. StoreInUse'
    <3> SUFFICES ASSUME ~Loose', NEW n \in list_repos
                 PROVE  kv'.stores[kv.repos[n].store] # None
      BY <1>2 DEF StoreInUse, Loose, list_repos, Shows, Stored
    <3>1. kv.repos[n].store # s
      BY <2>5 DEF UsedBy
    <3>2. kv.stores[kv.repos[n].store] # None
      BY <1>1, RiskStays DEF LifeInv, StoreInUse, Loose, Around
    <3> QED BY <1>4, <2>4, <3>1, <3>2, StoreIsNamed
  <2>8. StoreFits'
    <3> SUFFICES ASSUME ~Loose', NEW q \in DOMAIN reqs'
                 PROVE  UsesFit(q)'
      BY DEF StoreFits
    <3>1. CASE q = r
      BY <1>1, <3>1, IdleReady
    <3>2. CASE q # r
      <4>1. q \in DOMAIN reqs /\ reqs'[q] = reqs[q] /\ UsesFit(q)
        BY <1>1, <3>2, RiskStays DEF Idle, Turns, LifeInv, StoreFits, Around
      <4>2. /\ Kind(q)' = Kind(q) /\ To(q)' = To(q) /\ On(q)' = On(q) /\ Rewrites(q)' = Rewrites(q)
            /\ reqs[q].pc \in {"blobs", "remove"} => UsedBy(On(q))' = UsedBy(On(q))
        BY <1>2, <4>1 DEF Kind, To, On, Rewrites, At, UsedBy, list_repos, Shows, Stored
      <4>3. ASSUME Kind(q) = "create_repo", reqs[q].pc \in {"checked", "put"}
            PROVE  To(q) # s
        <5>1. q \in Busy
          BY <4>1, <4>3 DEF Busy
        <5> QED BY <2>6, <4>3, <5>1 DEF Using
      <4>4. ASSUME Rewrites(q)
            PROVE  reqs[q].got.store # s
        <5>1. reqs[q].pc \in {"put", "reserve"} /\ Kind(q) \in {"update_repo", "clone_repo"}
          BY <4>1, <4>4 DEF Rewrites, At, LifeInv, Ready, StepFits, Owner
        <5>2. q \in Busy
          BY <4>1, <5>1 DEF Busy
        <5> QED BY <2>6, <5>1, <5>2 DEF Using
      <4> QED BY <1>4, <2>4, <4>1, <4>2, <4>3, <4>4, StoreIsNamed DEF UsesFit
    <3> QED BY <3>1, <3>2
  <2> QED BY <1>1, <1>2, <2>3, <2>7, <2>8, StoredKeeps
<1> QED BY <1>3, <1>4

LEMMA Life_restore_put ==
  ASSUME Shaped, LifeInv, NEW r \in DOMAIN reqs, restore_put(r)
  PROVE  LifeInv' /\ Promised /\ risk \subseteq risk'
<1>1. Idle(r) /\ Around /\ Wild'
  BY Idle_restore_put, Zenon DEF restore_put, Around, Kept, Aside, Risk, Wild, Except
<1>2. kv'.arts = kv.arts /\ kv'.tree = kv.tree
  <2> DEFINE x == Head(reqs[r].todo)
             doc == reqs[r].got
             k == x.class
             n == x.on
             y == doc[k][n]
  <2>1. CASE kv' = IF doc.role = None THEN kv ELSE [kv EXCEPT !.role = doc.role]
    <3>1. PICK z : z = doc.role
      OBVIOUS
    <3>2. kv' = kv \/ kv' = [kv EXCEPT !.role = z]
      BY <2>1, <3>1
    <3> HIDE DEF x, doc, k, n, y
    <3> QED BY <3>2 DEF Shaped, KvIn, Store
  <2>2. CASE k \in {"stores", "users", "repos"} /\ kv' = [kv EXCEPT ![k][n] = y]
    <3> HIDE DEF x, doc, k, n, y
    <3>1. kv' = [kv EXCEPT ![k] = [kv[k] EXCEPT ![n] = y]]
      BY <2>2
    <3> QED BY <2>2, <3>1 DEF Shaped, KvIn, Store
  <2> QED BY <2>1, <2>2 DEF restore_put
<1> QED BY <1>1, <1>2, WildKeeps DEF FilesStay

-----------------------------------------------------------------------------
(* Steps that no request takes.                                             *)

LEMMA Rest_Live ==
  ASSUME \/ \E i \in Insts : Materializes(i) \/ Scans(i) \/ reconcile(i)
         \/ Browses \/ LiveFaults
  PROVE  reqs' = reqs /\ Same
<1>1. ASSUME NEW i \in Insts, Materializes(i)
      PROVE  kv' = kv /\ drain' = drain /\ reqs' = reqs /\ risk \subseteq risk'
  BY <1>1, Zenon DEF Materializes, run_model_materializer, build_full_model, drain_buffered, recv, coalesced, Risk
<1>2. ASSUME NEW i \in Insts, Scans(i)
      PROVE  kv' = kv /\ drain' = drain /\ reqs' = reqs /\ risk' = risk
  BY <1>2 DEF Scans, scan_repos, scan_stores, scan_tasks, ScanList, ScanEmit
<1>3. ASSUME NEW i \in Insts, reconcile(i)
      PROVE  kv' = kv /\ drain' = drain /\ reqs' = reqs /\ risk' = risk
  BY <1>3 DEF reconcile
<1>4. ASSUME Browses
      PROVE  kv' = kv /\ drain' = drain /\ reqs' = reqs /\ risk' = risk
  BY <1>4 DEF Browses, event_stream, subscribe, dispatch
<1>5. ASSUME LiveFaults
      PROVE  kv' = kv /\ drain' = drain /\ reqs' = reqs /\ risk \subseteq risk'
  BY <1>5 DEF LiveFaults, connect, load_fails, spawn_listener, Risk
<1>6. kv' = kv /\ drain' = drain /\ reqs' = reqs /\ risk \subseteq risk'
  BY <1>1, <1>2, <1>3, <1>4, <1>5
<1> QED BY <1>6, SameIf

LEMMA Rest_caches ==
  ASSUME NEW i \in Insts, expire(i) \/ run_settings_refresh(i)
  PROVE  reqs' = reqs /\ Same
<1>1. kv' = kv /\ drain' = drain /\ reqs' = reqs /\ risk' = risk
  BY DEF expire, run_settings_refresh, Aside
<1> QED BY <1>1, SameIf

LEMMA Rest_collect ==
  ASSUME Shaped, collect
  PROVE  reqs' = reqs /\ Same
<1>1. drain' = drain /\ reqs' = reqs /\ risk' = risk
  BY DEF collect, Kept, Aside
<1>2. \E x, y : kv' = [kv EXCEPT !.blobs = x, !.recs = y]
  BY Zenon DEF collect
<1> QED BY <1>1, <1>2, SetBlobs, Zenon DEF Same

\* The drain goes on or stops, and the records stay.
LEMMA DrainMoves ==
  ASSUME LifeInv, kv' = kv, reqs' = reqs, risk' = risk, DrainFits'
  PROVE  LifeInv' /\ Promised /\ risk \subseteq risk'
<1>1. (\A q \in DOMAIN reqs' : Ready(q)') /\ StoreFits'
  BY SameRequests
<1>2. FilesTyped' /\ (Wild' \/ NamesTyped') /\ NewIsEmpty' /\ StoreInUse'
  BY NamesStay DEF LifeInv, NamesSame, FilesTyped, NewIsEmpty, Except
<1>3. Promised
  BY DEF Promised, Unchanged, LifeOf, FilesOf
<1> QED BY <1>1, <1>2, <1>3 DEF LifeInv

\* A worker goes on with the next of what it has listed, or has done.
LEMMA NextOfFits ==
  ASSUME drain \in [Drainers -> DrainRecord], NEW d \in Drainers, NEW todo \in SUBSET Repos, NextOf(d, todo)
  PROVE  /\ drain' \in [Drainers -> DrainRecord]
         /\ \A e \in Drainers \ {d} : drain'[e] = drain[e]
         /\ drain'[d].pc \in {"idle", "arts"} /\ (drain'[d].pc # "idle" => drain'[d].repo \in Repos)
         /\ Pending(d)' \subseteq todo \cup {None}
<1>1. CASE drain' = [drain EXCEPT ![d] = NoDrain]
  <2>1. NoDrain \in DrainRecord
    BY DEF NoDrain, DrainRecord
  <2>2. drain'[d] = NoDrain
    BY <1>1
  <2> QED BY <1>1, <2>1, <2>2 DEF Pending, NoDrain
<1>2. CASE \E n \in todo : drain' = [drain EXCEPT ![d] = Drain(n, "arts", todo \ {n})]
  <2>1. PICK n \in todo : drain' = [drain EXCEPT ![d] = Drain(n, "arts", todo \ {n})]
    BY <1>2
  <2>2. Drain(n, "arts", todo \ {n}) \in DrainRecord
    BY DEF Drain, DrainRecord
  <2>3. drain'[d] = Drain(n, "arts", todo \ {n})
    BY <2>1
  <2> QED BY <2>1, <2>2, <2>3 DEF Pending, Drain
<1> QED BY <1>1, <1>2 DEF NextOf

LEMMA NextOfSafe ==
  ASSUME DrainFits, NEW d \in Drainers, NEW todo \in SUBSET Repos, NextOf(d, todo),
         Exc => Exc',
         \A n \in Repos : Draining(n) => Draining(n)',
         kv'.arts = kv.arts, kv'.tree = kv.tree,
         Exc \/ \A n \in todo : Draining(n)
  PROVE  DrainFits'
<1>1. /\ drain' \in [Drainers -> DrainRecord]
      /\ \A e \in Drainers \ {d} : drain'[e] = drain[e]
      /\ drain'[d].pc \in {"idle", "arts"} /\ (drain'[d].pc # "idle" => drain'[d].repo \in Repos)
      /\ Pending(d)' \subseteq todo \cup {None}
  BY NextOfFits DEF DrainFits
<1>2. ASSUME ~Exc', NEW e \in Drainers
      PROVE  DrainSafe(e)'
  <2>1. None \notin Repos
    BY ControlAssumption
  <2>2. CASE e = d
    BY <1>1, <1>2, <2>1, <2>2 DEF DrainSafe, Finished
  <2>3. CASE e # d
    <3>1. drain'[e] = drain[e] /\ DrainSafe(e)
      BY <1>1, <1>2, <2>3 DEF DrainFits
    <3> QED BY <3>1 DEF DrainSafe, Finished, Pending
  <2> QED BY <2>2, <2>3
<1> QED BY <1>1, <1>2 DEF DrainFits

LEMMA Life_drain_begins ==
  ASSUME Shaped, LifeInv, NEW d \in Drainers, drain_begins(d)
  PROVE  LifeInv' /\ Promised /\ risk \subseteq risk'
<1>1. kv' = kv /\ reqs' = reqs /\ risk' = risk
  BY DEF drain_begins
<1>2. PICK todo \in SUBSET Repos : NextOf(d, todo) /\ \A n \in todo : Draining(n)
  BY DEF drain_begins, Draining
<1>3. \A n \in Repos : Draining(n) => Draining(n)'
  BY <1>1 DEF Draining
<1>4. DrainFits'
  BY <1>1, <1>2, <1>3, NextOfSafe DEF LifeInv, Exc, Except
<1> QED BY <1>1, <1>4, DrainMoves

LEMMA Life_drain_stops ==
  ASSUME LifeInv, NEW d \in Drainers, drain_stops(d)
  PROVE  LifeInv' /\ Promised /\ risk \subseteq risk'
<1>1. kv' = kv /\ reqs' = reqs /\ risk' = risk
  BY DEF drain_stops
<1>2. PICK todo \in SUBSET Repos : NextOf(d, todo) /\ todo \subseteq drain[d].todo
  <2>1. drain[d].todo \in SUBSET Repos
    BY DEF LifeInv, DrainFits, DrainRecord
  <2> QED BY <2>1 DEF drain_stops
<1>3. Exc \/ \A n \in todo : Draining(n)
  BY <1>2 DEF LifeInv, DrainFits, DrainSafe, Pending
<1>4. \A n \in Repos : Draining(n) => Draining(n)'
  BY <1>1 DEF Draining
<1>5. DrainFits'
  BY <1>1, <1>2, <1>3, <1>4, NextOfSafe DEF LifeInv, Exc, Except
<1> QED BY <1>1, <1>5, DrainMoves

\* The files or the entries of a repository that is drained are deleted.
Drained(n, S, T) ==
    /\ reqs' = reqs /\ risk' = risk /\ kv'.repos = kv.repos /\ kv'.stores = kv.stores
    /\ kv'.arts = S /\ kv'.tree = T
    /\ S \subseteq kv.arts /\ T \subseteq kv.tree
    /\ \A x \in (kv.arts \ S) \cup (kv.tree \ T) : x.repo = n

LEMMA DrainedKeeps ==
  ASSUME LifeInv, NEW n, Exc \/ (n \in Repos /\ Draining(n)), NEW S, NEW T, Drained(n, S, T), DrainFits'
  PROVE  LifeInv' /\ Promised /\ risk \subseteq risk'
<1>1. (\A q \in DOMAIN reqs' : Ready(q)') /\ StoreFits'
  BY SameRequests DEF Drained
<1>2. (Wild' \/ NamesTyped') /\ StoreInUse'
  BY NamesStay DEF LifeInv, NamesSame, Drained
<1>3. FilesTyped'
  <2>1. IsFiniteSet(S)
    BY FS_Subset DEF LifeInv, FilesTyped, Drained
  <2> QED BY <2>1 DEF LifeInv, FilesTyped, Drained, IsFile, IsEntry, AllPaths
<1>4. NewIsEmpty'
  <2> SUFFICES ASSUME ~Exc', NEW x \in kv'.arts \cup kv'.tree
               PROVE  kv'.repos[x.repo] # None /\ kv'.repos[x.repo].made = x.in
    BY DEF NewIsEmpty, Exc
  <2>1. x \in kv.arts \cup kv.tree /\ ~Exc
    BY DEF Drained, Exc, Except
  <2> QED BY <2>1 DEF LifeInv, NewIsEmpty, Exc, Drained
<1>5. Promised
  <2> SUFFICES ASSUME ~Exc'
               PROVE  Promised
    BY DEF Promised
  <2>1. ~Exc /\ n \in Repos /\ Draining(n)
    BY DEF Drained, Exc, Except
  <2>2. \A m : LifeOf(m)' = LifeOf(m)
    BY DEF LifeOf, Drained
  <2>3. LifeOf(n) \in {"absent", "deleting"}
    BY <2>1 DEF LifeOf, Draining
  <2>4. FilesOf(n)' \subseteq FilesOf(n)
    <3>1. {y \in kv'.arts \cup kv'.tree : y.repo = n} \subseteq {y \in kv.arts \cup kv.tree : y.repo = n}
      BY DEF Drained
    <3> QED BY <3>1 DEF FilesOf
  <2>5. ASSUME NEW m \in Repos \ {n}
        PROVE  Unchanged(m)
    <3>1. {y \in kv'.arts \cup kv'.tree : y.repo = m} = {y \in kv.arts \cup kv.tree : y.repo = m}
      BY <2>5 DEF Drained
    <3>2. FilesOf(m)' = FilesOf(m)
      BY <3>1 DEF FilesOf
    <3> QED BY <2>2, <3>2 DEF Unchanged
  <2>6. CASE LifeOf(n) = "absent"
    <3>1. FilesOf(n) = {}
      BY <2>1, <2>6 DEF LifeOf, FilesOf, LifeInv, NewIsEmpty, Exc
    <3>2. Unchanged(n)
      BY <2>2, <2>4, <3>1 DEF Unchanged
    <3> QED BY <2>5, <3>2 DEF Promised
  <2>7. CASE LifeOf(n) = "deleting"
    <3>1. Lives(n)
      BY <2>2, <2>4, <2>7 DEF Lives
    <3> QED BY <2>1, <2>5, <3>1 DEF Promised
  <2> QED BY <2>3, <2>6, <2>7
<1> QED BY <1>1, <1>2, <1>3, <1>4, <1>5 DEF LifeInv, Drained

\* A worker that has dropped one kind of what there is of a repository.
LEMMA DropsFits ==
  ASSUME LifeInv, NEW d \in Drainers, NEW pc \in {"tree", "config"}, drain' = [drain EXCEPT ![d].pc = pc],
         drain[d].pc # "idle", drain[d].pc = (IF pc = "tree" THEN "arts" ELSE "tree"),
         risk' = risk, kv'.repos = kv.repos,
         kv'.arts \subseteq kv.arts, kv'.tree \subseteq kv.tree,
         pc = "tree" => \A x \in kv'.arts : x.repo # drain[d].repo,
         pc = "config" => \A x \in kv'.tree : x.repo # drain[d].repo
  PROVE  DrainFits'
<1>1. drain' \in [Drainers -> DrainRecord]
  BY DEF LifeInv, DrainFits, DrainRecord
<1>2. \A e \in Drainers : drain'[e].repo = drain[e].repo /\ drain'[e].todo = drain[e].todo
  BY DEF LifeInv, DrainFits, DrainRecord
<1>3. drain'[d].pc = pc /\ \A e \in Drainers \ {d} : drain'[e] = drain[e]
  BY DEF LifeInv, DrainFits, DrainRecord
<1>4. ASSUME ~Exc', NEW e \in Drainers
      PROVE  DrainSafe(e)'
  <2>1. DrainSafe(e)
    BY <1>4 DEF LifeInv, DrainFits, Exc, Except
  <2>2. \A n \in Pending(e)' \cap Repos : Draining(n)'
    BY <1>2, <2>1 DEF DrainSafe, Pending, Draining
  <2>3. CASE e = d
    BY <1>2, <1>3, <2>1, <2>2, <2>3 DEF DrainSafe, Finished
  <2>4. CASE e # d
    BY <1>3, <2>1, <2>2, <2>4 DEF DrainSafe, Finished
  <2> QED BY <2>3, <2>4
<1> QED BY <1>1, <1>4 DEF DrainFits

LEMMA DrainsGoing ==
  ASSUME LifeInv, NEW d \in Drainers, drain[d].pc # "idle"
  PROVE  Exc \/ (drain[d].repo \in Repos /\ Draining(drain[d].repo))
BY DEF LifeInv, DrainFits, DrainSafe, Finished, Pending

LEMMA Life_drain_arts ==
  ASSUME Shaped, LifeInv, NEW d \in Drainers, Drops(d, "arts", "tree"), drain_arts(d), reqs' = reqs, risk' = risk
  PROVE  LifeInv' /\ Promised /\ risk \subseteq risk'
<1>0. PICK n : n = drain[d].repo
  OBVIOUS
<1>1. kv'.repos = kv.repos /\ kv'.stores = kv.stores /\ kv'.arts = Outside(kv.arts, n) /\ kv'.tree = kv.tree
  BY <1>0 DEF Shaped, KvIn, Store, drain_arts
<1>2. Drained(n, Outside(kv.arts, n), kv.tree)
  BY <1>1 DEF Drained, Outside
<1>3. DrainFits'
  BY <1>0, <1>1, DropsFits DEF Drops, Outside
<1>4. Exc \/ (n \in Repos /\ Draining(n))
  BY <1>0, DrainsGoing DEF Drops
<1> QED BY <1>2, <1>3, <1>4, DrainedKeeps

LEMMA Life_drain_tree ==
  ASSUME Shaped, LifeInv, NEW d \in Drainers, Drops(d, "tree", "config"), drain_tree(d), reqs' = reqs, risk' = risk
  PROVE  LifeInv' /\ Promised /\ risk \subseteq risk'
<1>0. PICK n : n = drain[d].repo
  OBVIOUS
<1>1. kv'.repos = kv.repos /\ kv'.stores = kv.stores /\ kv'.arts = kv.arts /\ kv'.tree = Outside(kv.tree, n)
  BY <1>0 DEF Shaped, KvIn, Store, drain_tree
<1>2. Drained(n, kv.arts, Outside(kv.tree, n))
  BY <1>1 DEF Drained, Outside
<1>3. DrainFits'
  BY <1>0, <1>1, DropsFits DEF Drops, Outside
<1>4. Exc \/ (n \in Repos /\ Draining(n))
  BY <1>0, DrainsGoing DEF Drops
<1> QED BY <1>2, <1>3, <1>4, DrainedKeeps

\* The record goes last, and the name is free.
LEMMA Life_drain_config ==
  ASSUME Shaped, LifeInv, NEW d \in Drainers, drain[d].pc = "config", drain_config(d), NextOf(d, drain[d].todo),
         reqs' = reqs, risk' = risk
  PROVE  LifeInv' /\ Promised /\ risk \subseteq risk'
<1>0. PICK n : n = drain[d].repo
  OBVIOUS
<1>1. kv'.repos = [kv.repos EXCEPT ![n] = None] /\ kv'.stores = kv.stores /\ kv'.arts = kv.arts /\ kv'.tree = kv.tree
  BY <1>0, SetRepo DEF drain_config
<1>2. (\A q \in DOMAIN reqs' : Ready(q)') /\ FilesTyped'
  BY <1>1, SameRequests DEF LifeInv, FilesTyped
<1>3. (Wild' <=> Wild) /\ (Exc' <=> Exc) /\ (Loose' <=> Loose) /\ (Wild => Exc /\ Loose)
  BY DEF Wild, Exc, Loose, Except
<1>4. ASSUME ~Wild
      PROVE  /\ NamesTyped' /\ \A m : m # n => kv'.repos[m] = kv.repos[m]
             /\ n \in Repos => kv'.repos[n] = None
             /\ list_repos' \subseteq list_repos /\ \A m \in list_repos' : kv'.repos[m] = kv.repos[m]
  <2>1. NamesTyped
    BY <1>4 DEF LifeInv
  <2>2. /\ \A m : m # n => kv'.repos[m] = kv.repos[m]
        /\ n \in Repos => kv'.repos[n] = None
    BY <1>1, <2>1 DEF NamesTyped
  <2>3. NamesTyped'
    <3>1. \A S : kv.repos \in [Repos -> S \cup {None}] => [kv.repos EXCEPT ![n] = None] \in [Repos -> S \cup {None}]
      OBVIOUS
    <3>2. kv'.repos \in [Repos -> RepoRecord \cup {None}]
      BY <1>1, <2>1, <3>1 DEF NamesTyped
    <3> QED BY <1>1, <2>1, <3>2 DEF NamesTyped, RepoRecord, Makers
  <2>4. \A m \in list_repos' : m \in list_repos /\ kv'.repos[m] = kv.repos[m]
    BY <2>2 DEF list_repos, Shows
  <2> QED BY <2>2, <2>3, <2>4
<1>5. StoreInUse'
  BY <1>1, <1>3, <1>4 DEF LifeInv, StoreInUse, Loose
<1>6. StoreFits'
  <2> SUFFICES ASSUME ~Loose, NEW q \in DOMAIN reqs
               PROVE  UsesFit(q)'
    BY <1>3 DEF StoreFits
  <2>1. UsesFit(q)
    BY DEF LifeInv, StoreFits
  <2>2. UsedBy(On(q))' \subseteq UsedBy(On(q))
    BY <1>3, <1>4 DEF UsedBy, On
  <2> QED BY <1>1, <2>1, <2>2 DEF UsesFit, Rewrites, At, Kind, To, On
<1>7. ASSUME ~Exc
      PROVE  NewIsEmpty' /\ Promised
  <2>1. n \in Repos /\ Draining(n) /\ \A x \in kv.arts \cup kv.tree : x.repo # n
    BY <1>0, <1>7 DEF LifeInv, DrainFits, DrainSafe, Finished, Pending
  <2>2. (\A m : m # n => kv'.repos[m] = kv.repos[m]) /\ kv'.repos[n] = None
    BY <1>3, <1>4, <1>7, <2>1
  <2>3. \A x \in kv.arts \cup kv.tree : kv.repos[x.repo] # None /\ kv.repos[x.repo].made = x.in
    BY <1>7 DEF LifeInv, NewIsEmpty, Exc
  <2>4. NewIsEmpty'
    <3> SUFFICES ASSUME NEW x \in kv'.arts \cup kv'.tree
                 PROVE  kv'.repos[x.repo] # None /\ kv'.repos[x.repo].made = x.in
      BY DEF NewIsEmpty
    <3> QED BY <1>1, <2>1, <2>2, <2>3
  <2>5. \A m : FilesOf(m)' = FilesOf(m)
    BY <1>1 DEF FilesOf
  <2>6. \A m \in Repos \ {n} : Unchanged(m)
    BY <2>2, <2>5 DEF Unchanged, LifeOf
  <2>7. FilesOf(n) = {}
    BY <2>1 DEF FilesOf
  <2>8. LifeOf(n) \in {"deleting", "absent"} /\ LifeOf(n)' = "absent"
    BY <2>1, <2>2 DEF LifeOf, Draining
  <2>9. Lives(n) \/ Unchanged(n)
    BY <2>5, <2>7, <2>8 DEF Lives, Unchanged
  <2> QED BY <2>1, <2>4, <2>6, <2>9 DEF Promised
<1>8. Exc => NewIsEmpty' /\ Promised
  BY <1>3 DEF NewIsEmpty, Promised, Exc
<1>9. DrainFits'
  <2>1. drain[d].todo \in SUBSET Repos /\ DrainFits
    BY DEF LifeInv, DrainFits, DrainRecord
  <2>2. Exc \/ \A m \in drain[d].todo : Draining(m)
    BY <2>1 DEF DrainFits, DrainSafe, Pending
  <2>3. CASE Exc
    BY <1>3, <2>1, <2>3, NextOfFits DEF DrainFits
  <2>4. CASE ~Exc
    <3>1. \A m \in Repos : Draining(m) => Draining(m)'
      BY <1>3, <1>4, <2>4 DEF Draining
    <3> QED BY <1>1, <1>3, <2>1, <2>2, <3>1, NextOfSafe
  <2> QED BY <2>3, <2>4
<1> QED BY <1>2, <1>3, <1>4, <1>5, <1>6, <1>7, <1>8, <1>9 DEF LifeInv

LEMMA Life_drain_deleting_repo ==
  ASSUME Shaped, LifeInv, NEW d \in Drainers, drain_deleting_repo(d)
  PROVE  LifeInv' /\ Promised /\ risk \subseteq risk'
BY Life_drain_arts, Life_drain_tree, Life_drain_config DEF drain_deleting_repo

-----------------------------------------------------------------------------
(* Every step keeps the records in order.                                   *)

LEMMA IdleStep ==
  ASSUME LifeInv, NEW r \in DOMAIN reqs, Idle(r), Same
  PROVE  LifeInv' /\ Promised /\ risk \subseteq risk'
BY IdleKeeps, SamePromised DEF Same

LEMMA SameStep ==
  ASSUME LifeInv', Same
  PROVE  LifeInv' /\ Promised /\ risk \subseteq risk'
BY SamePromised DEF Same

LEMMA RestStep ==
  ASSUME LifeInv, reqs' = reqs, Same
  PROVE  LifeInv' /\ Promised /\ risk \subseteq risk'
BY RestKeeps, SameStep

LEMMA Life_IdentityStep ==
  ASSUME Shaped, LifeInv, NEW r \in DOMAIN reqs, IdentityStep(r)
  PROVE  LifeInv' /\ Promised /\ risk \subseteq risk'
<1>1. CASE \/ resolve_user_cached(r) \/ resolve_user_and_roles_cached(r) \/ put_cached_user(r) \/ denied(r)
           \/ login(r) \/ resolve_identity(r)
  BY <1>1, IdleStep, Idle_resolve_user_cached, Idle_resolve_user_and_roles_cached, Idle_put_cached_user,
     Idle_denied, Idle_login, Idle_resolve_identity
<1>2. CASE \/ create_user(r) \/ update_user(r) \/ put_user(r) \/ forget(r) \/ delete_user(r)
           \/ create_role(r) \/ update_role(r) \/ put_role(r) \/ delete_role(r) \/ invalidate_role(r)
  BY <1>2, IdleStep, Idle_create_user, Idle_update_user, Idle_put_user, Idle_forget, Idle_delete_user,
     Idle_create_role, Idle_update_role, Idle_put_role, Idle_delete_role, Idle_invalidate_role
<1>3. CASE \/ revoke_all_tokens(r) \/ run_jwt_rotation(r) \/ put_jwt(r) \/ use_jwt(r)
           \/ put_settings(r) \/ save_settings(r) \/ use_settings(r)
  BY <1>3, IdleStep, Idle_revoke_all_tokens, Idle_run_jwt_rotation, Idle_put_jwt, Idle_use_jwt,
     Idle_put_settings, Idle_save_settings, Idle_use_settings
<1> QED BY <1>1, <1>2, <1>3 DEF IdentityStep

LEMMA Life_RepoStep ==
  ASSUME Shaped, RequestsFit, LifeInv, NEW r \in DOMAIN reqs, RepoStep(r)
  PROVE  LifeInv' /\ Promised /\ risk \subseteq risk'
<1>1. CASE create_repo(r) \/ create_repo_free(r) \/ update_repo(r) \/ delete_repo(r) \/ clone_repo(r)
           \/ create_store(r) \/ update_store(r) \/ delete_store(r)
  BY <1>1, SameStep, Life_create_repo, Life_create_repo_free, Life_update_repo, Life_delete_repo, Life_clone_repo,
     Life_create_store, Life_update_store, Life_delete_store
<1>2. CASE \/ clone_next(r) \/ check_store(r) \/ get_backup(r) \/ post_restore(r) \/ restore_settings(r) \/ restore_end(r)
  BY <1>2, IdleStep, Idle_clone_next, Idle_check_store, Idle_get_backup, Idle_post_restore, Idle_restore_settings,
     Idle_restore_end
<1>3. CASE \/ create_repo_put(r) \/ update_repo_put(r) \/ delete_repo_mark(r) \/ clone_reserve(r) \/ copy_partition(r)
           \/ create_store_put(r) \/ update_store_put(r) \/ delete_store_remove(r) \/ restore_put(r)
  BY <1>3, Life_create_repo_put, Life_update_repo_put, Life_delete_repo_mark, Life_clone_reserve, Life_copy_partition,
     Life_create_store_put, Life_update_store_put, Life_delete_store_remove, Life_restore_put
<1> QED BY <1>1, <1>2, <1>3 DEF RepoStep

LEMMA Life_ArtifactStep ==
  ASSUME Shaped, RequestsFit, LifeInv, NEW r \in DOMAIN reqs, ArtifactStep(r)
  PROVE  LifeInv' /\ Promised /\ risk \subseteq risk'
<1>1. CASE put_artifact(r) \/ commit_ingestion(r)
  BY <1>1, SameStep, Life_put_artifact, Life_commit_ingestion
<1>2. CASE \/ delete_artifact(r) \/ start_bulk_delete(r) \/ bulk_delete(r) \/ clean_repo(r) \/ expire_repo_artifacts(r)
           \/ collect_archive_files(r) \/ fetch_for_archive(r) \/ download_archive(r)
           \/ get_artifact(r) \/ head_artifact(r) \/ paginated_merge(r) \/ paginate_results(r)
  BY <1>2, IdleStep, Idle_delete_artifact, Idle_start_bulk_delete, Idle_bulk_delete, Idle_clean_repo,
     Idle_expire_repo_artifacts, Idle_collect_archive_files, Idle_fetch_for_archive, Idle_download_archive,
     Idle_get_artifact, Idle_head_artifact, Idle_paginated_merge, Idle_paginate_results
<1>3. CASE \/ put_record(r) \/ upsert_tree_file(r) \/ delete_record(r) \/ delete_tree_file(r) \/ delete_tree_recursive(r)
           \/ delete_prefix_artifacts(r) \/ delete_artifacts_paired_batch(r)
  BY <1>3, Life_put_record, Life_upsert_tree_file, Life_delete_record, Life_delete_tree_file, Life_delete_tree_recursive,
     Life_delete_prefix_artifacts, Life_delete_artifacts_paired_batch
<1> QED BY <1>1, <1>2, <1>3 DEF ArtifactStep

LEMMA Life_CheckStep ==
  ASSUME Shaped, LifeInv, NEW r \in DOMAIN reqs, CheckStep(r) \/ CheckFaults(r)
  PROVE  LifeInv' /\ Promised /\ risk \subseteq risk'
<1>1. CASE start_check(r) \/ try_acquire_lease(r) \/ run_check_ends(r) \/ check_cancelled(r)
  BY <1>1, IdleStep, Idle_start_check, Idle_try_acquire_lease, Idle_run_check_ends, Idle_check_cancelled
<1>2. CASE \/ check_begin(r) \/ list_stores(r) \/ scan_all_blobs(r) \/ scan_ends(r) \/ scan_records(r) \/ verify_blob(r)
           \/ delete_blob_counted(r) \/ fold_all_artifacts(r) \/ docker_tags(r) \/ fix_look(r) \/ fix_fails(r)
           \/ check_helm_canonicalization(r)
  BY <1>2, SameStep, Life_check_begin, Life_list_stores, Life_scan_all_blobs, Life_scan_ends, Life_scan_records,
     Life_verify_blob, Life_delete_blob_counted, Life_fold_all_artifacts, Life_docker_tags, Life_fix_look, Life_fix_fails,
     Life_check_helm_canonicalization
<1>3. CASE fix_delete(r) \/ fix_put(r)
  BY <1>3, Life_fix_delete, Life_fix_put
<1> QED BY <1>1, <1>2, <1>3 DEF CheckStep, CheckFaults

LEMMA Life_Works ==
  ASSUME Shaped, RequestsFit, LifeInv, Works
  PROVE  LifeInv' /\ Promised /\ risk \subseteq risk'
<1>1. ASSUME NEW r \in DOMAIN reqs, Step(r)
      PROVE  LifeInv' /\ Promised /\ risk \subseteq risk'
  BY <1>1, Life_IdentityStep, Life_RepoStep, Life_ArtifactStep, Life_CheckStep, Idle_Announce, IdleStep DEF Step
<1>2. ASSUME \/ \E i \in Insts : Materializes(i) \/ Scans(i) \/ reconcile(i)
             \/ Browses
      PROVE  LifeInv' /\ Promised /\ risk \subseteq risk'
  BY <1>2, Rest_Live, RestStep
<1>3. ASSUME NEW i \in Insts, expire(i)
      PROVE  LifeInv' /\ Promised /\ risk \subseteq risk'
  BY <1>3, Rest_caches, RestStep
<1>4. ASSUME NEW d \in Drainers, Drains(d)
      PROVE  LifeInv' /\ Promised /\ risk \subseteq risk'
  BY <1>4, Life_drain_begins, Life_drain_deleting_repo DEF Drains
<1> QED BY <1>1, <1>2, <1>3, <1>4 DEF Works

LEMMA LifeKeeps ==
  ASSUME ControlInv, LifeInv, [Next]_vars
  PROVE  LifeInv' /\ Promised /\ risk \subseteq risk'
<1>1. Shaped /\ RequestsFit
  BY DEF ControlInv
<1>2. CASE Works
  BY <1>1, <1>2, Life_Works
<1>3. CASE \E i \in Insts : run_settings_refresh(i)
  BY <1>3, Rest_caches, RestStep
<1>4. CASE \E r \in DOMAIN reqs : Stops(r) \/ CheckFaults(r)
  BY <1>1, <1>4, Idle_Stops, IdleStep, Life_CheckStep
<1>5. CASE LiveFaults
  BY <1>5, Rest_Live, RestStep
<1>6. CASE \E d \in Drainers : drain_stops(d)
  BY <1>6, Life_drain_stops
<1>7. CASE collect
  BY <1>1, <1>7, Rest_collect, RestStep
<1>8. CASE UNCHANGED vars
  <2>1. kv' = kv /\ drain' = drain /\ reqs' = reqs /\ risk' = risk
    BY <1>8 DEF vars
  <2>2. Same
    BY <2>1, SameIf
  <2> QED BY <2>1, <2>2, RestStep
<1> QED BY <1>2, <1>3, <1>4, <1>5, <1>6, <1>7, <1>8 DEF Next

-----------------------------------------------------------------------------
(* The records at first.                                                    *)

FirstArt(x) == [repo |-> x[1], path |-> x[2], by |-> "init", in |-> "init", id |-> BlobId(x[1], x[2], "init")]
FirstEntry(x) == [repo |-> x[1], path |-> x[2], in |-> "init"]

LEMMA StoreParts ==
  ASSUME NEW a, NEW b, NEW c, NEW d, NEW e, NEW f, NEW g, NEW h, NEW k, NEW l, NEW m, NEW n,
         StoreIs(a, b, c, d, e, f, g, h, k, l, m, n)
  PROVE  kv.repos = a /\ kv.stores = b /\ kv.arts = e /\ kv.tree = f
BY DEF StoreIs

LEMMA InitRecords ==
  ASSUME Init
  PROVE  \E w \in Workloads :
           /\ kv.repos = [n \in Repos |-> IF n \in w.repos THEN Initial(n) ELSE None]
           /\ kv.stores = [s \in Stores |-> IF s = Primary THEN "init" ELSE None]
           /\ kv.arts = {FirstArt(x) : x \in w.arts} /\ kv.tree = {FirstEntry(x) : x \in w.arts}
           /\ drain = [d \in Drainers |-> NoDrain] /\ risk = {}
<1>1. PICK w \in Workloads :
      /\ kv = [repos |-> [n \in Repos |-> IF n \in w.repos THEN Initial(n) ELSE None],
               stores |-> [s \in Stores |-> IF s = Primary THEN "init" ELSE None],
               users |-> [u \in Users |-> User(u)], role |-> "grants",
               arts |-> {[repo |-> x[1], path |-> x[2], by |-> "init", in |-> "init",
                         id |-> BlobId(x[1], x[2], "init")] : x \in w.arts},
               tree |-> {[repo |-> x[1], path |-> x[2], in |-> "init"] : x \in w.arts},
               blobs |-> Blobs(w.arts \ w.lost), recs |-> Blobs(w.arts), stale |-> {},
               jwt |-> [cur |-> "init", prev |-> None], settings |-> [f \in Fields |-> "init"],
               tasks |-> [r \in w.reqs |-> None]]
      /\ drain = [d \in Drainers |-> NoDrain] /\ risk = {}
  BY DEF Init
<1>2. PICK a, b, c, d :
        /\ a = [n \in Repos |-> IF n \in w.repos THEN Initial(n) ELSE None]
        /\ b = [s \in Stores |-> IF s = Primary THEN "init" ELSE None]
        /\ c = [u \in Users |-> User(u)] /\ d = [f \in Fields |-> "init"]
  OBVIOUS
<1>3. PICK e, f :
        /\ e = {[repo |-> x[1], path |-> x[2], by |-> "init", in |-> "init",
                       id |-> BlobId(x[1], x[2], "init")] : x \in w.arts}
        /\ f = {[repo |-> x[1], path |-> x[2], in |-> "init"] : x \in w.arts}
  OBVIOUS
<1>4. PICK g, h, j, k : g = Blobs(w.arts \ w.lost) /\ h = Blobs(w.arts) /\ j = First /\ k = [r \in w.reqs |-> None]
  OBVIOUS
<1>5. StoreIs(a, b, c, "grants", e, f, g, h, {}, j, d, k)
  BY <1>1, <1>2, <1>3, <1>4, Zenon DEF StoreIs, First
<1>6. kv.repos = a /\ kv.stores = b /\ kv.arts = e /\ kv.tree = f
  BY <1>5, StoreParts, Zenon
<1>7. e = {FirstArt(x) : x \in w.arts} /\ f = {FirstEntry(x) : x \in w.arts}
  BY <1>3, Zenon DEF FirstArt, FirstEntry
<1> QED BY <1>1, <1>2, <1>6, <1>7, Zenon

LEMMA FirstFile ==
  ASSUME NEW w \in Workloads, NEW x \in w.arts
  PROVE  /\ IsFile(FirstArt(x)) /\ IsEntry(FirstEntry(x))
         /\ FirstArt(x).repo \in w.repos /\ FirstEntry(x).repo \in w.repos
         /\ FirstArt(x).in = "init" /\ FirstEntry(x).in = "init"
<1>1. PICK n, p : x = <<n, p>> /\ n \in w.repos /\ p \in AllPaths
  BY ControlAssumption DEF AllPaths
<1>2. PICK b : b = BlobId(n, p, "init")
  OBVIOUS
<1>3. FirstArt(x) = [repo |-> n, path |-> p, by |-> "init", in |-> "init", id |-> b]
  BY <1>1, <1>2 DEF FirstArt
<1>4. FirstEntry(x) = [repo |-> n, path |-> p, in |-> "init"]
  BY <1>1 DEF FirstEntry
<1>5. IsFile([repo |-> n, path |-> p, by |-> "init", in |-> "init", id |-> b])
  BY <1>1 DEF IsFile
<1>6. IsEntry([repo |-> n, path |-> p, in |-> "init"])
  BY <1>1 DEF IsEntry
<1> QED BY <1>1, <1>3, <1>4, <1>5, <1>6

LEMMA FirstRecords ==
  ASSUME Init
  PROVE  LifeInv /\ risk = {} /\ \A n \in Repos : LifeOf(n) \in {"absent", "live"} /\ (LifeOf(n) = "absent" => FilesOf(n) = {})
<1>1. PICK w \in Workloads :
        /\ kv.repos = [n \in Repos |-> IF n \in w.repos THEN Initial(n) ELSE None]
        /\ kv.stores = [s \in Stores |-> IF s = Primary THEN "init" ELSE None]
        /\ kv.arts = {FirstArt(x) : x \in w.arts} /\ kv.tree = {FirstEntry(x) : x \in w.arts}
        /\ drain = [d \in Drainers |-> NoDrain] /\ risk = {}
  BY InitRecords
<1>2. w.repos \subseteq Repos /\ Primary \in Stores /\ None # "init"
  BY ControlAssumption
<1>3. \A n \in Repos : Initial(n) \in RepoRecord /\ Initial(n) # None
  BY <1>2, RecordIsSome DEF Initial, RepoRecord, Makers
<1>4. FilesTyped
  <2>1. IsFiniteSet(kv.arts)
    <3> DEFINE f == [x \in w.arts |-> FirstArt(x)]
    <3>1. IsFiniteSet(DOMAIN f)
      BY ControlAssumption
    <3>2. kv.arts = {f[x] : x \in DOMAIN f}
      BY <1>1
    <3> HIDE DEF f
    <3> QED BY <3>1, <3>2, FiniteRange
  <2> QED BY <1>1, <2>1, FirstFile DEF FilesTyped
<1>5. NamesTyped
  <2>1. kv.repos \in [Repos -> RepoRecord \cup {None}]
    BY <1>1, <1>3
  <2>2. kv.stores \in [Stores -> {"init", None}]
    BY <1>1
  <2> QED BY <2>1, <2>2 DEF NamesTyped
<1>6. \A r \in DOMAIN reqs : Ready(r) /\ UsesFit(r)
  <2>1. ASSUME NEW r \in DOMAIN reqs
        PROVE  reqs[r].pc = "start"
    BY <2>1, InitShaped DEF Start
  <2> SUFFICES ASSUME NEW r \in DOMAIN reqs
               PROVE  Ready(r) /\ UsesFit(r)
    OBVIOUS
  <2>2. StepFits(r)
    BY <2>1 DEF StepFits, Owner
  <2>3. HasRecord(r)
    BY <2>1 DEF HasRecord, Rewrites, At
  <2>4. PlanFits(r)
    BY <2>1 DEF PlanFits, At, PlanPcs, FixPcs
  <2>5. UsesFit(r)
    BY <2>1 DEF UsesFit, Rewrites, At
  <2> QED BY <2>2, <2>3, <2>4, <2>5 DEF Ready
<1>7. \A x \in kv.arts \cup kv.tree : x.repo \in w.repos /\ x.in = "init"
  BY <1>1, FirstFile
<1>8. NewIsEmpty
  BY <1>1, <1>2, <1>3, <1>7 DEF NewIsEmpty, Initial
<1>9. DrainFits
  <2>1. NoDrain \in DrainRecord /\ None \notin Repos
    BY ControlAssumption DEF NoDrain, DrainRecord
  <2>2. \A d \in Drainers : drain[d] = NoDrain
    BY <1>1
  <2>3. \A d \in Drainers : DrainSafe(d)
    BY <2>1, <2>2 DEF DrainSafe, Finished, Pending, NoDrain
  <2> QED BY <1>1, <2>1, <2>3 DEF DrainFits
<1>10. StoreInUse
  BY <1>1, <1>2 DEF StoreInUse, list_repos, Shows, Initial
<1>11. ASSUME NEW n \in Repos
       PROVE  LifeOf(n) \in {"absent", "live"} /\ (LifeOf(n) = "absent" => FilesOf(n) = {})
  <2>1. CASE n \in w.repos
    BY <1>1, <1>3, <2>1 DEF LifeOf, Initial
  <2>2. CASE n \notin w.repos
    <3>1. FilesOf(n) = {}
      BY <1>7, <2>2 DEF FilesOf
    <3> QED BY <1>1, <2>2, <3>1 DEF LifeOf
  <2> QED BY <2>1, <2>2
<1> QED BY <1>1, <1>4, <1>5, <1>6, <1>8, <1>9, <1>10, <1>11 DEF LifeInv, StoreFits

LEMMA FirstPromised ==
  ASSUME Init
  PROVE  Lifecycle!Init
<1> DEFINE life == [n \in Repos |-> LifeOf(n)]
           files == [n \in Repos |-> FilesOf(n)]
<1>1. /\ life = [n \in Repos |-> IF kv.repos[n] = None THEN "absent" ELSE IF kv.repos[n].deleting THEN "deleting" ELSE "live"]
      /\ files = [n \in Repos |-> {x.path : x \in {y \in kv.arts \cup kv.tree : y.repo = n}}]
  BY DEF LifeOf, FilesOf
<1>2. /\ LifeInv /\ risk = {}
      /\ \A n \in Repos : LifeOf(n) \in {"absent", "live"} /\ (LifeOf(n) = "absent" => FilesOf(n) = {})
  BY FirstRecords
<1>3. \A n \in Repos : FilesOf(n) \subseteq AllPaths
  BY <1>2, PathsTyped DEF LifeInv
<1>4. /\ life \in [Repos -> {"absent", "live"}] /\ files \in [Repos -> SUBSET (Paths \cup OddPaths)]
      /\ \A n \in Repos : life[n] = "absent" => files[n] = {}
  BY <1>2, <1>3 DEF AllPaths
<1>5. Except({"overwritten", "late", "restored", "undrained"}) = FALSE
  BY <1>2 DEF Except
<1> HIDE DEF life, files
<1> QED BY <1>1, <1>4, <1>5 DEF Lifecycle!Init

\* All along, records and requests are in order (the inductive invariant of the
\* life of a repository, with that of the requests).
THEOREM LifeInvariant == Spec => [](ControlInv /\ LifeInv)
<1>1. Init => ControlInv /\ LifeInv
  BY FirstState, FirstRecords
<1>2. ControlInv /\ LifeInv /\ [Next]_vars => (ControlInv /\ LifeInv)'
  BY NextKeeps, LifeKeeps
<1> QED BY <1>1, <1>2, PTL DEF Spec

\* A repository has no files or entries of an earlier one of its name, for every
\* number of instances and requests (drain_deleting_repo, put_record, fix_put).
THEOREM NewRepositoriesAreEmpty == Spec => []NewIsEmpty
<1>1. ControlInv /\ LifeInv => NewIsEmpty
  BY DEF LifeInv
<1> QED BY <1>1, LifeInvariant, PTL

\* The store of a live repository is there (delete_store, create_repo, update_repo,
\* clone_repo).
THEOREM StoresAreThere == Spec => []StoreInUse
<1>1. ControlInv /\ LifeInv => StoreInUse
  BY DEF LifeInv
<1> QED BY <1>1, LifeInvariant, PTL

\* The handlers implement the life of a repository that RepoLifecycle promises.
THEOREM LifecycleHolds == Spec => LifecycleKept
<1>1. Init => Lifecycle!Init
  BY FirstPromised
<1>2. ControlInv /\ LifeInv /\ [Next]_vars => [Lifecycle!Next]_(Lifecycle!vars)
  <2> SUFFICES ASSUME ControlInv, LifeInv, [Next]_vars
               PROVE  [Lifecycle!Next]_(Lifecycle!vars)
    OBVIOUS
  <2>1. LifeInv' /\ Promised /\ risk \subseteq risk'
    BY LifeKeeps
  <2> QED BY <2>1, PromisedSteps DEF LifeInv
<1> QED BY <1>1, <1>2, LifeInvariant, PTL DEF Spec, LifecycleKept, Lifecycle!Spec

=============================================================================
