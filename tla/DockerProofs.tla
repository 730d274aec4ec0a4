---------------------------- MODULE DockerProofs ----------------------------
(***************************************************************************)
(* Proofs about DockerRegistry, and the uploads of DockerUpload in it, for *)
(* any requests, workloads and failures.                                   *)
(***************************************************************************)
EXTENDS DockerRegistry, TLAPS

Safe == risk \cap (UploadRisks \cup {"unverified"}) = {}

\* A deduplication record names the blob, and names it for the content.
Named(blob) == \E d \in dedup : d.blob = blob
Backed(blob, content) == \E d \in dedup : d.blob = blob /\ d.digest = content

-----------------------------------------------------------------------------
(* Types.  W stands for the values that are only passed on: contents,      *)
(* digests of layers, positions in a listing.                              *)

Request(W) ==
    [pc: Steps, snap: Session \cup {None}, tries: Nat, body: BOOLEAN, want: W,
     w: [buf: W, linked: BOOLEAN, multipart: BOOLEAN], hit: BlobIds \cup {None}]
Operation(W) ==
    [pc: OpSteps, at: W, digest: W, blob: W, todo: W, last: W, answer: W]
Layer(W)    == [repo: W, digest: W, blob: BlobIds, old: BOOLEAN]
Manifest(W) == [repo: W, digest: Manifests, blob: BlobIds, old: BOOLEAN]
Tag(W)      == [repo: W, tag: Tags, digest: Manifests, old: BOOLEAN]
Cleaner     == [pc: {"idle", "chunks", "blob", "session"}, got: Session \cup {None}]
Collector(W) ==
    [pc: {"idle", "scan", "sweep", "untagged"}, turn: W, todo: W, arts: W, manifests: W, tags: W]

RequestsIn(W) == req \in [DOMAIN req -> Request(W)]
OpsIn(W)      == ops \in [DOMAIN ops -> Operation(W)]
RecordsIn(W)  == arts \subseteq Layer(W) /\ manifests \subseteq Manifest(W) /\ tags \subseteq Tag(W)

\* What a request has at hand at which step, and its place in the store.
AtHand ==
    /\ DOMAIN req \cup DOMAIN ops \cup {Target} \subseteq DOMAIN objs
    /\ \A r \in DOMAIN req \cap (Patches \cup Finals) :
         req[r].pc \in {"start", "done"} \/ req[r].snap \in Session
    /\ \A o \in DOMAIN ops :
         /\ ops[o].pc \in {"blob", "claim", "tag", "manifest"} => ops[o].digest \in Manifests
         /\ ops[o].pc \in {"tag", "manifest", "layer record"} => ops[o].blob \in BlobIds
    /\ clean \in Cleaner /\ (clean.pc = "idle" <=> clean.got = None)

Typed ==
    /\ RegistryTypeOK /\ AtHand
    /\ \E W : RequestsIn(W)
    /\ \E W : OpsIn(W)
    /\ \E W : RecordsIn(W)
    /\ \E W : gc \in Collector(W)

-----------------------------------------------------------------------------
(* The session: one POST opens it, and its version tells its chunks.       *)

Opened ==
    At(Post, "start") =>
      /\ session = None /\ clean.got = None
      /\ \A r \in DOMAIN req \cap (Patches \cup Finals) : req[r].pc \in {"start", "done"}

VersionsFit ==
    session # None =>
      \A p \in DOMAIN req \cap Patches :
        req[p].pc \notin {"start", "done"} =>
          /\ req[p].snap.ver <= session.ver
          /\ req[p].snap.ver = session.ver => req[p].snap.chunks = session.chunks

SessionInv == Opened /\ VersionsFit /\ AcceptedKept

-----------------------------------------------------------------------------
(* Blobs.                                                                  *)

\* A registered blob has its content, and is none that a request still deletes.
Registers(d) ==
    /\ d.blob \in DOMAIN objs /\ d.blob \notin Patches \cup Finals \cup {Post}
    /\ objs[d.blob] = d.digest
    /\ d.blob \in OtherIds => d.blob = CopyId(d.digest)
    /\ d.blob \in Monos =>
         /\ d.blob \in DOMAIN req
         /\ req[d.blob].pc \in {"record", "drop", "done"} /\ req[d.blob].hit = None
    /\ d.blob \in Ops =>
         /\ d.blob \in DOMAIN ops
         /\ ops[d.blob].pc \in {"tag", "manifest", "layer record", "done"}
         /\ ops[d.blob].pc = "layer record" => ops[d.blob].blob = d.blob
DedupFits == \A d \in dedup : Registers(d)

\* Records name registered blobs, and a path has one record.
LayersFit ==
    /\ \A a \in arts : Backed(a.blob, a.digest)
    /\ \A a, b \in arts : a.repo = b.repo /\ a.digest = b.digest => a = b
ManifestsFit == \A m \in manifests : Backed(m.blob, <<m.digest>>)

\* What a request is about to claim it has written, what it is about to record
\* is registered.
MonosFit ==
    \A m \in DOMAIN req \cap Monos :
      /\ req[m].pc = "claim" => objs[m] = MonoContent[m]
      /\ req[m].pc = "record" => Backed(Chosen(m, m), MonoContent[m])

FinalsFit ==
    \A q \in DOMAIN req \cap Finals :
      /\ req[q].pc = "assemble" => req[q].w.linked
      /\ req[q].pc \in {"verify", "claim"} => objs[Target] = req[q].w.buf
      /\ req[q].pc = "record" => Backed(Chosen(q, Target), req[q].w.buf)

OpFits(o) ==
    /\ ops[o].pc = "claim" => objs[o] = <<ops[o].digest>>
    /\ ops[o].pc \in {"tag", "manifest"} => Backed(ops[o].blob, <<ops[o].digest>>)
    /\ ops[o].pc = "layer claim" => objs[o] = Ask[o].digest
    /\ ops[o].pc = "layer record" => Backed(ops[o].blob, Ask[o].digest)
    /\ ops[o].pc \in {"layers", "manifests", "copy tag", "drop tag"} => Kind(o) = "copy"
    /\ (ops[o].pc \in {"blob", "claim", "tag", "manifest"} /\ Ask[o].tag = None)
         => \/ ops[o].digest = Ask[o].digest
            \/ "uncompared" \in risk /\ Kind(o) # "get blob" /\ Passes(o)
OpsFit == \A o \in DOMAIN ops : OpFits(o)

\* One final PUT runs at a time, and never with the cleanup of its session.
OneFinal ==
    \A q \in Finals :
      Running(q) => /\ clean.got = None
                    /\ \A o \in Finals : Running(o) => o = q

\* Once the session's blob is registered nobody is left who deletes it: the final
\* PUT that registered it has the session deleted first of all.
Claimed(q) == q \in DOMAIN req /\ req[q].pc \in {"record", "end"}
TargetKept ==
    Named(Target) =>
      /\ clean.got = None /\ ~At(Post, "start")
      /\ session = None \/ \E q \in Finals : Claimed(q)
      /\ \A q \in Finals :
           Running(q) => req[q].pc \in {"record", "end", "drop", "chunks"} /\ req[q].hit = None

AnswersFit == \A o \in DOMAIN ops : AnswerFits(o)

BlobInv ==
    /\ DedupFits /\ LayersFit /\ ManifestsFit
    /\ MonosFit /\ FinalsFit /\ OpsFit
    /\ OneFinal /\ TargetKept /\ AnswersFit

DockerInv == Typed /\ SessionInv /\ (Safe => BlobInv)

-----------------------------------------------------------------------------

LEMMA SomeValues ==
  ASSUME Typed
  PROVE  \E W : RequestsIn(W) /\ <<>> \in W
<1>1. PICK W : RequestsIn(W)
  BY DEF Typed
<1>2. RequestsIn(W \cup {<<>>})
  BY <1>1 DEF RequestsIn, Request
<1> QED
  BY <1>2

LEMMA Wider ==
  ASSUME NEW W, RequestsIn(W), NEW V, W \subseteq V
  PROVE  RequestsIn(V)
BY DEF RequestsIn, Request

-----------------------------------------------------------------------------
(* What the steps do to the requests.                                      *)

LEMMA NewTyped ==
  ASSUME NEW W, <<>> \in W, NEW pc \in Steps
  PROVE  /\ NewRequest(pc) \in Request(W)
         /\ NewRequest(pc).pc = pc /\ NewRequest(pc).snap = None /\ NewRequest(pc).hit = None
BY DEF NewRequest, Request, Blobs!NewWriter

LEMMA UnlinkTyped ==
  ASSUME NEW W, NEW x \in Request(W)
  PROVE  /\ Unlink(x) \in Request(W)
         /\ Unlink(x).pc = x.pc /\ Unlink(x).snap = x.snap /\ Unlink(x).hit = x.hit
         /\ Unlink(x).want = x.want /\ Unlink(x).w.buf = x.w.buf /\ Unlink(x).body = x.body
BY DEF Unlink, Request, Blobs!InPlace

\* The request of r becomes x, the others stay.
Gives(r, x) == req' = [req EXCEPT ![r] = x]

LEMMA GivesReq ==
  ASSUME NEW W, RequestsIn(W), NEW r \in DOMAIN req, NEW x \in Request(W), Gives(r, x)
  PROVE  /\ RequestsIn(W)' /\ DOMAIN req' = DOMAIN req /\ req'[r] = x
         /\ \A s \in DOMAIN req \ {r} : req'[s] = req[s]
BY DEF RequestsIn, Gives

\* The request of r becomes x, those of others may lose their file.
Cuts(r, x) == req' = [f \in DOMAIN req |-> IF f = r THEN x ELSE Unlink(req[f])]

LEMMA CutsReq ==
  ASSUME NEW W, RequestsIn(W), NEW r \in DOMAIN req, NEW x \in Request(W), Cuts(r, x)
  PROVE  /\ RequestsIn(W)' /\ DOMAIN req' = DOMAIN req /\ req'[r] = x
         /\ \A s \in DOMAIN req \ {r} :
              /\ req'[s].pc = req[s].pc /\ req'[s].snap = req[s].snap /\ req'[s].hit = req[s].hit
              /\ req'[s].w.buf = req[s].w.buf
<1>1. \A s \in DOMAIN req : Unlink(req[s]) \in Request(W)
  BY UnlinkTyped DEF RequestsIn
<1>2. \A s \in DOMAIN req :
        /\ Unlink(req[s]).pc = req[s].pc /\ Unlink(req[s]).snap = req[s].snap
        /\ Unlink(req[s]).hit = req[s].hit /\ Unlink(req[s]).w.buf = req[s].w.buf
  BY UnlinkTyped DEF RequestsIn
<1> QED
  BY <1>1, <1>2 DEF RequestsIn, Cuts

LEMMA AnswerReq ==
  ASSUME Typed, NEW r \in DOMAIN req, NEW status, Answer(r, status)
  PROVE  /\ \E W : RequestsIn(W)'
         /\ DOMAIN req' = DOMAIN req /\ req'[r] = NewRequest("done")
         /\ req'[r].pc = "done" /\ req'[r].snap = None /\ req'[r].hit = None
         /\ \A s \in DOMAIN req \ {r} : req'[s] = req[s]
<1>1. PICK W : RequestsIn(W) /\ <<>> \in W
  BY SomeValues
<1>2. NewRequest("done") \in Request(W) /\ NewRequest("done").pc = "done"
      /\ NewRequest("done").snap = None /\ NewRequest("done").hit = None
  BY <1>1, NewTyped DEF Steps
<1>3. Gives(r, NewRequest("done"))
  BY DEF Answer, Gives
<1> QED
  BY <1>1, <1>2, <1>3, GivesReq

LEMMA SetPc ==
  ASSUME NEW W, NEW x \in Request(W), NEW pc \in Steps
  PROVE  LET y == [x EXCEPT !.pc = pc] IN
         /\ y \in Request(W) /\ y.pc = pc
         /\ y.snap = x.snap /\ y.hit = x.hit /\ y.w = x.w /\ y.body = x.body /\ y.want = x.want
BY DEF Request

LEMMA GotoReq ==
  ASSUME Typed, NEW r \in DOMAIN req, NEW pc \in Steps, Goto(r, pc)
  PROVE  /\ \E W : RequestsIn(W)'
         /\ DOMAIN req' = DOMAIN req /\ req'[r].pc = pc
         /\ req'[r].snap = req[r].snap /\ req'[r].hit = req[r].hit /\ req'[r].w = req[r].w
         /\ req'[r].body = req[r].body /\ req'[r].want = req[r].want
         /\ \A s \in DOMAIN req \ {r} : req'[s] = req[s]
<1>1. PICK W : RequestsIn(W)
  BY DEF Typed
<1>2. Gives(r, [req[r] EXCEPT !.pc = pc]) /\ req[r] \in Request(W)
  BY <1>1 DEF Goto, Gives, RequestsIn
<1> DEFINE x == [req[r] EXCEPT !.pc = pc]
<1>3. x \in Request(W) /\ x.pc = pc /\ x.snap = req[r].snap /\ x.hit = req[r].hit /\ x.w = req[r].w
      /\ x.body = req[r].body /\ x.want = req[r].want
  BY <1>2, SetPc
<1> HIDE DEF x
<1> QED
  BY <1>1, <1>2, <1>3, GivesReq DEF x

Snaps(r, pc, snap) == req' = [req EXCEPT ![r].pc = pc, ![r].snap = snap]

LEMMA SnapReq ==
  ASSUME Typed, NEW r \in DOMAIN req, NEW pc \in Steps, NEW snap \in Session, Snaps(r, pc, snap)
  PROVE  /\ \E W : RequestsIn(W)'
         /\ DOMAIN req' = DOMAIN req /\ req'[r].pc = pc /\ req'[r].snap = snap
         /\ req'[r].hit = req[r].hit /\ req'[r].w = req[r].w
         /\ \A s \in DOMAIN req \ {r} : req'[s] = req[s]
<1>1. PICK W : RequestsIn(W)
  BY DEF Typed
<1> DEFINE x == [req[r] EXCEPT !.pc = pc, !.snap = snap]
<1>2. Gives(r, x) /\ req[r] \in Request(W)
  BY <1>1 DEF Gives, RequestsIn, Snaps
<1>3. x \in Request(W) /\ x.pc = pc /\ x.snap = snap /\ x.hit = req[r].hit /\ x.w = req[r].w
  BY <1>2 DEF Request
<1> HIDE DEF x
<1> QED
  BY <1>1, <1>2, <1>3, GivesReq

Hits(r, pc, hit) == req' = [req EXCEPT ![r].pc = pc, ![r].hit = hit]

LEMMA HitReq ==
  ASSUME Typed, NEW r \in DOMAIN req, NEW pc \in Steps, NEW hit \in BlobIds \cup {None},
         Hits(r, pc, hit)
  PROVE  /\ \E W : RequestsIn(W)'
         /\ DOMAIN req' = DOMAIN req /\ req'[r].pc = pc /\ req'[r].hit = hit
         /\ req'[r].snap = req[r].snap /\ req'[r].w = req[r].w
         /\ \A s \in DOMAIN req \ {r} : req'[s] = req[s]
<1>1. PICK W : RequestsIn(W)
  BY DEF Typed
<1> DEFINE x == [req[r] EXCEPT !.pc = pc, !.hit = hit]
<1>2. Gives(r, x) /\ req[r] \in Request(W)
  BY <1>1 DEF Gives, RequestsIn, Hits
<1>3. x \in Request(W) /\ x.pc = pc /\ x.hit = hit /\ x.snap = req[r].snap /\ x.w = req[r].w
  BY <1>2 DEF Request
<1> HIDE DEF x
<1> QED
  BY <1>1, <1>2, <1>3, GivesReq

\* A claim: the blob is registered by the call, or another was before.
LEMMA ClaimReq ==
  ASSUME Typed, NEW r \in DOMAIN req, NEW digest, NEW blob \in BlobIds, Claim(r, digest, blob)
  PROVE  /\ \E W : RequestsIn(W)'
         /\ DOMAIN req' = DOMAIN req /\ req'[r].pc = "record"
         /\ req'[r].snap = req[r].snap /\ req'[r].w = req[r].w
         /\ \A s \in DOMAIN req \ {r} : req'[s] = req[s]
         /\ \/ /\ req'[r].hit = None /\ dedup' = dedup \cup {BlobRecord(Repo, digest, blob)}
               /\ Registered(Repo, digest) = {}
            \/ /\ \E d \in dedup : d.digest = digest /\ req'[r].hit = d.blob
               /\ dedup' = dedup
         /\ \A d \in dedup' : d.blob \in BlobIds
<1>0. \A d \in dedup : d.blob \in BlobIds
  BY DEF Typed, RegistryTypeOK, UploadTypeOK
<1>1. CASE Registered(Repo, digest) = {}
  <2>1. Hits(r, "record", None) /\ dedup' = dedup \cup {BlobRecord(Repo, digest, blob)}
    BY <1>1 DEF Claim, Hits
  <2>2. \A d \in dedup' : d.blob \in BlobIds
    BY <1>0, <2>1 DEF BlobRecord
  <2>3. "record" \in Steps /\ None \in BlobIds \cup {None}
    BY DEF Steps
  <2> QED
    BY <1>1, <2>1, <2>2, <2>3, HitReq
<1>2. CASE Registered(Repo, digest) # {}
  <2>1. PICK d \in Registered(Repo, digest) : Hits(r, "record", d.blob)
    BY <1>2 DEF Claim, Hits
  <2>2. dedup' = dedup
    BY <1>2 DEF Claim
  <2>3. d \in dedup /\ d.digest = digest /\ d.blob \in BlobIds \cup {None} /\ "record" \in Steps
    BY <1>0, <2>1 DEF Registered, Steps
  <2> QED
    BY <1>0, <2>1, <2>2, <2>3, HitReq
<1> QED
  BY <1>1, <1>2

\* The body of the final PUT becomes the last chunk.
Tails(r, q, body) ==
    req' = [req EXCEPT ![r].pc = "create", ![r].snap.chunks = IF body THEN Append(@, q) ELSE @]

LEMMA Appended ==
  ASSUME NEW snap \in Session, NEW p \in Chunks
  PROVE  [chunks |-> Append(snap.chunks, p), ver |-> snap.ver + 1, fresh |-> TRUE] \in Session
<1>1. snap.chunks \in Seq(Chunks) /\ snap.ver \in Nat
  BY DEF Session
<1>2. Append(snap.chunks, p) \in Seq(Chunks)
  BY <1>1
<1> QED
  BY <1>1, <1>2 DEF Session

LEMMA SetChunks ==
  ASSUME NEW old \in Session, NEW chunks \in Seq(Chunks)
  PROVE  [old EXCEPT !.chunks = chunks] \in Session
BY DEF Session

LEMMA SetSnap ==
  ASSUME NEW W, NEW x \in Request(W), NEW snap \in Session
  PROVE  LET y == [x EXCEPT !.snap = snap] IN
         y \in Request(W) /\ y.pc = x.pc /\ y.snap = snap /\ y.hit = x.hit
BY DEF Request

LEMMA TailReq ==
  ASSUME Typed, NEW r \in DOMAIN req, req[r].snap \in Session, NEW q \in Chunks, NEW body, Tails(r, q, body)
  PROVE  /\ \E W : RequestsIn(W)'
         /\ DOMAIN req' = DOMAIN req /\ req'[r].pc = "create" /\ req'[r].snap \in Session
         /\ req'[r].hit = req[r].hit
         /\ \A s \in DOMAIN req \ {r} : req'[s] = req[s]
<1>1. PICK W : RequestsIn(W)
  BY DEF Typed
<1> DEFINE x == [req[r] EXCEPT !.pc = "create"]
           chunks == IF body THEN Append(x.snap.chunks, q) ELSE x.snap.chunks
           snap == [x.snap EXCEPT !.chunks = chunks]
<1>2. x \in Request(W) /\ x.pc = "create" /\ x.snap = req[r].snap /\ x.hit = req[r].hit
  BY <1>1 DEF RequestsIn, Request, Steps
<1>3. Gives(r, [x EXCEPT !.snap = snap])
  BY <1>1 DEF Tails, Gives, RequestsIn
<1> HIDE DEF x
<1>4. x.snap.chunks \in Seq(Chunks)
  BY <1>2 DEF Session
<1>5. chunks \in Seq(Chunks)
  BY <1>4
<1>6. snap \in Session
  BY <1>2, <1>5, SetChunks
<1> HIDE DEF snap
<1>7. [x EXCEPT !.snap = snap] \in Request(W) /\ [x EXCEPT !.snap = snap].pc = "create"
      /\ [x EXCEPT !.snap = snap].snap = snap /\ [x EXCEPT !.snap = snap].hit = req[r].hit
  BY <1>2, <1>6, SetSnap
<1> QED
  BY <1>1, <1>6, <1>3, <1>7, GivesReq

\* The writer of the session's blob.
Writes(r, pc, w) == req' = [req EXCEPT ![r].pc = pc, ![r].w = w]

LEMMA WriterReq ==
  ASSUME Typed, NEW W, RequestsIn(W), NEW r \in DOMAIN req, NEW pc \in Steps,
         NEW w \in [buf: W, linked: BOOLEAN, multipart: BOOLEAN], Writes(r, pc, w)
  PROVE  /\ \E V : RequestsIn(V)'
         /\ DOMAIN req' = DOMAIN req /\ req'[r].pc = pc /\ req'[r].w = w
         /\ req'[r].snap = req[r].snap /\ req'[r].hit = req[r].hit
         /\ \A s \in DOMAIN req \ {r} : req'[s] = req[s]
<1> DEFINE x == [req[r] EXCEPT !.pc = pc, !.w = w]
<1>1. Gives(r, x) /\ req[r] \in Request(W)
  BY DEF Gives, RequestsIn, Writes
<1>2. x \in Request(W) /\ x.pc = pc /\ x.w = w /\ x.snap = req[r].snap /\ x.hit = req[r].hit
  BY <1>1 DEF Request
<1> HIDE DEF x
<1> QED
  BY <1>1, <1>2, GivesReq

LEMMA CreateReq ==
  ASSUME Typed, NEW r \in DOMAIN req, Writes(r, "assemble", Blobs!NewWriter(TRUE))
  PROVE  /\ \E W : RequestsIn(W)'
         /\ DOMAIN req' = DOMAIN req /\ req'[r].pc = "assemble" /\ req'[r].w.linked
         /\ req'[r].snap = req[r].snap /\ req'[r].hit = req[r].hit
         /\ \A s \in DOMAIN req \ {r} : req'[s] = req[s]
<1>1. PICK W : RequestsIn(W) /\ <<>> \in W
  BY SomeValues
<1>2. Blobs!NewWriter(TRUE) \in [buf: W, linked: BOOLEAN, multipart: BOOLEAN]
      /\ Blobs!NewWriter(TRUE).linked
  BY <1>1 DEF Blobs!NewWriter
<1>3. PICK w \in [buf: W, linked: BOOLEAN, multipart: BOOLEAN] :
        w.linked /\ Writes(r, "assemble", w)
  BY <1>2
<1>4. "assemble" \in Steps
  BY DEF Steps
<1> QED
  BY <1>1, <1>3, <1>4, WriterReq

LEMMA WholeReq ==
  ASSUME Typed, NEW r \in DOMAIN req, NEW ids, Writes(r, "verify", Assembled(req[r].w, ids))
  PROVE  /\ \E W : RequestsIn(W)'
         /\ DOMAIN req' = DOMAIN req /\ req'[r].pc = "verify"
         /\ req'[r].w.linked = req[r].w.linked
         /\ req'[r].w = Assembled(req[r].w, ids)
         /\ req'[r].snap = req[r].snap /\ req'[r].hit = req[r].hit
         /\ \A s \in DOMAIN req \ {r} : req'[s] = req[s]
<1>1. PICK V : RequestsIn(V)
  BY DEF Typed
<1>2. PICK pieces : Assembled(req[r].w, ids) = [req[r].w EXCEPT !.buf = @ \o pieces]
  BY DEF Assembled, Blobs!write_chunk, Blobs!s3_write_chunk, Blobs!direct_write_chunk
<1>3. PICK buf : buf = req[r].w.buf \o pieces
  OBVIOUS
<1>4. RequestsIn(V \cup {buf})
  BY <1>1, Wider
<1>5. PICK W : RequestsIn(W) /\ buf \in W
  BY <1>4
<1>6. req[r].w \in [buf: W, linked: BOOLEAN, multipart: BOOLEAN]
  BY <1>5 DEF RequestsIn, Request
<1>7. Assembled(req[r].w, ids) = [req[r].w EXCEPT !.buf = buf]
  BY <1>2, <1>3, <1>6
<1>8. /\ Assembled(req[r].w, ids) \in [buf: W, linked: BOOLEAN, multipart: BOOLEAN]
      /\ Assembled(req[r].w, ids).linked = req[r].w.linked
  BY <1>5, <1>6, <1>7
<1>9. "verify" \in Steps
  BY DEF Steps
<1> QED
  BY <1>5, <1>8, <1>9, WriterReq

Reads(r, body, want) ==
    req' = [req EXCEPT ![r].pc = "write", ![r].snap = session, ![r].body = body, ![r].want = want]

LEMMA ReadReq ==
  ASSUME Typed, NEW r \in DOMAIN req, session \in Session, NEW body \in BOOLEAN, NEW want,
         Reads(r, body, want)
  PROVE  /\ \E W : RequestsIn(W)'
         /\ DOMAIN req' = DOMAIN req /\ req'[r].pc = "write" /\ req'[r].snap = session
         /\ req'[r].hit = req[r].hit
         /\ \A s \in DOMAIN req \ {r} : req'[s] = req[s]
<1>1. PICK V : RequestsIn(V)
  BY DEF Typed
<1>2. PICK W : RequestsIn(W) /\ want \in W
  <2>1. RequestsIn(V \cup {want})
    BY <1>1, Wider
  <2> QED
    BY <2>1
<1>3. "write" \in Steps
  BY DEF Steps
<1> QED
  BY <1>2, <1>3 DEF RequestsIn, Request, Reads

Rereads(r) == req' = [req EXCEPT ![r].pc = "reread", ![r].tries = @ + 1]

LEMMA RereadReq ==
  ASSUME Typed, NEW r \in DOMAIN req, Rereads(r)
  PROVE  /\ \E W : RequestsIn(W)'
         /\ DOMAIN req' = DOMAIN req /\ req'[r].pc = "reread" /\ req'[r].snap = req[r].snap
         /\ req'[r].hit = req[r].hit
         /\ \A s \in DOMAIN req \ {r} : req'[s] = req[s]
<1>1. PICK W : RequestsIn(W)
  BY DEF Typed
<1>2. "reread" \in Steps
  BY DEF Steps
<1> QED
  BY <1>1, <1>2 DEF RequestsIn, Request, Rereads

\* The request ends, or goes on, while session.blob_id is deleted.
Ends(r) == Cuts(r, NewRequest("done"))
Drops(r) == Cuts(r, [req[r] EXCEPT !.pc = "chunks"])

LEMMA EndsReq ==
  ASSUME Typed, NEW r \in DOMAIN req, Ends(r)
  PROVE  /\ \E W : RequestsIn(W)'
         /\ DOMAIN req' = DOMAIN req
         /\ req'[r].pc = "done" /\ req'[r].snap = None /\ req'[r].hit = None
         /\ \A s \in DOMAIN req \ {r} :
              /\ req'[s].pc = req[s].pc /\ req'[s].snap = req[s].snap /\ req'[s].hit = req[s].hit
              /\ req'[s].w.buf = req[s].w.buf
<1>1. PICK W : RequestsIn(W) /\ <<>> \in W
  BY SomeValues
<1>2. NewRequest("done") \in Request(W) /\ NewRequest("done").pc = "done"
      /\ NewRequest("done").snap = None /\ NewRequest("done").hit = None
  BY <1>1, NewTyped DEF Steps
<1> QED
  BY <1>1, <1>2, CutsReq DEF Ends

LEMMA DropsReq ==
  ASSUME Typed, NEW r \in DOMAIN req, Drops(r)
  PROVE  /\ \E W : RequestsIn(W)'
         /\ DOMAIN req' = DOMAIN req
         /\ req'[r].pc = "chunks" /\ req'[r].snap = req[r].snap /\ req'[r].hit = req[r].hit
         /\ \A s \in DOMAIN req \ {r} :
              /\ req'[s].pc = req[s].pc /\ req'[s].snap = req[s].snap /\ req'[s].hit = req[s].hit
              /\ req'[s].w.buf = req[s].w.buf
<1>1. PICK W : RequestsIn(W)
  BY DEF Typed
<1> DEFINE x == [req[r] EXCEPT !.pc = "chunks"]
<1>2. x \in Request(W) /\ x.pc = "chunks" /\ x.snap = req[r].snap /\ x.hit = req[r].hit
  BY <1>1 DEF RequestsIn, Request, Steps
<1>3. Cuts(r, x)
  BY DEF Drops
<1> HIDE DEF x
<1> QED
  BY <1>1, <1>2, <1>3, CutsReq

\* What every step of r does: the requests stay well typed, the others have lost
\* no more than their file, and r goes on from a session it has read, or reads it.
Effect(r) ==
    /\ \E W : RequestsIn(W)'
    /\ DOMAIN req' = DOMAIN req
    /\ \A s \in DOMAIN req \ {r} :
         /\ req'[s].pc = req[s].pc /\ req'[s].snap = req[s].snap /\ req'[s].hit = req[s].hit
         /\ req'[s].w.buf = req[s].w.buf
    /\ req'[r].pc # "start"
    /\ \/ req'[r].pc = "done" \/ r \notin Patches \cup Finals
       \/ /\ req[r].pc \notin {"start", "done"} /\ req'[r].snap \in Session
          /\ r \in Patches => req'[r].snap = req[r].snap
       \/ session # None /\ req'[r].snap = session /\ session \in Session

Domains ==
    /\ backend \in Blobs!Backends /\ DOMAIN req \cup DOMAIN ops \cup {Target} \subseteq DOMAIN objs

LEMMA EffectTyped ==
  ASSUME Typed, NEW r \in DOMAIN req, Effect(r)
  PROVE  /\ \E W : RequestsIn(W)'
         /\ DOMAIN req' = DOMAIN req
         /\ \A s \in DOMAIN req \cap (Patches \cup Finals) :
              req'[s].pc \in {"start", "done"} \/ req'[s].snap \in Session
BY DEF Typed, AtHand, Effect

UnlinkAll == req' = [f \in DOMAIN req |-> Unlink(req[f])]

LEMMA UnlinkReq ==
  ASSUME Typed, UnlinkAll
  PROVE  /\ \E W : RequestsIn(W)'
         /\ DOMAIN req' = DOMAIN req
         /\ \A s \in DOMAIN req :
              /\ req'[s].pc = req[s].pc /\ req'[s].snap = req[s].snap /\ req'[s].hit = req[s].hit
              /\ req'[s].w.buf = req[s].w.buf
<1>1. PICK W : RequestsIn(W)
  BY DEF Typed
<1>2. \A s \in DOMAIN req :
        /\ Unlink(req[s]) \in Request(W)
        /\ Unlink(req[s]).pc = req[s].pc /\ Unlink(req[s]).snap = req[s].snap
        /\ Unlink(req[s]).hit = req[s].hit /\ Unlink(req[s]).w.buf = req[s].w.buf
  BY <1>1, UnlinkTyped DEF RequestsIn
<1> QED
  BY <1>1, <1>2 DEF RequestsIn, UnlinkAll

-----------------------------------------------------------------------------
(* Types are kept.                                                         *)

\* What an upload's step has to show.
LEMMA TypedFrom ==
  ASSUME Typed, UNCHANGED registry,
         backend' = backend, DOMAIN objs' = DOMAIN objs, DOMAIN req' = DOMAIN req,
         \E W : RequestsIn(W)',
         \A s \in DOMAIN req \cap (Patches \cup Finals) :
           req'[s].pc \in {"start", "done"} \/ req'[s].snap \in Session,
         clean' \in Cleaner, clean'.pc = "idle" <=> clean'.got = None,
         session' = None \/ session' \in Session,
         \A d \in dedup' : d.blob \in BlobIds,
         \E W : arts' \subseteq Layer(W),
         faults' \in 0..MaxFaults, risk' \subseteq Risks
  PROVE  Typed'
<1>1. UNCHANGED <<manifests, tags, ops, gc, untagged, collect, foreign, upstream>>
  BY DEF registry, fixed
<1>2. \A r \in DOMAIN req' : req'[r].pc \in Steps
  BY DEF RequestsIn, Request
<1>3. clean'.pc \in {"idle", "chunks", "blob", "session"}
  BY DEF Cleaner
<1>4. \A a \in arts' : a.blob \in BlobIds /\ a.old \in BOOLEAN
  BY DEF Layer
<1>5. UploadTypeOK'
  BY <1>2, <1>3, <1>4 DEF UploadTypeOK, Typed, RegistryTypeOK
<1>6. RegistryTypeOK'
  BY <1>1, <1>5 DEF RegistryTypeOK, Typed
<1>7. AtHand'
  BY <1>1 DEF AtHand, Typed
<1>8. \E W : RecordsIn(W)'
  <2>1. PICK V, U : RecordsIn(V) /\ arts' \subseteq Layer(U)
    BY DEF Typed
  <2>2. /\ arts' \subseteq Layer(V \cup U) /\ manifests \subseteq Manifest(V \cup U)
        /\ tags \subseteq Tag(V \cup U)
    BY <2>1 DEF RecordsIn, Layer, Manifest, Tag
  <2>3. RecordsIn(V \cup U)'
    BY <1>1, <2>2 DEF RecordsIn
  <2> QED
    BY <2>3
<1>9. (\E W : OpsIn(W)') /\ (\E W : gc' \in Collector(W))
  BY <1>1 DEF Typed, OpsIn
<1> QED
  BY <1>6, <1>7, <1>8, <1>9 DEF Typed

LEMMA Moves_check_docker_permission ==
  ASSUME Typed, NEW r \in DOMAIN req, check_docker_permission(r)
  PROVE  Effect(r)
<1> USE DEF check_docker_permission
<1>s. session = None \/ session \in Session
  BY DEF Typed, RegistryTypeOK, UploadTypeOK
<1>1. Effect(r)
  BY AnswerReq DEF Effect
<1> QED
  BY <1>1

LEMMA Typed_check_docker_permission ==
  ASSUME Typed, NEW r \in DOMAIN req, check_docker_permission(r), UNCHANGED registry
  PROVE  Typed'
<1> USE DEF check_docker_permission
<1>d. Domains
  BY DEF Domains, Typed, AtHand, RegistryTypeOK, UploadTypeOK
<1>s. session = None \/ session \in Session
  BY DEF Typed, RegistryTypeOK, UploadTypeOK
<1>1. Effect(r)
  BY Moves_check_docker_permission
<1>2. /\ \E W : RequestsIn(W)'
      /\ DOMAIN req' = DOMAIN req
      /\ \A s \in DOMAIN req \cap (Patches \cup Finals) :
           req'[s].pc \in {"start", "done"} \/ req'[s].snap \in Session
  BY <1>1, EffectTyped
<1>3. backend' = backend /\ DOMAIN objs' = DOMAIN objs
  BY <1>d DEF kvs
<1>4. clean' \in Cleaner /\ (clean'.pc = "idle" <=> clean'.got = None)
  BY DEF Typed, AtHand
<1>5. session' = None \/ session' \in Session
  BY <1>s DEF kvs
<1>6. \A d \in dedup' : d.blob \in BlobIds
  BY DEF Typed, RegistryTypeOK, UploadTypeOK, kvs
<1>7. \E W : arts' \subseteq Layer(W)
  BY DEF Typed, RecordsIn, kvs
<1>8. faults' \in 0..MaxFaults
  BY UploadAssumption DEF Typed, RegistryTypeOK, UploadTypeOK, Fails
<1>9. risk' \subseteq Risks
  BY DEF Typed, RegistryTypeOK, Risks, Commit
<1> QED
  BY <1>2, <1>3, <1>4, <1>5, <1>6, <1>7, <1>8, <1>9, TypedFrom

LEMMA Moves_give_up ==
  ASSUME Typed, NEW r \in DOMAIN req, give_up(r)
  PROVE  Effect(r)
<1> USE DEF give_up
<1>s. session = None \/ session \in Session
  BY DEF Typed, RegistryTypeOK, UploadTypeOK
<1>1. Effect(r)
  BY AnswerReq DEF Effect
<1> QED
  BY <1>1

LEMMA Typed_give_up ==
  ASSUME Typed, NEW r \in DOMAIN req, give_up(r), UNCHANGED registry
  PROVE  Typed'
<1> USE DEF give_up
<1>d. Domains
  BY DEF Domains, Typed, AtHand, RegistryTypeOK, UploadTypeOK
<1>s. session = None \/ session \in Session
  BY DEF Typed, RegistryTypeOK, UploadTypeOK
<1>1. Effect(r)
  BY Moves_give_up
<1>2. /\ \E W : RequestsIn(W)'
      /\ DOMAIN req' = DOMAIN req
      /\ \A s \in DOMAIN req \cap (Patches \cup Finals) :
           req'[s].pc \in {"start", "done"} \/ req'[s].snap \in Session
  BY <1>1, EffectTyped
<1>3. backend' = backend /\ DOMAIN objs' = DOMAIN objs
  BY <1>d DEF Domains, kvs, DeleteTarget, Blobs!Backends, Blobs!put, Blobs!file_put, Blobs!s3_put, Blobs!delete, Blobs!file_delete, Blobs!s3_delete,
     Blobs!abort, Blobs!file_abort, Blobs!direct_abort, Blobs!s3_abort, Blobs!create_writer,
     Blobs!file_create_writer, Blobs!s3_create_writer, Blobs!finish, Blobs!file_finish,
     Blobs!direct_finish, Blobs!s3_finish, Blobs!drop, Blobs!s3_drop, Blobs!Object
<1>4. clean' \in Cleaner /\ (clean'.pc = "idle" <=> clean'.got = None)
  BY DEF Typed, AtHand
<1>5. session' = None \/ session' \in Session
  BY <1>s DEF kvs
<1>6. \A d \in dedup' : d.blob \in BlobIds
  BY DEF Typed, RegistryTypeOK, UploadTypeOK, kvs
<1>7. \E W : arts' \subseteq Layer(W)
  BY DEF Typed, RecordsIn, kvs
<1>8. faults' \in 0..MaxFaults
  BY UploadAssumption DEF Typed, RegistryTypeOK, UploadTypeOK, Fails
<1>9. risk' \subseteq Risks
  BY DEF Typed, RegistryTypeOK, Risks, Commit
<1> QED
  BY <1>2, <1>3, <1>4, <1>5, <1>6, <1>7, <1>8, <1>9, TypedFrom

LEMMA Moves_start_session ==
  ASSUME Typed, start_session
  PROVE  Effect(Post)
<1> USE DEF start_session
<1>s. session = None \/ session \in Session
  BY DEF Typed, RegistryTypeOK, UploadTypeOK
<1>1. Effect(Post)
  BY AnswerReq DEF At, Effect
<1> QED
  BY <1>1

LEMMA Typed_start_session ==
  ASSUME Typed, start_session, UNCHANGED registry
  PROVE  Typed'
<1> USE DEF start_session
<1>d. Domains
  BY DEF Domains, Typed, AtHand, RegistryTypeOK, UploadTypeOK
<1>s. session = None \/ session \in Session
  BY DEF Typed, RegistryTypeOK, UploadTypeOK
<1>1. Effect(Post)
  BY Moves_start_session
<1>2. /\ \E W : RequestsIn(W)'
      /\ DOMAIN req' = DOMAIN req
      /\ \A s \in DOMAIN req \cap (Patches \cup Finals) :
           req'[s].pc \in {"start", "done"} \/ req'[s].snap \in Session
  BY <1>1, EffectTyped DEF At
<1>3. backend' = backend /\ DOMAIN objs' = DOMAIN objs
  BY <1>d DEF Domains, kvs, DeleteTarget, Blobs!Backends, Blobs!put, Blobs!file_put, Blobs!s3_put, Blobs!delete, Blobs!file_delete, Blobs!s3_delete,
     Blobs!abort, Blobs!file_abort, Blobs!direct_abort, Blobs!s3_abort, Blobs!create_writer,
     Blobs!file_create_writer, Blobs!s3_create_writer, Blobs!finish, Blobs!file_finish,
     Blobs!direct_finish, Blobs!s3_finish, Blobs!drop, Blobs!s3_drop, Blobs!Object
<1>4. clean' \in Cleaner /\ (clean'.pc = "idle" <=> clean'.got = None)
  BY DEF Typed, AtHand
<1>5. session' = None \/ session' \in Session
  <2>1. <<>> \in Seq(Chunks) /\ <<Post>> \in Seq(Chunks)
    BY DEF Chunks
  <2>2. \E chunks \in {<<>>, <<Post>>} : session' = [chunks |-> chunks, ver |-> 1, fresh |-> TRUE]
    OBVIOUS
  <2> QED
    BY <2>1, <2>2 DEF Session
<1>6. \A d \in dedup' : d.blob \in BlobIds
  BY DEF Typed, RegistryTypeOK, UploadTypeOK, kvs
<1>7. \E W : arts' \subseteq Layer(W)
  BY DEF Typed, RecordsIn, kvs
<1>8. faults' \in 0..MaxFaults
  BY UploadAssumption DEF Typed, RegistryTypeOK, UploadTypeOK, Fails
<1>9. risk' \subseteq Risks
  BY DEF Typed, RegistryTypeOK, Risks, Commit
<1> QED
  BY <1>2, <1>3, <1>4, <1>5, <1>6, <1>7, <1>8, <1>9, TypedFrom

LEMMA Moves_patch_read ==
  ASSUME Typed, NEW r \in Patches \cap DOMAIN req, patch_read(r)
  PROVE  Effect(r)
<1> USE DEF patch_read
<1>s. session = None \/ session \in Session
  BY DEF Typed, RegistryTypeOK, UploadTypeOK
<1>1. Effect(r)
  <2>1. CASE session = None
    BY <2>1, AnswerReq DEF Effect
  <2>2. CASE ~(session = None)
    <3>1. Snaps(r, "write", session) /\ session \in Session /\ "write" \in Steps
      BY <1>s, <2>2 DEF Snaps, Steps
    <3> QED
      BY <2>2, <3>1, SnapReq DEF Effect
  <2> QED
    BY <2>1, <2>2
<1> QED
  BY <1>1

LEMMA Typed_patch_read ==
  ASSUME Typed, NEW r \in Patches \cap DOMAIN req, patch_read(r), UNCHANGED registry
  PROVE  Typed'
<1> USE DEF patch_read
<1>d. Domains
  BY DEF Domains, Typed, AtHand, RegistryTypeOK, UploadTypeOK
<1>s. session = None \/ session \in Session
  BY DEF Typed, RegistryTypeOK, UploadTypeOK
<1>1. Effect(r)
  BY Moves_patch_read
<1>2. /\ \E W : RequestsIn(W)'
      /\ DOMAIN req' = DOMAIN req
      /\ \A s \in DOMAIN req \cap (Patches \cup Finals) :
           req'[s].pc \in {"start", "done"} \/ req'[s].snap \in Session
  BY <1>1, EffectTyped
<1>3. backend' = backend /\ DOMAIN objs' = DOMAIN objs
  BY <1>d DEF kvs
<1>4. clean' \in Cleaner /\ (clean'.pc = "idle" <=> clean'.got = None)
  BY DEF Typed, AtHand
<1>5. session' = None \/ session' \in Session
  BY <1>s DEF kvs
<1>6. \A d \in dedup' : d.blob \in BlobIds
  BY DEF Typed, RegistryTypeOK, UploadTypeOK, kvs
<1>7. \E W : arts' \subseteq Layer(W)
  BY DEF Typed, RecordsIn, kvs
<1>8. faults' \in 0..MaxFaults
  BY UploadAssumption DEF Typed, RegistryTypeOK, UploadTypeOK, Fails
<1>9. risk' \subseteq Risks
  BY DEF Typed, RegistryTypeOK, Risks, Commit
<1> QED
  BY <1>2, <1>3, <1>4, <1>5, <1>6, <1>7, <1>8, <1>9, TypedFrom

LEMMA Moves_patch_write ==
  ASSUME Typed, NEW r \in Patches \cap DOMAIN req, patch_write(r)
  PROVE  Effect(r)
<1> USE DEF patch_write
<1>s. session = None \/ session \in Session
  BY DEF Typed, RegistryTypeOK, UploadTypeOK
<1>1. Effect(r)
  <2>1. CASE Goto(r, "cas")
    BY <2>1, GotoReq DEF Effect, Typed, AtHand, At, Steps
  <2>2. CASE Answer(r, "error")
    BY <2>2, AnswerReq DEF Effect
  <2> QED
    BY <2>1, <2>2
<1> QED
  BY <1>1

LEMMA Typed_patch_write ==
  ASSUME Typed, NEW r \in Patches \cap DOMAIN req, patch_write(r), UNCHANGED registry
  PROVE  Typed'
<1> USE DEF patch_write
<1>d. Domains
  BY DEF Domains, Typed, AtHand, RegistryTypeOK, UploadTypeOK
<1>s. session = None \/ session \in Session
  BY DEF Typed, RegistryTypeOK, UploadTypeOK
<1>1. Effect(r)
  BY Moves_patch_write
<1>2. /\ \E W : RequestsIn(W)'
      /\ DOMAIN req' = DOMAIN req
      /\ \A s \in DOMAIN req \cap (Patches \cup Finals) :
           req'[s].pc \in {"start", "done"} \/ req'[s].snap \in Session
  BY <1>1, EffectTyped
<1>3. backend' = backend /\ DOMAIN objs' = DOMAIN objs
  BY <1>d DEF Domains, kvs, DeleteTarget, Blobs!Backends, Blobs!put, Blobs!file_put, Blobs!s3_put, Blobs!delete, Blobs!file_delete, Blobs!s3_delete,
     Blobs!abort, Blobs!file_abort, Blobs!direct_abort, Blobs!s3_abort, Blobs!create_writer,
     Blobs!file_create_writer, Blobs!s3_create_writer, Blobs!finish, Blobs!file_finish,
     Blobs!direct_finish, Blobs!s3_finish, Blobs!drop, Blobs!s3_drop, Blobs!Object
<1>4. clean' \in Cleaner /\ (clean'.pc = "idle" <=> clean'.got = None)
  BY DEF Typed, AtHand
<1>5. session' = None \/ session' \in Session
  BY <1>s DEF kvs
<1>6. \A d \in dedup' : d.blob \in BlobIds
  BY DEF Typed, RegistryTypeOK, UploadTypeOK, kvs
<1>7. \E W : arts' \subseteq Layer(W)
  BY DEF Typed, RecordsIn, kvs
<1>8. faults' \in 0..MaxFaults
  BY UploadAssumption DEF Typed, RegistryTypeOK, UploadTypeOK, Fails
<1>9. risk' \subseteq Risks
  BY DEF Typed, RegistryTypeOK, Risks, Commit
<1> QED
  BY <1>2, <1>3, <1>4, <1>5, <1>6, <1>7, <1>8, <1>9, TypedFrom

LEMMA Moves_put_upload_session_if_version ==
  ASSUME Typed, NEW r \in Patches \cap DOMAIN req, put_upload_session_if_version(r)
  PROVE  Effect(r)
<1> USE DEF put_upload_session_if_version
<1>s. session = None \/ session \in Session
  BY DEF Typed, RegistryTypeOK, UploadTypeOK
<1>1. Effect(r)
  <2>1. ASSUME NEW status, Answer(r, status) PROVE Effect(r)
    BY <2>1, AnswerReq DEF Effect
  <2>2. CASE Rereads(r)
    BY <2>2, RereadReq DEF Effect, Typed, AtHand, At
  <2> QED
    BY <2>1, <2>2 DEF Rereads
<1> QED
  BY <1>1

LEMMA Typed_put_upload_session_if_version ==
  ASSUME Typed, NEW r \in Patches \cap DOMAIN req, put_upload_session_if_version(r), UNCHANGED registry
  PROVE  Typed'
<1> USE DEF put_upload_session_if_version
<1>d. Domains
  BY DEF Domains, Typed, AtHand, RegistryTypeOK, UploadTypeOK
<1>s. session = None \/ session \in Session
  BY DEF Typed, RegistryTypeOK, UploadTypeOK
<1>1. Effect(r)
  BY Moves_put_upload_session_if_version
<1>2. /\ \E W : RequestsIn(W)'
      /\ DOMAIN req' = DOMAIN req
      /\ \A s \in DOMAIN req \cap (Patches \cup Finals) :
           req'[s].pc \in {"start", "done"} \/ req'[s].snap \in Session
  BY <1>1, EffectTyped
<1>3. backend' = backend /\ DOMAIN objs' = DOMAIN objs
  BY <1>d DEF kvs
<1>4. clean' \in Cleaner /\ (clean'.pc = "idle" <=> clean'.got = None)
  BY DEF Typed, AtHand
<1>5. session' = None \/ session' \in Session
  <2>1. req[r].snap \in Session
    BY DEF Typed, AtHand, At
  <2>2. [chunks |-> Append(req[r].snap.chunks, r), ver |-> req[r].snap.ver + 1, fresh |-> TRUE] \in Session
    BY <2>1, Appended DEF Chunks
  <2> QED
    BY <1>s, <2>2
<1>6. \A d \in dedup' : d.blob \in BlobIds
  BY DEF Typed, RegistryTypeOK, UploadTypeOK, kvs
<1>7. \E W : arts' \subseteq Layer(W)
  BY DEF Typed, RecordsIn, kvs
<1>8. faults' \in 0..MaxFaults
  BY UploadAssumption DEF Typed, RegistryTypeOK, UploadTypeOK, Fails
<1>9. risk' \subseteq Risks
  BY DEF Typed, RegistryTypeOK, Risks, Commit
<1> QED
  BY <1>2, <1>3, <1>4, <1>5, <1>6, <1>7, <1>8, <1>9, TypedFrom

LEMMA Moves_patch_reread ==
  ASSUME Typed, NEW r \in Patches \cap DOMAIN req, patch_reread(r)
  PROVE  Effect(r)
<1> USE DEF patch_reread
<1>s. session = None \/ session \in Session
  BY DEF Typed, RegistryTypeOK, UploadTypeOK
<1>1. Effect(r)
  <2>1. CASE session = None
    BY <2>1, AnswerReq DEF Effect
  <2>2. CASE ~(session = None)
    <3>1. Snaps(r, "cas", session) /\ session \in Session /\ "cas" \in Steps
      BY <1>s, <2>2 DEF Snaps, Steps
    <3> QED
      BY <2>2, <3>1, SnapReq DEF Effect
  <2> QED
    BY <2>1, <2>2
<1> QED
  BY <1>1

LEMMA Typed_patch_reread ==
  ASSUME Typed, NEW r \in Patches \cap DOMAIN req, patch_reread(r), UNCHANGED registry
  PROVE  Typed'
<1> USE DEF patch_reread
<1>d. Domains
  BY DEF Domains, Typed, AtHand, RegistryTypeOK, UploadTypeOK
<1>s. session = None \/ session \in Session
  BY DEF Typed, RegistryTypeOK, UploadTypeOK
<1>1. Effect(r)
  BY Moves_patch_reread
<1>2. /\ \E W : RequestsIn(W)'
      /\ DOMAIN req' = DOMAIN req
      /\ \A s \in DOMAIN req \cap (Patches \cup Finals) :
           req'[s].pc \in {"start", "done"} \/ req'[s].snap \in Session
  BY <1>1, EffectTyped
<1>3. backend' = backend /\ DOMAIN objs' = DOMAIN objs
  BY <1>d DEF kvs
<1>4. clean' \in Cleaner /\ (clean'.pc = "idle" <=> clean'.got = None)
  BY DEF Typed, AtHand
<1>5. session' = None \/ session' \in Session
  BY <1>s DEF kvs
<1>6. \A d \in dedup' : d.blob \in BlobIds
  BY DEF Typed, RegistryTypeOK, UploadTypeOK, kvs
<1>7. \E W : arts' \subseteq Layer(W)
  BY DEF Typed, RecordsIn, kvs
<1>8. faults' \in 0..MaxFaults
  BY UploadAssumption DEF Typed, RegistryTypeOK, UploadTypeOK, Fails
<1>9. risk' \subseteq Risks
  BY DEF Typed, RegistryTypeOK, Risks, Commit
<1> QED
  BY <1>2, <1>3, <1>4, <1>5, <1>6, <1>7, <1>8, <1>9, TypedFrom

LEMMA Moves_complete_read ==
  ASSUME Typed, NEW r \in Finals \cap DOMAIN req, complete_read(r)
  PROVE  Effect(r)
<1> USE DEF complete_read
<1>s. session = None \/ session \in Session
  BY DEF Typed, RegistryTypeOK, UploadTypeOK
<1>1. Effect(r)
  <2>1. CASE session = None
    BY <2>1, AnswerReq DEF Effect
  <2>2. CASE ~(session = None)
    <3>1. PICK body \in BOOLEAN : \E want : Reads(r, body, want)
      BY <2>2 DEF Reads
    <3>2. PICK want : Reads(r, body, want)
      BY <3>1
    <3> QED
      BY <1>s, <2>2, <3>2, ReadReq DEF Effect
  <2> QED
    BY <2>1, <2>2
<1> QED
  BY <1>1

LEMMA Typed_complete_read ==
  ASSUME Typed, NEW r \in Finals \cap DOMAIN req, complete_read(r), UNCHANGED registry
  PROVE  Typed'
<1> USE DEF complete_read
<1>d. Domains
  BY DEF Domains, Typed, AtHand, RegistryTypeOK, UploadTypeOK
<1>s. session = None \/ session \in Session
  BY DEF Typed, RegistryTypeOK, UploadTypeOK
<1>1. Effect(r)
  BY Moves_complete_read
<1>2. /\ \E W : RequestsIn(W)'
      /\ DOMAIN req' = DOMAIN req
      /\ \A s \in DOMAIN req \cap (Patches \cup Finals) :
           req'[s].pc \in {"start", "done"} \/ req'[s].snap \in Session
  BY <1>1, EffectTyped
<1>3. backend' = backend /\ DOMAIN objs' = DOMAIN objs
  BY <1>d DEF kvs
<1>4. clean' \in Cleaner /\ (clean'.pc = "idle" <=> clean'.got = None)
  BY DEF Typed, AtHand
<1>5. session' = None \/ session' \in Session
  BY <1>s DEF kvs
<1>6. \A d \in dedup' : d.blob \in BlobIds
  BY DEF Typed, RegistryTypeOK, UploadTypeOK, kvs
<1>7. \E W : arts' \subseteq Layer(W)
  BY DEF Typed, RecordsIn, kvs
<1>8. faults' \in 0..MaxFaults
  BY UploadAssumption DEF Typed, RegistryTypeOK, UploadTypeOK, Fails
<1>9. risk' \subseteq Risks
  BY DEF Typed, RegistryTypeOK, Risks, Commit
<1> QED
  BY <1>2, <1>3, <1>4, <1>5, <1>6, <1>7, <1>8, <1>9, TypedFrom

LEMMA Moves_complete_body ==
  ASSUME Typed, NEW r \in Finals \cap DOMAIN req, complete_body(r)
  PROVE  Effect(r)
<1> USE DEF complete_body
<1>s. session = None \/ session \in Session
  BY DEF Typed, RegistryTypeOK, UploadTypeOK
<1>1. Effect(r)
  <2>1. CASE Tails(r, r, req[r].body)
    <3>1. req[r].snap \in Session /\ r \in Chunks
      BY DEF Typed, AtHand, At, Chunks
    <3> QED
      BY <2>1, <3>1, UploadAssumption, TailReq DEF Effect, At
  <2>2. CASE Answer(r, "error")
    BY <2>2, AnswerReq DEF Effect
  <2> QED
    BY <2>1, <2>2 DEF Tails
<1> QED
  BY <1>1

LEMMA Typed_complete_body ==
  ASSUME Typed, NEW r \in Finals \cap DOMAIN req, complete_body(r), UNCHANGED registry
  PROVE  Typed'
<1> USE DEF complete_body
<1>d. Domains
  BY DEF Domains, Typed, AtHand, RegistryTypeOK, UploadTypeOK
<1>s. session = None \/ session \in Session
  BY DEF Typed, RegistryTypeOK, UploadTypeOK
<1>1. Effect(r)
  BY Moves_complete_body
<1>2. /\ \E W : RequestsIn(W)'
      /\ DOMAIN req' = DOMAIN req
      /\ \A s \in DOMAIN req \cap (Patches \cup Finals) :
           req'[s].pc \in {"start", "done"} \/ req'[s].snap \in Session
  BY <1>1, EffectTyped
<1>3. backend' = backend /\ DOMAIN objs' = DOMAIN objs
  BY <1>d DEF Domains, kvs, DeleteTarget, Blobs!Backends, Blobs!put, Blobs!file_put, Blobs!s3_put, Blobs!delete, Blobs!file_delete, Blobs!s3_delete,
     Blobs!abort, Blobs!file_abort, Blobs!direct_abort, Blobs!s3_abort, Blobs!create_writer,
     Blobs!file_create_writer, Blobs!s3_create_writer, Blobs!finish, Blobs!file_finish,
     Blobs!direct_finish, Blobs!s3_finish, Blobs!drop, Blobs!s3_drop, Blobs!Object
<1>4. clean' \in Cleaner /\ (clean'.pc = "idle" <=> clean'.got = None)
  BY DEF Typed, AtHand
<1>5. session' = None \/ session' \in Session
  BY <1>s DEF kvs
<1>6. \A d \in dedup' : d.blob \in BlobIds
  BY DEF Typed, RegistryTypeOK, UploadTypeOK, kvs
<1>7. \E W : arts' \subseteq Layer(W)
  BY DEF Typed, RecordsIn, kvs
<1>8. faults' \in 0..MaxFaults
  BY UploadAssumption DEF Typed, RegistryTypeOK, UploadTypeOK, Fails
<1>9. risk' \subseteq Risks
  BY DEF Typed, RegistryTypeOK, Risks, Commit
<1> QED
  BY <1>2, <1>3, <1>4, <1>5, <1>6, <1>7, <1>8, <1>9, TypedFrom

LEMMA Moves_complete_create ==
  ASSUME Typed, NEW r \in Finals \cap DOMAIN req, complete_create(r)
  PROVE  Effect(r)
<1> USE DEF complete_create
<1>s. session = None \/ session \in Session
  BY DEF Typed, RegistryTypeOK, UploadTypeOK
<1>1. Effect(r)
  <2>1. Writes(r, "assemble", Blobs!NewWriter(TRUE))
    BY DEF Writes
  <2> QED
    BY <2>1, CreateReq DEF Effect, Typed, AtHand, At
<1> QED
  BY <1>1

LEMMA Typed_complete_create ==
  ASSUME Typed, NEW r \in Finals \cap DOMAIN req, complete_create(r), UNCHANGED registry
  PROVE  Typed'
<1> USE DEF complete_create
<1>d. Domains
  BY DEF Domains, Typed, AtHand, RegistryTypeOK, UploadTypeOK
<1>s. session = None \/ session \in Session
  BY DEF Typed, RegistryTypeOK, UploadTypeOK
<1>1. Effect(r)
  BY Moves_complete_create
<1>2. /\ \E W : RequestsIn(W)'
      /\ DOMAIN req' = DOMAIN req
      /\ \A s \in DOMAIN req \cap (Patches \cup Finals) :
           req'[s].pc \in {"start", "done"} \/ req'[s].snap \in Session
  BY <1>1, EffectTyped
<1>3. backend' = backend /\ DOMAIN objs' = DOMAIN objs
  BY <1>d DEF Domains, kvs, DeleteTarget, Blobs!Backends, Blobs!put, Blobs!file_put, Blobs!s3_put, Blobs!delete, Blobs!file_delete, Blobs!s3_delete,
     Blobs!abort, Blobs!file_abort, Blobs!direct_abort, Blobs!s3_abort, Blobs!create_writer,
     Blobs!file_create_writer, Blobs!s3_create_writer, Blobs!finish, Blobs!file_finish,
     Blobs!direct_finish, Blobs!s3_finish, Blobs!drop, Blobs!s3_drop, Blobs!Object
<1>4. clean' \in Cleaner /\ (clean'.pc = "idle" <=> clean'.got = None)
  BY DEF Typed, AtHand
<1>5. session' = None \/ session' \in Session
  BY <1>s DEF kvs
<1>6. \A d \in dedup' : d.blob \in BlobIds
  BY DEF Typed, RegistryTypeOK, UploadTypeOK, kvs
<1>7. \E W : arts' \subseteq Layer(W)
  BY DEF Typed, RecordsIn, kvs
<1>8. faults' \in 0..MaxFaults
  BY UploadAssumption DEF Typed, RegistryTypeOK, UploadTypeOK, Fails
<1>9. risk' \subseteq Risks
  BY DEF Typed, RegistryTypeOK, Risks, Commit
<1> QED
  BY <1>2, <1>3, <1>4, <1>5, <1>6, <1>7, <1>8, <1>9, TypedFrom

LEMMA Moves_complete_assemble ==
  ASSUME Typed, NEW r \in Finals \cap DOMAIN req, complete_assemble(r)
  PROVE  Effect(r)
<1> USE DEF complete_assemble
<1>s. session = None \/ session \in Session
  BY DEF Typed, RegistryTypeOK, UploadTypeOK
<1>1. Effect(r)
  <2>1. CASE Ends(r)
    BY <2>1, EndsReq DEF Effect
  <2>2. CASE Writes(r, "verify", Assembled(req[r].w, req[r].snap.chunks))
    BY <2>2, WholeReq DEF Effect, Typed, AtHand, At
  <2> QED
    BY <2>1, <2>2 DEF Ends, Cuts, Writes, Unlink
<1> QED
  BY <1>1

LEMMA Typed_complete_assemble ==
  ASSUME Typed, NEW r \in Finals \cap DOMAIN req, complete_assemble(r), UNCHANGED registry
  PROVE  Typed'
<1> USE DEF complete_assemble
<1>d. Domains
  BY DEF Domains, Typed, AtHand, RegistryTypeOK, UploadTypeOK
<1>s. session = None \/ session \in Session
  BY DEF Typed, RegistryTypeOK, UploadTypeOK
<1>1. Effect(r)
  BY Moves_complete_assemble
<1>2. /\ \E W : RequestsIn(W)'
      /\ DOMAIN req' = DOMAIN req
      /\ \A s \in DOMAIN req \cap (Patches \cup Finals) :
           req'[s].pc \in {"start", "done"} \/ req'[s].snap \in Session
  BY <1>1, EffectTyped
<1>3. backend' = backend /\ DOMAIN objs' = DOMAIN objs
  BY <1>d DEF Domains, kvs, DeleteTarget, Blobs!Backends, Blobs!put, Blobs!file_put, Blobs!s3_put, Blobs!delete, Blobs!file_delete, Blobs!s3_delete,
     Blobs!abort, Blobs!file_abort, Blobs!direct_abort, Blobs!s3_abort, Blobs!create_writer,
     Blobs!file_create_writer, Blobs!s3_create_writer, Blobs!finish, Blobs!file_finish,
     Blobs!direct_finish, Blobs!s3_finish, Blobs!drop, Blobs!s3_drop, Blobs!Object
<1>4. clean' \in Cleaner /\ (clean'.pc = "idle" <=> clean'.got = None)
  BY DEF Typed, AtHand
<1>5. session' = None \/ session' \in Session
  BY <1>s DEF kvs
<1>6. \A d \in dedup' : d.blob \in BlobIds
  BY DEF Typed, RegistryTypeOK, UploadTypeOK, kvs
<1>7. \E W : arts' \subseteq Layer(W)
  BY DEF Typed, RecordsIn, kvs
<1>8. faults' \in 0..MaxFaults
  BY UploadAssumption DEF Typed, RegistryTypeOK, UploadTypeOK, Fails
<1>9. risk' \subseteq Risks
  BY DEF Typed, RegistryTypeOK, Risks, Commit
<1> QED
  BY <1>2, <1>3, <1>4, <1>5, <1>6, <1>7, <1>8, <1>9, TypedFrom

LEMMA Moves_complete_verify ==
  ASSUME Typed, NEW r \in Finals \cap DOMAIN req, complete_verify(r)
  PROVE  Effect(r)
<1> USE DEF complete_verify
<1>s. session = None \/ session \in Session
  BY DEF Typed, RegistryTypeOK, UploadTypeOK
<1>1. Effect(r)
  <2>1. CASE Ends(r)
    BY <2>1, EndsReq DEF Effect
  <2>2. CASE Goto(r, "claim")
    BY <2>2, GotoReq DEF Effect, Typed, AtHand, At, Steps
  <2> QED
    BY <2>1, <2>2 DEF Ends, Cuts
<1> QED
  BY <1>1

LEMMA Typed_complete_verify ==
  ASSUME Typed, NEW r \in Finals \cap DOMAIN req, complete_verify(r), UNCHANGED registry
  PROVE  Typed'
<1> USE DEF complete_verify
<1>d. Domains
  BY DEF Domains, Typed, AtHand, RegistryTypeOK, UploadTypeOK
<1>s. session = None \/ session \in Session
  BY DEF Typed, RegistryTypeOK, UploadTypeOK
<1>1. Effect(r)
  BY Moves_complete_verify
<1>2. /\ \E W : RequestsIn(W)'
      /\ DOMAIN req' = DOMAIN req
      /\ \A s \in DOMAIN req \cap (Patches \cup Finals) :
           req'[s].pc \in {"start", "done"} \/ req'[s].snap \in Session
  BY <1>1, EffectTyped
<1>3. backend' = backend /\ DOMAIN objs' = DOMAIN objs
  BY <1>d DEF Domains, kvs, DeleteTarget, Blobs!Backends, Blobs!put, Blobs!file_put, Blobs!s3_put, Blobs!delete, Blobs!file_delete, Blobs!s3_delete,
     Blobs!abort, Blobs!file_abort, Blobs!direct_abort, Blobs!s3_abort, Blobs!create_writer,
     Blobs!file_create_writer, Blobs!s3_create_writer, Blobs!finish, Blobs!file_finish,
     Blobs!direct_finish, Blobs!s3_finish, Blobs!drop, Blobs!s3_drop, Blobs!Object
<1>4. clean' \in Cleaner /\ (clean'.pc = "idle" <=> clean'.got = None)
  BY DEF Typed, AtHand
<1>5. session' = None \/ session' \in Session
  BY <1>s DEF kvs
<1>6. \A d \in dedup' : d.blob \in BlobIds
  BY DEF Typed, RegistryTypeOK, UploadTypeOK, kvs
<1>7. \E W : arts' \subseteq Layer(W)
  BY DEF Typed, RecordsIn, kvs
<1>8. faults' \in 0..MaxFaults
  BY UploadAssumption DEF Typed, RegistryTypeOK, UploadTypeOK, Fails
<1>9. risk' \subseteq Risks
  BY DEF Typed, RegistryTypeOK, Risks, Commit
<1> QED
  BY <1>2, <1>3, <1>4, <1>5, <1>6, <1>7, <1>8, <1>9, TypedFrom

LEMMA Moves_complete_claim ==
  ASSUME Typed, NEW r \in Finals \cap DOMAIN req, complete_claim(r)
  PROVE  Effect(r)
<1> USE DEF complete_claim
<1>s. session = None \/ session \in Session
  BY DEF Typed, RegistryTypeOK, UploadTypeOK
<1>1. Effect(r)
  <2>1. Target \in BlobIds
    BY DEF BlobIds, Uploads
  <2> QED
    BY <2>1, ClaimReq DEF Effect, Typed, AtHand, At
<1> QED
  BY <1>1

LEMMA Typed_complete_claim ==
  ASSUME Typed, NEW r \in Finals \cap DOMAIN req, complete_claim(r), UNCHANGED registry
  PROVE  Typed'
<1> USE DEF complete_claim
<1>d. Domains
  BY DEF Domains, Typed, AtHand, RegistryTypeOK, UploadTypeOK
<1>s. session = None \/ session \in Session
  BY DEF Typed, RegistryTypeOK, UploadTypeOK
<1>1. Effect(r)
  BY Moves_complete_claim
<1>2. /\ \E W : RequestsIn(W)'
      /\ DOMAIN req' = DOMAIN req
      /\ \A s \in DOMAIN req \cap (Patches \cup Finals) :
           req'[s].pc \in {"start", "done"} \/ req'[s].snap \in Session
  BY <1>1, EffectTyped
<1>3. backend' = backend /\ DOMAIN objs' = DOMAIN objs
  BY <1>d DEF kvs
<1>4. clean' \in Cleaner /\ (clean'.pc = "idle" <=> clean'.got = None)
  BY DEF Typed, AtHand
<1>5. session' = None \/ session' \in Session
  BY <1>s DEF kvs
<1>6. \A d \in dedup' : d.blob \in BlobIds
  <2>1. Target \in BlobIds
    BY DEF BlobIds, Uploads
  <2> QED
    BY <2>1, ClaimReq
<1>7. \E W : arts' \subseteq Layer(W)
  BY DEF Typed, RecordsIn, kvs
<1>8. faults' \in 0..MaxFaults
  BY UploadAssumption DEF Typed, RegistryTypeOK, UploadTypeOK, Fails
<1>9. risk' \subseteq Risks
  BY DEF Typed, RegistryTypeOK, Risks, Commit
<1> QED
  BY <1>2, <1>3, <1>4, <1>5, <1>6, <1>7, <1>8, <1>9, TypedFrom

LEMMA Moves_complete_record ==
  ASSUME Typed, NEW r \in Finals \cap DOMAIN req, complete_record(r)
  PROVE  Effect(r)
<1> USE DEF complete_record
<1>s. session = None \/ session \in Session
  BY DEF Typed, RegistryTypeOK, UploadTypeOK
<1>1. Effect(r)
  BY GotoReq DEF Steps, Effect, Typed, AtHand, At
<1> QED
  BY <1>1

LEMMA Typed_complete_record ==
  ASSUME Typed, NEW r \in Finals \cap DOMAIN req, complete_record(r), UNCHANGED registry
  PROVE  Typed'
<1> USE DEF complete_record
<1>d. Domains
  BY DEF Domains, Typed, AtHand, RegistryTypeOK, UploadTypeOK
<1>s. session = None \/ session \in Session
  BY DEF Typed, RegistryTypeOK, UploadTypeOK
<1>1. Effect(r)
  BY Moves_complete_record
<1>2. /\ \E W : RequestsIn(W)'
      /\ DOMAIN req' = DOMAIN req
      /\ \A s \in DOMAIN req \cap (Patches \cup Finals) :
           req'[s].pc \in {"start", "done"} \/ req'[s].snap \in Session
  BY <1>1, EffectTyped
<1>3. backend' = backend /\ DOMAIN objs' = DOMAIN objs
  BY <1>d DEF kvs
<1>4. clean' \in Cleaner /\ (clean'.pc = "idle" <=> clean'.got = None)
  BY DEF Typed, AtHand
<1>5. session' = None \/ session' \in Session
  BY <1>s DEF kvs
<1>6. \A d \in dedup' : d.blob \in BlobIds
  BY DEF Typed, RegistryTypeOK, UploadTypeOK, kvs
<1>7. \E W : arts' \subseteq Layer(W)
  <2>1. PICK W : RecordsIn(W)
    BY DEF Typed
  <2>2. PICK V : W \subseteq V /\ Repo \in V /\ req[r].w.buf \in V
    <3>1. W \subseteq W \cup {Repo, req[r].w.buf}
      OBVIOUS
    <3> QED
      BY <3>1
  <2>3. arts \subseteq Layer(V)
    BY <2>1, <2>2 DEF RecordsIn, Layer
  <2>4. Chosen(r, Target) \in BlobIds
    <3>1. PICK U : RequestsIn(U)
      BY DEF Typed
    <3> QED
      BY <3>1 DEF RequestsIn, Request, Chosen, BlobIds, Uploads
  <2>5. [repo |-> Repo, digest |-> req[r].w.buf, blob |-> Chosen(r, Target), old |-> FALSE] \in Layer(V)
    BY <2>2, <2>4 DEF Layer
  <2> QED
    BY <2>3, <2>5 DEF Commit
<1>8. faults' \in 0..MaxFaults
  BY UploadAssumption DEF Typed, RegistryTypeOK, UploadTypeOK, Fails
<1>9. risk' \subseteq Risks
  BY DEF Typed, RegistryTypeOK, Risks, Commit
<1> QED
  BY <1>2, <1>3, <1>4, <1>5, <1>6, <1>7, <1>8, <1>9, TypedFrom

LEMMA Moves_delete_upload_session ==
  ASSUME Typed, NEW r \in Finals \cap DOMAIN req, delete_upload_session(r)
  PROVE  Effect(r)
<1> USE DEF delete_upload_session
<1>s. session = None \/ session \in Session
  BY DEF Typed, RegistryTypeOK, UploadTypeOK
<1>1. Effect(r)
  BY GotoReq DEF Steps, Effect, Typed, AtHand, At
<1> QED
  BY <1>1

LEMMA Typed_delete_upload_session ==
  ASSUME Typed, NEW r \in Finals \cap DOMAIN req, delete_upload_session(r), UNCHANGED registry
  PROVE  Typed'
<1> USE DEF delete_upload_session
<1>d. Domains
  BY DEF Domains, Typed, AtHand, RegistryTypeOK, UploadTypeOK
<1>s. session = None \/ session \in Session
  BY DEF Typed, RegistryTypeOK, UploadTypeOK
<1>1. Effect(r)
  BY Moves_delete_upload_session
<1>2. /\ \E W : RequestsIn(W)'
      /\ DOMAIN req' = DOMAIN req
      /\ \A s \in DOMAIN req \cap (Patches \cup Finals) :
           req'[s].pc \in {"start", "done"} \/ req'[s].snap \in Session
  BY <1>1, EffectTyped
<1>3. backend' = backend /\ DOMAIN objs' = DOMAIN objs
  BY <1>d DEF kvs
<1>4. clean' \in Cleaner /\ (clean'.pc = "idle" <=> clean'.got = None)
  BY DEF Typed, AtHand
<1>5. session' = None \/ session' \in Session
  BY <1>s DEF kvs
<1>6. \A d \in dedup' : d.blob \in BlobIds
  BY DEF Typed, RegistryTypeOK, UploadTypeOK, kvs
<1>7. \E W : arts' \subseteq Layer(W)
  BY DEF Typed, RecordsIn, kvs
<1>8. faults' \in 0..MaxFaults
  BY UploadAssumption DEF Typed, RegistryTypeOK, UploadTypeOK, Fails
<1>9. risk' \subseteq Risks
  BY DEF Typed, RegistryTypeOK, Risks, Commit
<1> QED
  BY <1>2, <1>3, <1>4, <1>5, <1>6, <1>7, <1>8, <1>9, TypedFrom

LEMMA Moves_complete_drop ==
  ASSUME Typed, NEW r \in Finals \cap DOMAIN req, complete_drop(r)
  PROVE  Effect(r)
<1> USE DEF complete_drop
<1>s. session = None \/ session \in Session
  BY DEF Typed, RegistryTypeOK, UploadTypeOK
<1>1. Effect(r)
  <2>1. CASE Drops(r)
    BY <2>1, DropsReq DEF Effect, Typed, AtHand, At
  <2>2. CASE Goto(r, "chunks")
    BY <2>2, GotoReq DEF Effect, Typed, AtHand, At, Steps
  <2> QED
    BY <2>1, <2>2 DEF Drops, Cuts
<1> QED
  BY <1>1

LEMMA Typed_complete_drop ==
  ASSUME Typed, NEW r \in Finals \cap DOMAIN req, complete_drop(r), UNCHANGED registry
  PROVE  Typed'
<1> USE DEF complete_drop
<1>d. Domains
  BY DEF Domains, Typed, AtHand, RegistryTypeOK, UploadTypeOK
<1>s. session = None \/ session \in Session
  BY DEF Typed, RegistryTypeOK, UploadTypeOK
<1>1. Effect(r)
  BY Moves_complete_drop
<1>2. /\ \E W : RequestsIn(W)'
      /\ DOMAIN req' = DOMAIN req
      /\ \A s \in DOMAIN req \cap (Patches \cup Finals) :
           req'[s].pc \in {"start", "done"} \/ req'[s].snap \in Session
  BY <1>1, EffectTyped
<1>3. backend' = backend /\ DOMAIN objs' = DOMAIN objs
  BY <1>d DEF Domains, kvs, DeleteTarget, Blobs!Backends, Blobs!put, Blobs!file_put, Blobs!s3_put, Blobs!delete, Blobs!file_delete, Blobs!s3_delete,
     Blobs!abort, Blobs!file_abort, Blobs!direct_abort, Blobs!s3_abort, Blobs!create_writer,
     Blobs!file_create_writer, Blobs!s3_create_writer, Blobs!finish, Blobs!file_finish,
     Blobs!direct_finish, Blobs!s3_finish, Blobs!drop, Blobs!s3_drop, Blobs!Object
<1>4. clean' \in Cleaner /\ (clean'.pc = "idle" <=> clean'.got = None)
  BY DEF Typed, AtHand
<1>5. session' = None \/ session' \in Session
  BY <1>s DEF kvs
<1>6. \A d \in dedup' : d.blob \in BlobIds
  BY DEF Typed, RegistryTypeOK, UploadTypeOK, kvs
<1>7. \E W : arts' \subseteq Layer(W)
  BY DEF Typed, RecordsIn, kvs
<1>8. faults' \in 0..MaxFaults
  BY UploadAssumption DEF Typed, RegistryTypeOK, UploadTypeOK, Fails
<1>9. risk' \subseteq Risks
  BY DEF Typed, RegistryTypeOK, Risks, Commit
<1> QED
  BY <1>2, <1>3, <1>4, <1>5, <1>6, <1>7, <1>8, <1>9, TypedFrom

LEMMA Moves_complete_chunks ==
  ASSUME Typed, NEW r \in Finals \cap DOMAIN req, complete_chunks(r)
  PROVE  Effect(r)
<1> USE DEF complete_chunks
<1>s. session = None \/ session \in Session
  BY DEF Typed, RegistryTypeOK, UploadTypeOK
<1>1. Effect(r)
  BY AnswerReq DEF Effect
<1> QED
  BY <1>1

LEMMA Typed_complete_chunks ==
  ASSUME Typed, NEW r \in Finals \cap DOMAIN req, complete_chunks(r), UNCHANGED registry
  PROVE  Typed'
<1> USE DEF complete_chunks
<1>d. Domains
  BY DEF Domains, Typed, AtHand, RegistryTypeOK, UploadTypeOK
<1>s. session = None \/ session \in Session
  BY DEF Typed, RegistryTypeOK, UploadTypeOK
<1>1. Effect(r)
  BY Moves_complete_chunks
<1>2. /\ \E W : RequestsIn(W)'
      /\ DOMAIN req' = DOMAIN req
      /\ \A s \in DOMAIN req \cap (Patches \cup Finals) :
           req'[s].pc \in {"start", "done"} \/ req'[s].snap \in Session
  BY <1>1, EffectTyped
<1>3. backend' = backend /\ DOMAIN objs' = DOMAIN objs
  BY <1>d DEF Domains, kvs, DeleteTarget, Blobs!Backends, Blobs!put, Blobs!file_put, Blobs!s3_put, Blobs!delete, Blobs!file_delete, Blobs!s3_delete,
     Blobs!abort, Blobs!file_abort, Blobs!direct_abort, Blobs!s3_abort, Blobs!create_writer,
     Blobs!file_create_writer, Blobs!s3_create_writer, Blobs!finish, Blobs!file_finish,
     Blobs!direct_finish, Blobs!s3_finish, Blobs!drop, Blobs!s3_drop, Blobs!Object
<1>4. clean' \in Cleaner /\ (clean'.pc = "idle" <=> clean'.got = None)
  BY DEF Typed, AtHand
<1>5. session' = None \/ session' \in Session
  BY <1>s DEF kvs
<1>6. \A d \in dedup' : d.blob \in BlobIds
  BY DEF Typed, RegistryTypeOK, UploadTypeOK, kvs
<1>7. \E W : arts' \subseteq Layer(W)
  BY DEF Typed, RecordsIn, kvs
<1>8. faults' \in 0..MaxFaults
  BY UploadAssumption DEF Typed, RegistryTypeOK, UploadTypeOK, Fails
<1>9. risk' \subseteq Risks
  BY DEF Typed, RegistryTypeOK, Risks, Commit
<1> QED
  BY <1>2, <1>3, <1>4, <1>5, <1>6, <1>7, <1>8, <1>9, TypedFrom

LEMMA Moves_mono_write ==
  ASSUME Typed, NEW r \in Monos \cap DOMAIN req, mono_write(r)
  PROVE  Effect(r)
<1> USE DEF mono_write
<1>s. session = None \/ session \in Session
  BY DEF Typed, RegistryTypeOK, UploadTypeOK
<1>1. Effect(r)
  BY UploadAssumption, GotoReq DEF Steps, Effect, Typed, AtHand, At
<1> QED
  BY <1>1

LEMMA Typed_mono_write ==
  ASSUME Typed, NEW r \in Monos \cap DOMAIN req, mono_write(r), UNCHANGED registry
  PROVE  Typed'
<1> USE DEF mono_write
<1>d. Domains
  BY DEF Domains, Typed, AtHand, RegistryTypeOK, UploadTypeOK
<1>s. session = None \/ session \in Session
  BY DEF Typed, RegistryTypeOK, UploadTypeOK
<1>1. Effect(r)
  BY Moves_mono_write
<1>2. /\ \E W : RequestsIn(W)'
      /\ DOMAIN req' = DOMAIN req
      /\ \A s \in DOMAIN req \cap (Patches \cup Finals) :
           req'[s].pc \in {"start", "done"} \/ req'[s].snap \in Session
  BY <1>1, EffectTyped
<1>3. backend' = backend /\ DOMAIN objs' = DOMAIN objs
  BY <1>d DEF Domains, kvs, DeleteTarget, Blobs!Backends, Blobs!put, Blobs!file_put, Blobs!s3_put, Blobs!delete, Blobs!file_delete, Blobs!s3_delete,
     Blobs!abort, Blobs!file_abort, Blobs!direct_abort, Blobs!s3_abort, Blobs!create_writer,
     Blobs!file_create_writer, Blobs!s3_create_writer, Blobs!finish, Blobs!file_finish,
     Blobs!direct_finish, Blobs!s3_finish, Blobs!drop, Blobs!s3_drop, Blobs!Object
<1>4. clean' \in Cleaner /\ (clean'.pc = "idle" <=> clean'.got = None)
  BY DEF Typed, AtHand
<1>5. session' = None \/ session' \in Session
  BY <1>s DEF kvs
<1>6. \A d \in dedup' : d.blob \in BlobIds
  BY DEF Typed, RegistryTypeOK, UploadTypeOK, kvs
<1>7. \E W : arts' \subseteq Layer(W)
  BY DEF Typed, RecordsIn, kvs
<1>8. faults' \in 0..MaxFaults
  BY UploadAssumption DEF Typed, RegistryTypeOK, UploadTypeOK, Fails
<1>9. risk' \subseteq Risks
  BY DEF Typed, RegistryTypeOK, Risks, Commit
<1> QED
  BY <1>2, <1>3, <1>4, <1>5, <1>6, <1>7, <1>8, <1>9, TypedFrom

LEMMA Moves_mono_abort ==
  ASSUME Typed, NEW r \in Monos \cap DOMAIN req, mono_abort(r)
  PROVE  Effect(r)
<1> USE DEF mono_abort
<1>s. session = None \/ session \in Session
  BY DEF Typed, RegistryTypeOK, UploadTypeOK
<1>1. Effect(r)
  BY AnswerReq DEF Effect
<1> QED
  BY <1>1

LEMMA Typed_mono_abort ==
  ASSUME Typed, NEW r \in Monos \cap DOMAIN req, mono_abort(r), UNCHANGED registry
  PROVE  Typed'
<1> USE DEF mono_abort
<1>d. Domains
  BY DEF Domains, Typed, AtHand, RegistryTypeOK, UploadTypeOK
<1>s. session = None \/ session \in Session
  BY DEF Typed, RegistryTypeOK, UploadTypeOK
<1>1. Effect(r)
  BY Moves_mono_abort
<1>2. /\ \E W : RequestsIn(W)'
      /\ DOMAIN req' = DOMAIN req
      /\ \A s \in DOMAIN req \cap (Patches \cup Finals) :
           req'[s].pc \in {"start", "done"} \/ req'[s].snap \in Session
  BY <1>1, EffectTyped
<1>3. backend' = backend /\ DOMAIN objs' = DOMAIN objs
  BY <1>d DEF Domains, kvs, DeleteTarget, Blobs!Backends, Blobs!put, Blobs!file_put, Blobs!s3_put, Blobs!delete, Blobs!file_delete, Blobs!s3_delete,
     Blobs!abort, Blobs!file_abort, Blobs!direct_abort, Blobs!s3_abort, Blobs!create_writer,
     Blobs!file_create_writer, Blobs!s3_create_writer, Blobs!finish, Blobs!file_finish,
     Blobs!direct_finish, Blobs!s3_finish, Blobs!drop, Blobs!s3_drop, Blobs!Object
<1>4. clean' \in Cleaner /\ (clean'.pc = "idle" <=> clean'.got = None)
  BY DEF Typed, AtHand
<1>5. session' = None \/ session' \in Session
  BY <1>s DEF kvs
<1>6. \A d \in dedup' : d.blob \in BlobIds
  BY DEF Typed, RegistryTypeOK, UploadTypeOK, kvs
<1>7. \E W : arts' \subseteq Layer(W)
  BY DEF Typed, RecordsIn, kvs
<1>8. faults' \in 0..MaxFaults
  BY UploadAssumption DEF Typed, RegistryTypeOK, UploadTypeOK, Fails
<1>9. risk' \subseteq Risks
  BY DEF Typed, RegistryTypeOK, Risks, Commit
<1> QED
  BY <1>2, <1>3, <1>4, <1>5, <1>6, <1>7, <1>8, <1>9, TypedFrom

LEMMA Moves_mono_claim ==
  ASSUME Typed, NEW r \in Monos \cap DOMAIN req, mono_claim(r)
  PROVE  Effect(r)
<1> USE DEF mono_claim
<1>s. session = None \/ session \in Session
  BY DEF Typed, RegistryTypeOK, UploadTypeOK
<1>1. Effect(r)
  <2>1. r \in BlobIds
    BY DEF BlobIds, Uploads
  <2> QED
    BY <2>1, ClaimReq DEF Effect, Typed, AtHand, At
<1> QED
  BY <1>1

LEMMA Typed_mono_claim ==
  ASSUME Typed, NEW r \in Monos \cap DOMAIN req, mono_claim(r), UNCHANGED registry
  PROVE  Typed'
<1> USE DEF mono_claim
<1>d. Domains
  BY DEF Domains, Typed, AtHand, RegistryTypeOK, UploadTypeOK
<1>s. session = None \/ session \in Session
  BY DEF Typed, RegistryTypeOK, UploadTypeOK
<1>1. Effect(r)
  BY Moves_mono_claim
<1>2. /\ \E W : RequestsIn(W)'
      /\ DOMAIN req' = DOMAIN req
      /\ \A s \in DOMAIN req \cap (Patches \cup Finals) :
           req'[s].pc \in {"start", "done"} \/ req'[s].snap \in Session
  BY <1>1, EffectTyped
<1>3. backend' = backend /\ DOMAIN objs' = DOMAIN objs
  BY <1>d DEF kvs
<1>4. clean' \in Cleaner /\ (clean'.pc = "idle" <=> clean'.got = None)
  BY DEF Typed, AtHand
<1>5. session' = None \/ session' \in Session
  BY <1>s DEF kvs
<1>6. \A d \in dedup' : d.blob \in BlobIds
  <2>1. r \in BlobIds
    BY DEF BlobIds, Uploads
  <2> QED
    BY <2>1, ClaimReq
<1>7. \E W : arts' \subseteq Layer(W)
  BY DEF Typed, RecordsIn, kvs
<1>8. faults' \in 0..MaxFaults
  BY UploadAssumption DEF Typed, RegistryTypeOK, UploadTypeOK, Fails
<1>9. risk' \subseteq Risks
  BY DEF Typed, RegistryTypeOK, Risks, Commit
<1> QED
  BY <1>2, <1>3, <1>4, <1>5, <1>6, <1>7, <1>8, <1>9, TypedFrom

LEMMA Moves_mono_record ==
  ASSUME Typed, NEW r \in Monos \cap DOMAIN req, mono_record(r)
  PROVE  Effect(r)
<1> USE DEF mono_record
<1>s. session = None \/ session \in Session
  BY DEF Typed, RegistryTypeOK, UploadTypeOK
<1>1. Effect(r)
  BY GotoReq DEF Steps, Effect, Typed, AtHand, At
<1> QED
  BY <1>1

LEMMA Typed_mono_record ==
  ASSUME Typed, NEW r \in Monos \cap DOMAIN req, mono_record(r), UNCHANGED registry
  PROVE  Typed'
<1> USE DEF mono_record
<1>d. Domains
  BY DEF Domains, Typed, AtHand, RegistryTypeOK, UploadTypeOK
<1>s. session = None \/ session \in Session
  BY DEF Typed, RegistryTypeOK, UploadTypeOK
<1>1. Effect(r)
  BY Moves_mono_record
<1>2. /\ \E W : RequestsIn(W)'
      /\ DOMAIN req' = DOMAIN req
      /\ \A s \in DOMAIN req \cap (Patches \cup Finals) :
           req'[s].pc \in {"start", "done"} \/ req'[s].snap \in Session
  BY <1>1, EffectTyped
<1>3. backend' = backend /\ DOMAIN objs' = DOMAIN objs
  BY <1>d DEF kvs
<1>4. clean' \in Cleaner /\ (clean'.pc = "idle" <=> clean'.got = None)
  BY DEF Typed, AtHand
<1>5. session' = None \/ session' \in Session
  BY <1>s DEF kvs
<1>6. \A d \in dedup' : d.blob \in BlobIds
  BY DEF Typed, RegistryTypeOK, UploadTypeOK, kvs
<1>7. \E W : arts' \subseteq Layer(W)
  <2>1. PICK W : RecordsIn(W)
    BY DEF Typed
  <2>2. PICK V : W \subseteq V /\ Repo \in V /\ MonoContent[r] \in V
    <3>1. W \subseteq W \cup {Repo, MonoContent[r]}
      OBVIOUS
    <3> QED
      BY <3>1
  <2>3. arts \subseteq Layer(V)
    BY <2>1, <2>2 DEF RecordsIn, Layer
  <2>4. Chosen(r, r) \in BlobIds
    <3>1. PICK U : RequestsIn(U)
      BY DEF Typed
    <3> QED
      BY <3>1 DEF RequestsIn, Request, Chosen, BlobIds, Uploads
  <2>5. [repo |-> Repo, digest |-> MonoContent[r], blob |-> Chosen(r, r), old |-> FALSE] \in Layer(V)
    BY <2>2, <2>4 DEF Layer
  <2> QED
    BY <2>3, <2>5 DEF Commit
<1>8. faults' \in 0..MaxFaults
  BY UploadAssumption DEF Typed, RegistryTypeOK, UploadTypeOK, Fails
<1>9. risk' \subseteq Risks
  BY DEF Typed, RegistryTypeOK, Risks, Commit
<1> QED
  BY <1>2, <1>3, <1>4, <1>5, <1>6, <1>7, <1>8, <1>9, TypedFrom

LEMMA Moves_mono_drop ==
  ASSUME Typed, NEW r \in Monos \cap DOMAIN req, mono_drop(r)
  PROVE  Effect(r)
<1> USE DEF mono_drop
<1>s. session = None \/ session \in Session
  BY DEF Typed, RegistryTypeOK, UploadTypeOK
<1>1. Effect(r)
  BY AnswerReq DEF Effect
<1> QED
  BY <1>1

LEMMA Typed_mono_drop ==
  ASSUME Typed, NEW r \in Monos \cap DOMAIN req, mono_drop(r), UNCHANGED registry
  PROVE  Typed'
<1> USE DEF mono_drop
<1>d. Domains
  BY DEF Domains, Typed, AtHand, RegistryTypeOK, UploadTypeOK
<1>s. session = None \/ session \in Session
  BY DEF Typed, RegistryTypeOK, UploadTypeOK
<1>1. Effect(r)
  BY Moves_mono_drop
<1>2. /\ \E W : RequestsIn(W)'
      /\ DOMAIN req' = DOMAIN req
      /\ \A s \in DOMAIN req \cap (Patches \cup Finals) :
           req'[s].pc \in {"start", "done"} \/ req'[s].snap \in Session
  BY <1>1, EffectTyped
<1>3. backend' = backend /\ DOMAIN objs' = DOMAIN objs
  BY <1>d DEF Domains, kvs, DeleteTarget, Blobs!Backends, Blobs!put, Blobs!file_put, Blobs!s3_put, Blobs!delete, Blobs!file_delete, Blobs!s3_delete,
     Blobs!abort, Blobs!file_abort, Blobs!direct_abort, Blobs!s3_abort, Blobs!create_writer,
     Blobs!file_create_writer, Blobs!s3_create_writer, Blobs!finish, Blobs!file_finish,
     Blobs!direct_finish, Blobs!s3_finish, Blobs!drop, Blobs!s3_drop, Blobs!Object
<1>4. clean' \in Cleaner /\ (clean'.pc = "idle" <=> clean'.got = None)
  BY DEF Typed, AtHand
<1>5. session' = None \/ session' \in Session
  BY <1>s DEF kvs
<1>6. \A d \in dedup' : d.blob \in BlobIds
  BY DEF Typed, RegistryTypeOK, UploadTypeOK, kvs
<1>7. \E W : arts' \subseteq Layer(W)
  BY DEF Typed, RecordsIn, kvs
<1>8. faults' \in 0..MaxFaults
  BY UploadAssumption DEF Typed, RegistryTypeOK, UploadTypeOK, Fails
<1>9. risk' \subseteq Risks
  BY DEF Typed, RegistryTypeOK, Risks, Commit
<1> QED
  BY <1>2, <1>3, <1>4, <1>5, <1>6, <1>7, <1>8, <1>9, TypedFrom

LEMMA Typed_Age ==
  ASSUME Typed, Age, UNCHANGED registry
  PROVE  Typed'
<1> USE DEF Age
<1>d. Domains
  BY DEF Domains, Typed, AtHand, RegistryTypeOK, UploadTypeOK
<1>s. session = None \/ session \in Session
  BY DEF Typed, RegistryTypeOK, UploadTypeOK
<1>2. /\ \E W : RequestsIn(W)'
      /\ DOMAIN req' = DOMAIN req
      /\ \A s \in DOMAIN req \cap (Patches \cup Finals) :
           req'[s].pc \in {"start", "done"} \/ req'[s].snap \in Session
  BY DEF Typed, AtHand, RequestsIn
<1>3. backend' = backend /\ DOMAIN objs' = DOMAIN objs
  BY <1>d DEF kvs
<1>4. clean' \in Cleaner /\ (clean'.pc = "idle" <=> clean'.got = None)
  BY DEF Typed, AtHand
<1>5. session' = None \/ session' \in Session
  BY <1>s DEF Session
<1>6. \A d \in dedup' : d.blob \in BlobIds
  BY DEF Typed, RegistryTypeOK, UploadTypeOK, kvs
<1>7. \E W : arts' \subseteq Layer(W)
  BY DEF Typed, RecordsIn, kvs
<1>8. faults' \in 0..MaxFaults
  BY UploadAssumption DEF Typed, RegistryTypeOK, UploadTypeOK, Fails
<1>9. risk' \subseteq Risks
  BY DEF Typed, RegistryTypeOK, Risks, Commit
<1> QED
  BY <1>2, <1>3, <1>4, <1>5, <1>6, <1>7, <1>8, <1>9, TypedFrom

LEMMA Typed_list_upload_sessions ==
  ASSUME Typed, list_upload_sessions, UNCHANGED registry
  PROVE  Typed'
<1> USE DEF list_upload_sessions
<1>d. Domains
  BY DEF Domains, Typed, AtHand, RegistryTypeOK, UploadTypeOK
<1>s. session = None \/ session \in Session
  BY DEF Typed, RegistryTypeOK, UploadTypeOK
<1>2. /\ \E W : RequestsIn(W)'
      /\ DOMAIN req' = DOMAIN req
      /\ \A s \in DOMAIN req \cap (Patches \cup Finals) :
           req'[s].pc \in {"start", "done"} \/ req'[s].snap \in Session
  BY DEF Typed, AtHand, RequestsIn
<1>3. backend' = backend /\ DOMAIN objs' = DOMAIN objs
  BY <1>d DEF kvs
<1>4. clean' \in Cleaner /\ (clean'.pc = "idle" <=> clean'.got = None)
  BY <1>s DEF AtHand, Typed, Cleaner
<1>5. session' = None \/ session' \in Session
  BY <1>s DEF kvs
<1>6. \A d \in dedup' : d.blob \in BlobIds
  BY DEF Typed, RegistryTypeOK, UploadTypeOK, kvs
<1>7. \E W : arts' \subseteq Layer(W)
  BY DEF Typed, RecordsIn, kvs
<1>8. faults' \in 0..MaxFaults
  BY UploadAssumption DEF Typed, RegistryTypeOK, UploadTypeOK, Fails
<1>9. risk' \subseteq Risks
  BY DEF Typed, RegistryTypeOK, Risks, Commit
<1> QED
  BY <1>2, <1>3, <1>4, <1>5, <1>6, <1>7, <1>8, <1>9, TypedFrom

LEMMA Typed_cleanup_delete ==
  ASSUME Typed, cleanup_delete, UNCHANGED registry
  PROVE  Typed'
<1> USE DEF cleanup_delete
<1>d. Domains
  BY DEF Domains, Typed, AtHand, RegistryTypeOK, UploadTypeOK
<1>s. session = None \/ session \in Session
  BY DEF Typed, RegistryTypeOK, UploadTypeOK
<1>2. /\ \E W : RequestsIn(W)'
      /\ DOMAIN req' = DOMAIN req
      /\ \A s \in DOMAIN req \cap (Patches \cup Finals) :
           req'[s].pc \in {"start", "done"} \/ req'[s].snap \in Session
  <2>1. CASE UNCHANGED req
    BY <2>1 DEF Typed, AtHand, RequestsIn
  <2>2. CASE UnlinkAll
    BY <2>2, UnlinkReq DEF Typed, AtHand
  <2> QED
    BY <2>1, <2>2 DEF UnlinkAll
<1>3. backend' = backend /\ DOMAIN objs' = DOMAIN objs
  BY <1>d DEF Domains, kvs, DeleteTarget, Blobs!Backends, Blobs!put, Blobs!file_put, Blobs!s3_put, Blobs!delete, Blobs!file_delete, Blobs!s3_delete,
     Blobs!abort, Blobs!file_abort, Blobs!direct_abort, Blobs!s3_abort, Blobs!create_writer,
     Blobs!file_create_writer, Blobs!s3_create_writer, Blobs!finish, Blobs!file_finish,
     Blobs!direct_finish, Blobs!s3_finish, Blobs!drop, Blobs!s3_drop, Blobs!Object
<1>4. clean' \in Cleaner /\ (clean'.pc = "idle" <=> clean'.got = None)
  BY DEF Typed, AtHand, Cleaner
<1>5. session' = None \/ session' \in Session
  BY <1>s DEF kvs
<1>6. \A d \in dedup' : d.blob \in BlobIds
  BY DEF Typed, RegistryTypeOK, UploadTypeOK, kvs
<1>7. \E W : arts' \subseteq Layer(W)
  BY DEF Typed, RecordsIn, kvs
<1>8. faults' \in 0..MaxFaults
  BY UploadAssumption DEF Typed, RegistryTypeOK, UploadTypeOK, Fails
<1>9. risk' \subseteq Risks
  BY DEF Typed, RegistryTypeOK, Risks, Commit
<1> QED
  BY <1>2, <1>3, <1>4, <1>5, <1>6, <1>7, <1>8, <1>9, TypedFrom

LEMMA Typed_cleanup_session ==
  ASSUME Typed, cleanup_session, UNCHANGED registry
  PROVE  Typed'
<1> USE DEF cleanup_session
<1>d. Domains
  BY DEF Domains, Typed, AtHand, RegistryTypeOK, UploadTypeOK
<1>s. session = None \/ session \in Session
  BY DEF Typed, RegistryTypeOK, UploadTypeOK
<1>2. /\ \E W : RequestsIn(W)'
      /\ DOMAIN req' = DOMAIN req
      /\ \A s \in DOMAIN req \cap (Patches \cup Finals) :
           req'[s].pc \in {"start", "done"} \/ req'[s].snap \in Session
  BY DEF Typed, AtHand, RequestsIn
<1>3. backend' = backend /\ DOMAIN objs' = DOMAIN objs
  BY <1>d DEF kvs
<1>4. clean' \in Cleaner /\ (clean'.pc = "idle" <=> clean'.got = None)
  BY DEF Typed, AtHand, Cleaner
<1>5. session' = None \/ session' \in Session
  BY <1>s DEF kvs
<1>6. \A d \in dedup' : d.blob \in BlobIds
  BY DEF Typed, RegistryTypeOK, UploadTypeOK, kvs
<1>7. \E W : arts' \subseteq Layer(W)
  BY DEF Typed, RecordsIn, kvs
<1>8. faults' \in 0..MaxFaults
  BY UploadAssumption DEF Typed, RegistryTypeOK, UploadTypeOK, Fails
<1>9. risk' \subseteq Risks
  BY DEF Typed, RegistryTypeOK, Risks, Commit
<1> QED
  BY <1>2, <1>3, <1>4, <1>5, <1>6, <1>7, <1>8, <1>9, TypedFrom

-----------------------------------------------------------------------------
(* What the steps do to the registry's requests and records.               *)

LEMMA SomeOps ==
  ASSUME Typed, NEW x
  PROVE  \E W : OpsIn(W) /\ x \in W
<1>1. PICK W : OpsIn(W)
  BY DEF Typed
<1>2. OpsIn(W \cup {x})
  BY <1>1 DEF OpsIn, Operation
<1> QED
  BY <1>2

\* The request o becomes x, the others stay.
GivesOp(o, x) == ops' = [ops EXCEPT ![o] = x]

LEMMA GivesOps ==
  ASSUME NEW W, OpsIn(W), NEW o \in DOMAIN ops, NEW x \in Operation(W), GivesOp(o, x)
  PROVE  /\ OpsIn(W)' /\ DOMAIN ops' = DOMAIN ops /\ ops'[o] = x
         /\ \A p \in DOMAIN ops \ {o} : ops'[p] = ops[p]
BY DEF OpsIn, GivesOp

LEMMA ReplyOps ==
  ASSUME Typed, NEW o \in DOMAIN ops, NEW what, Reply(o, what)
  PROVE  /\ \E W : OpsIn(W)'
         /\ DOMAIN ops' = DOMAIN ops /\ ops'[o].pc = "done" /\ ops'[o].answer = what
         /\ \A p \in DOMAIN ops \ {o} : ops'[p] = ops[p]
<1>1. PICK V : OpsIn(V) /\ what \in V
  BY SomeOps
<1>2. PICK W : W = V \cup {1, None, {}, 0}
  OBVIOUS
<1>3. OpsIn(W)
  BY <1>1, <1>2 DEF OpsIn, Operation
<1>4. NewOp("done") \in Operation(W) /\ what \in W
  BY <1>1, <1>2 DEF NewOp, Operation, OpSteps
<1>5. [NewOp("done") EXCEPT !.answer = what] \in Operation(W)
      /\ [NewOp("done") EXCEPT !.answer = what].pc = "done"
      /\ [NewOp("done") EXCEPT !.answer = what].answer = what
  BY <1>4 DEF NewOp, Operation
<1>6. GivesOp(o, [NewOp("done") EXCEPT !.answer = what])
  BY DEF Reply, GivesOp
<1> QED
  BY <1>3, <1>5, <1>6, GivesOps

LEMMA GotoOps ==
  ASSUME Typed, NEW o \in DOMAIN ops, NEW pc \in OpSteps, OpGoto(o, pc)
  PROVE  /\ \E W : OpsIn(W)'
         /\ DOMAIN ops' = DOMAIN ops /\ ops'[o].pc = pc
         /\ ops'[o].digest = ops[o].digest /\ ops'[o].blob = ops[o].blob
         /\ ops'[o].answer = ops[o].answer
         /\ \A p \in DOMAIN ops \ {o} : ops'[p] = ops[p]
<1>1. PICK W : OpsIn(W)
  BY DEF Typed
<1> DEFINE x == [ops[o] EXCEPT !.pc = pc]
<1>2. GivesOp(o, x) /\ ops[o] \in Operation(W)
  BY <1>1 DEF OpGoto, GivesOp, OpsIn
<1>3. x \in Operation(W) /\ x.pc = pc /\ x.digest = ops[o].digest /\ x.blob = ops[o].blob
      /\ x.answer = ops[o].answer
  BY <1>2 DEF Operation
<1> HIDE DEF x
<1> QED
  BY <1>1, <1>2, <1>3, GivesOps

LEMMA NextOps ==
  ASSUME Typed, NEW o \in DOMAIN ops, NextMember(o)
  PROVE  /\ \E W : OpsIn(W)'
         /\ DOMAIN ops' = DOMAIN ops /\ ops'[o].pc = ops[o].pc
         /\ ops'[o].digest = ops[o].digest /\ ops'[o].blob = ops[o].blob
         /\ ops'[o].answer = ops[o].answer
         /\ \A p \in DOMAIN ops \ {o} : ops'[p] = ops[p]
<1>1. PICK W : OpsIn(W) /\ ops[o].at + 1 \in W
  BY SomeOps
<1> DEFINE x == [ops[o] EXCEPT !.at = ops[o].at + 1]
<1>2. GivesOp(o, x) /\ ops[o] \in Operation(W)
  BY <1>1 DEF NextMember, GivesOp, OpsIn
<1>3. x \in Operation(W) /\ x.pc = ops[o].pc /\ x.digest = ops[o].digest /\ x.blob = ops[o].blob
      /\ x.answer = ops[o].answer
  BY <1>1, <1>2 DEF Operation
<1> HIDE DEF x
<1> QED
  BY <1>1, <1>2, <1>3, GivesOps

\* The step that o goes to, with what it carries there.
Takes(o, pc, digest) == ops' = [ops EXCEPT ![o].pc = pc, ![o].digest = digest]
Finds(o, pc, blob) == ops' = [ops EXCEPT ![o].pc = pc, ![o].blob = blob]
Leaves(o, pc, todo) == ops' = [ops EXCEPT ![o].pc = pc, ![o].todo = todo]
Lacks(o, todo) == ops' = [ops EXCEPT ![o].todo = todo]
Walks(o, digest, todo) == ops' = [ops EXCEPT ![o].pc = "layers", ![o].digest = digest, ![o].todo = todo]
Pages(o, last, todo, digest) ==
    ops' = [ops EXCEPT ![o].last = last, ![o].todo = todo, ![o].digest = digest]
Closes(o, todo, digest) ==
    ops' = [ops EXCEPT ![o].pc = "done", ![o].todo = todo, ![o].digest = digest]

LEMMA TakesOps ==
  ASSUME Typed, NEW o \in DOMAIN ops, NEW pc \in OpSteps, NEW digest, Takes(o, pc, digest)
  PROVE  /\ \E W : OpsIn(W)'
         /\ DOMAIN ops' = DOMAIN ops /\ ops'[o].pc = pc
         /\ ops'[o].digest = digest /\ ops'[o].blob = ops[o].blob
         /\ ops'[o].answer = ops[o].answer
         /\ \A p \in DOMAIN ops \ {o} : ops'[p] = ops[p]
<1>0. PICK V : OpsIn(V)
  BY DEF Typed
<1>1. PICK W : W = V \cup {digest}
  OBVIOUS
<1>2. OpsIn(W) /\ digest \in W
  BY <1>0, <1>1 DEF OpsIn, Operation
<1> DEFINE x == [ops[o] EXCEPT !.pc = pc, !.digest = digest]
<1>3. GivesOp(o, x) /\ ops[o] \in Operation(W)
  BY <1>2 DEF Takes, GivesOp, OpsIn
<1>4. x \in Operation(W) /\ x.pc = pc /\ x.digest = digest /\ x.blob = ops[o].blob
      /\ x.answer = ops[o].answer
  BY <1>2, <1>3 DEF Operation, OpSteps
<1> HIDE DEF x
<1> QED
  BY <1>2, <1>3, <1>4, GivesOps

LEMMA FindsOps ==
  ASSUME Typed, NEW o \in DOMAIN ops, NEW pc \in OpSteps, NEW blob, Finds(o, pc, blob)
  PROVE  /\ \E W : OpsIn(W)'
         /\ DOMAIN ops' = DOMAIN ops /\ ops'[o].pc = pc
         /\ ops'[o].digest = ops[o].digest /\ ops'[o].blob = blob
         /\ ops'[o].answer = ops[o].answer
         /\ \A p \in DOMAIN ops \ {o} : ops'[p] = ops[p]
<1>0. PICK V : OpsIn(V)
  BY DEF Typed
<1>1. PICK W : W = V \cup {blob}
  OBVIOUS
<1>2. OpsIn(W) /\ blob \in W
  BY <1>0, <1>1 DEF OpsIn, Operation
<1> DEFINE x == [ops[o] EXCEPT !.pc = pc, !.blob = blob]
<1>3. GivesOp(o, x) /\ ops[o] \in Operation(W)
  BY <1>2 DEF Finds, GivesOp, OpsIn
<1>4. x \in Operation(W) /\ x.pc = pc /\ x.digest = ops[o].digest /\ x.blob = blob
      /\ x.answer = ops[o].answer
  BY <1>2, <1>3 DEF Operation, OpSteps
<1> HIDE DEF x
<1> QED
  BY <1>2, <1>3, <1>4, GivesOps

LEMMA LeavesOps ==
  ASSUME Typed, NEW o \in DOMAIN ops, NEW pc \in OpSteps, NEW todo, Leaves(o, pc, todo)
  PROVE  /\ \E W : OpsIn(W)'
         /\ DOMAIN ops' = DOMAIN ops /\ ops'[o].pc = pc
         /\ ops'[o].digest = ops[o].digest /\ ops'[o].blob = ops[o].blob
         /\ ops'[o].answer = ops[o].answer
         /\ \A p \in DOMAIN ops \ {o} : ops'[p] = ops[p]
<1>0. PICK V : OpsIn(V)
  BY DEF Typed
<1>1. PICK W : W = V \cup {todo}
  OBVIOUS
<1>2. OpsIn(W) /\ todo \in W
  BY <1>0, <1>1 DEF OpsIn, Operation
<1> DEFINE x == [ops[o] EXCEPT !.pc = pc, !.todo = todo]
<1>3. GivesOp(o, x) /\ ops[o] \in Operation(W)
  BY <1>2 DEF Leaves, GivesOp, OpsIn
<1>4. x \in Operation(W) /\ x.pc = pc /\ x.digest = ops[o].digest /\ x.blob = ops[o].blob
      /\ x.answer = ops[o].answer
  BY <1>2, <1>3 DEF Operation, OpSteps
<1> HIDE DEF x
<1> QED
  BY <1>2, <1>3, <1>4, GivesOps

LEMMA LacksOps ==
  ASSUME Typed, NEW o \in DOMAIN ops, NEW todo, Lacks(o, todo)
  PROVE  /\ \E W : OpsIn(W)'
         /\ DOMAIN ops' = DOMAIN ops /\ ops'[o].pc = ops[o].pc
         /\ ops'[o].digest = ops[o].digest /\ ops'[o].blob = ops[o].blob
         /\ ops'[o].answer = ops[o].answer
         /\ \A p \in DOMAIN ops \ {o} : ops'[p] = ops[p]
<1>0. PICK V : OpsIn(V)
  BY DEF Typed
<1>1. PICK W : W = V \cup {todo}
  OBVIOUS
<1>2. OpsIn(W) /\ todo \in W
  BY <1>0, <1>1 DEF OpsIn, Operation
<1> DEFINE x == [ops[o] EXCEPT !.todo = todo]
<1>3. GivesOp(o, x) /\ ops[o] \in Operation(W)
  BY <1>2 DEF Lacks, GivesOp, OpsIn
<1>4. x \in Operation(W) /\ x.pc = ops[o].pc /\ x.digest = ops[o].digest /\ x.blob = ops[o].blob
      /\ x.answer = ops[o].answer
  BY <1>2, <1>3 DEF Operation, OpSteps
<1> HIDE DEF x
<1> QED
  BY <1>2, <1>3, <1>4, GivesOps

LEMMA WalksOps ==
  ASSUME Typed, NEW o \in DOMAIN ops, NEW digest, NEW todo, Walks(o, digest, todo)
  PROVE  /\ \E W : OpsIn(W)'
         /\ DOMAIN ops' = DOMAIN ops /\ ops'[o].pc = "layers"
         /\ ops'[o].digest = digest /\ ops'[o].blob = ops[o].blob
         /\ ops'[o].answer = ops[o].answer
         /\ \A p \in DOMAIN ops \ {o} : ops'[p] = ops[p]
<1>0. PICK V : OpsIn(V)
  BY DEF Typed
<1>1. PICK W : W = V \cup {digest, todo}
  OBVIOUS
<1>2. OpsIn(W) /\ digest \in W /\ todo \in W
  BY <1>0, <1>1 DEF OpsIn, Operation
<1> DEFINE x == [ops[o] EXCEPT !.pc = "layers", !.digest = digest, !.todo = todo]
<1>3. GivesOp(o, x) /\ ops[o] \in Operation(W)
  BY <1>2 DEF Walks, GivesOp, OpsIn
<1>4. x \in Operation(W) /\ x.pc = "layers" /\ x.digest = digest /\ x.blob = ops[o].blob
      /\ x.answer = ops[o].answer
  BY <1>2, <1>3 DEF Operation, OpSteps
<1> HIDE DEF x
<1> QED
  BY <1>2, <1>3, <1>4, GivesOps

LEMMA PagesOps ==
  ASSUME Typed, NEW o \in DOMAIN ops, NEW last, NEW todo, NEW digest, Pages(o, last, todo, digest)
  PROVE  /\ \E W : OpsIn(W)'
         /\ DOMAIN ops' = DOMAIN ops /\ ops'[o].pc = ops[o].pc
         /\ ops'[o].digest = digest /\ ops'[o].blob = ops[o].blob
         /\ ops'[o].answer = ops[o].answer
         /\ \A p \in DOMAIN ops \ {o} : ops'[p] = ops[p]
<1>0. PICK V : OpsIn(V)
  BY DEF Typed
<1>1. PICK W : W = V \cup {last, todo, digest}
  OBVIOUS
<1>2. OpsIn(W) /\ last \in W /\ todo \in W /\ digest \in W
  BY <1>0, <1>1 DEF OpsIn, Operation
<1> DEFINE x == [ops[o] EXCEPT !.last = last, !.todo = todo, !.digest = digest]
<1>3. GivesOp(o, x) /\ ops[o] \in Operation(W)
  BY <1>2 DEF Pages, GivesOp, OpsIn
<1>4. x \in Operation(W) /\ x.pc = ops[o].pc /\ x.digest = digest /\ x.blob = ops[o].blob
      /\ x.answer = ops[o].answer
  BY <1>2, <1>3 DEF Operation, OpSteps
<1> HIDE DEF x
<1> QED
  BY <1>2, <1>3, <1>4, GivesOps

LEMMA ClosesOps ==
  ASSUME Typed, NEW o \in DOMAIN ops, NEW todo, NEW digest, Closes(o, todo, digest)
  PROVE  /\ \E W : OpsIn(W)'
         /\ DOMAIN ops' = DOMAIN ops /\ ops'[o].pc = "done"
         /\ ops'[o].digest = digest /\ ops'[o].blob = ops[o].blob
         /\ ops'[o].answer = ops[o].answer
         /\ \A p \in DOMAIN ops \ {o} : ops'[p] = ops[p]
<1>0. PICK V : OpsIn(V)
  BY DEF Typed
<1>1. PICK W : W = V \cup {todo, digest}
  OBVIOUS
<1>2. OpsIn(W) /\ todo \in W /\ digest \in W
  BY <1>0, <1>1 DEF OpsIn, Operation
<1> DEFINE x == [ops[o] EXCEPT !.pc = "done", !.todo = todo, !.digest = digest]
<1>3. GivesOp(o, x) /\ ops[o] \in Operation(W)
  BY <1>2 DEF Closes, GivesOp, OpsIn
<1>4. x \in Operation(W) /\ x.pc = "done" /\ x.digest = digest /\ x.blob = ops[o].blob
      /\ x.answer = ops[o].answer
  BY <1>2, <1>3 DEF Operation, OpSteps
<1> HIDE DEF x
<1> QED
  BY <1>2, <1>3, <1>4, GivesOps

LEMMA LayerSet ==
  ASSUME Typed, NEW repo, NEW digest, NEW blob \in BlobIds, NEW old \in BOOLEAN,
         SetLayer(repo, digest, blob, old)
  PROVE  \E W : arts' \subseteq Layer(W)
<1>1. PICK V : arts \subseteq Layer(V)
  BY DEF Typed, RecordsIn
<1>2. PICK W : W = V \cup {repo, digest}
  OBVIOUS
<1>3. arts \subseteq Layer(W)
  BY <1>1, <1>2 DEF Layer
<1>4. [repo |-> repo, digest |-> digest, blob |-> blob, old |-> old] \in Layer(W)
  BY <1>2 DEF Layer
<1> QED
  BY <1>3, <1>4 DEF SetLayer

LEMMA ManifestSet ==
  ASSUME Typed, NEW repo, NEW digest \in Manifests, NEW blob \in BlobIds, NEW old \in BOOLEAN,
         SetManifest(repo, digest, blob, old)
  PROVE  \E W : manifests' \subseteq Manifest(W)
<1>1. PICK V : manifests \subseteq Manifest(V)
  BY DEF Typed, RecordsIn
<1>2. PICK W : W = V \cup {repo}
  OBVIOUS
<1>3. manifests \subseteq Manifest(W)
  BY <1>1, <1>2 DEF Manifest
<1>4. [repo |-> repo, digest |-> digest, blob |-> blob, old |-> old] \in Manifest(W)
  BY <1>2 DEF Manifest
<1> QED
  BY <1>3, <1>4 DEF SetManifest

LEMMA TagSet ==
  ASSUME Typed, NEW repo, NEW tag \in Tags, NEW digest \in Manifests, NEW old \in BOOLEAN,
         SetTag(repo, tag, digest, old)
  PROVE  \E W : tags' \subseteq Tag(W)
<1>1. PICK V : tags \subseteq Tag(V)
  BY DEF Typed, RecordsIn
<1>2. PICK W : W = V \cup {repo}
  OBVIOUS
<1>3. tags \subseteq Tag(W)
  BY <1>1, <1>2 DEF Tag
<1>4. [repo |-> repo, tag |-> tag, digest |-> digest, old |-> old] \in Tag(W)
  BY <1>2 DEF Tag
<1> QED
  BY <1>3, <1>4 DEF SetTag

\* A step of o leaves the registry's requests well typed.
OpEffect(o) ==
    /\ \E W : OpsIn(W)'
    /\ DOMAIN ops' = DOMAIN ops
    /\ ops'[o].pc \in {"blob", "claim", "tag", "manifest"} => ops'[o].digest \in Manifests
    /\ ops'[o].pc \in {"tag", "manifest", "layer record"} => ops'[o].blob \in BlobIds
    /\ \A p \in DOMAIN ops \ {o} : ops'[p] = ops[p]

\* What a step of o has to show.
LEMMA OpTypedFrom ==
  ASSUME Typed, NEW o \in DOMAIN ops, OpEffect(o), UNCHANGED <<sessions, gc, fixed>>,
         DOMAIN objs' = DOMAIN objs,
         \A d \in dedup' : d.blob \in BlobIds,
         \E W : arts' \subseteq Layer(W),
         \E W : manifests' \subseteq Manifest(W),
         \E W : tags' \subseteq Tag(W),
         faults' \in 0..MaxFaults, risk' \subseteq Risks
  PROVE  Typed'
<1>1. UNCHANGED <<backend, session, req, clean, gc, untagged, collect, foreign, upstream>>
  BY DEF sessions, fixed
<1>2. PICK U, V, X : arts' \subseteq Layer(U) /\ manifests' \subseteq Manifest(V) /\ tags' \subseteq Tag(X)
  OBVIOUS
<1>3. PICK W : W = U \cup V \cup X
  OBVIOUS
<1>4. arts' \subseteq Layer(W) /\ manifests' \subseteq Manifest(W) /\ tags' \subseteq Tag(W)
  BY <1>2, <1>3 DEF Layer, Manifest, Tag
<1>5. \A a \in arts' : a.blob \in BlobIds /\ a.old \in BOOLEAN
  BY <1>2 DEF Layer
<1>6. UploadTypeOK'
  BY <1>1, <1>5 DEF UploadTypeOK, Typed, RegistryTypeOK
<1>7. /\ \A m \in manifests' : m.digest \in Manifests /\ m.blob \in BlobIds /\ m.old \in BOOLEAN
      /\ \A t \in tags' : t.tag \in Tags /\ t.digest \in Manifests /\ t.old \in BOOLEAN
  BY <1>2 DEF Manifest, Tag
<1>8. \A p \in DOMAIN ops' : ops'[p].pc \in OpSteps
  BY DEF OpEffect, OpsIn, Operation
<1>9. RegistryTypeOK'
  BY <1>1, <1>6, <1>7, <1>8 DEF RegistryTypeOK, Typed, OpEffect
<1>10. AtHand'
  BY <1>1 DEF AtHand, Typed, OpEffect
<1>11. RecordsIn(W)'
  BY <1>4 DEF RecordsIn
<1>12. (\E Y : RequestsIn(Y)') /\ (\E Y : gc' \in Collector(Y)) /\ (\E Y : OpsIn(Y)')
  BY <1>1 DEF Typed, RequestsIn, OpEffect
<1> QED
  BY <1>9, <1>10, <1>11, <1>12 DEF Typed

LEMMA ReplyEffect ==
  ASSUME Typed, NEW o \in DOMAIN ops, NEW what, Reply(o, what)
  PROVE  OpEffect(o)
BY ReplyOps DEF OpEffect

LEMMA NextEffect ==
  ASSUME Typed, NEW o \in DOMAIN ops, ops[o].pc = "start", NextMember(o)
  PROVE  OpEffect(o)
BY NextOps DEF OpEffect

\* A read changes its own request and nothing else.
LEMMA TypedReads ==
  ASSUME Typed, NEW o \in DOMAIN ops, OpEffect(o), UNCHANGED reads
  PROVE  Typed'
<1>1. /\ UNCHANGED <<sessions, gc, fixed>> /\ objs' = objs /\ dedup' = dedup /\ arts' = arts
      /\ manifests' = manifests /\ tags' = tags /\ faults' = faults /\ risk' = risk
  BY DEF reads, upload, sessions
<1>2. /\ \A d \in dedup' : d.blob \in BlobIds
      /\ faults' \in 0..MaxFaults /\ risk' \subseteq Risks
  BY <1>1 DEF Typed, RegistryTypeOK, UploadTypeOK
<1>3. /\ \E W : arts' \subseteq Layer(W) /\ manifests' \subseteq Manifest(W) /\ tags' \subseteq Tag(W)
  BY <1>1 DEF Typed, RecordsIn
<1> QED
  BY <1>1, <1>2, <1>3, OpTypedFrom

\* The steps that answer from a hosted repository, or ask the next one.
Serves(o) == /\ ops[o].pc = "start" /\ UNCHANGED reads
             /\ (\E what : Reply(o, what)) \/ NextMember(o)

LEMMA Typed_Serves ==
  ASSUME Typed, NEW o \in DOMAIN ops, Serves(o)
  PROVE  Typed'
BY ReplyEffect, NextEffect, TypedReads DEF Serves

LEMMA HostedServes ==
  ASSUME NEW o \in DOMAIN ops,
         \/ do_get_manifest(o) \/ do_head_manifest(o) \/ do_get_blob(o) \/ do_head_blob(o)
         \/ proxy_get_manifest(o) \/ proxy_head_manifest(o)
         \/ proxy_get_blob(o) \/ proxy_head_blob(o) \/ not_found(o)
  PROVE  Serves(o)
BY DEF do_get_manifest, do_head_manifest, do_get_blob, do_head_blob, proxy_get_manifest,
       proxy_head_manifest, proxy_get_blob, proxy_head_blob, not_found, ServeManifest, ServeBlob,
       Reading, OpAt, Serves, reads

LEMMA FaultsCounted ==
  ASSUME Typed, UNCHANGED faults \/ Fails
  PROVE  faults' \in 0..MaxFaults
<1>1. faults \in 0..MaxFaults /\ MaxFaults \in Nat
  BY UploadAssumption DEF Typed, RegistryTypeOK, UploadTypeOK
<1> QED
  BY <1>1 DEF Fails

LEMMA FetchEffect ==
  ASSUME Typed, NEW o \in DOMAIN ops, NEW stale, fetch_upstream_manifest(o, stale),
         OpAt(o, "start"), Kind(o) \in {"get manifest", "head manifest"}
  PROVE  OpEffect(o) /\ faults' \in 0..MaxFaults /\ risk' \subseteq Risks
<1>1. risk \subseteq Risks /\ "uncompared" \in Risks
  BY DEF Typed, RegistryTypeOK, Risks
<1>2. ASSUME NEW sent, sent \in IF Ask[o].tag = None THEN Images \cup {Ask[o].digest} ELSE {upstream},
             Takes(o, "blob", sent), UNCHANGED faults
      PROVE  OpEffect(o) /\ faults' \in 0..MaxFaults
  <2>1. "blob" \in OpSteps
    BY DEF OpSteps
  <2>2. sent \in Manifests
    BY <1>2, RegistryAssumption DEF Typed, RegistryTypeOK, Manifests, Kind
  <2>3. OpEffect(o)
    BY <1>2, <2>1, <2>2, TakesOps DEF OpEffect
  <2> QED
    BY <1>2, <2>3, FaultsCounted
<1>3. Fails /\ NextMember(o) => OpEffect(o) /\ faults' \in 0..MaxFaults
  BY NextEffect, FaultsCounted DEF OpAt
<1>4. Fails /\ (\E what : Reply(o, what)) => OpEffect(o) /\ faults' \in 0..MaxFaults
  BY ReplyEffect, FaultsCounted
<1>5. risk' \subseteq Risks
  BY <1>1 DEF fetch_upstream_manifest
<1> QED
  BY <1>2, <1>3, <1>4, <1>5 DEF fetch_upstream_manifest, Takes

\* What a step of o leaves alone, in one fact.
LEMMA TypedMost ==
  ASSUME Typed, NEW o \in DOMAIN ops, OpEffect(o), UNCHANGED <<sessions, gc, fixed>>,
         DOMAIN objs' = DOMAIN objs, faults' \in 0..MaxFaults, risk' \subseteq Risks,
         UNCHANGED dedup \/ \A d \in dedup' : d.blob \in BlobIds,
         UNCHANGED arts \/ \E W : arts' \subseteq Layer(W),
         UNCHANGED manifests \/ \E W : manifests' \subseteq Manifest(W),
         UNCHANGED tags \/ \E W : tags' \subseteq Tag(W)
  PROVE  Typed'
<1>1. \A d \in dedup' : d.blob \in BlobIds
  BY DEF Typed, RegistryTypeOK, UploadTypeOK
<1>2. (\E W : arts' \subseteq Layer(W)) /\ (\E W : manifests' \subseteq Manifest(W))
      /\ (\E W : tags' \subseteq Tag(W))
  BY DEF Typed, RecordsIn
<1> QED
  BY <1>1, <1>2, OpTypedFrom

LEMMA Typed_cache_manifest ==
  ASSUME Typed, NEW o \in DOMAIN ops, cache_get_manifest(o) \/ cache_head_manifest(o)
  PROVE  Typed'
<1>1. OpAt(o, "start") /\ Kind(o) \in {"get manifest", "head manifest"}
  BY DEF cache_get_manifest, cache_head_manifest, Reading
<1>2. /\ UNCHANGED <<sessions, gc, fixed>> /\ objs' = objs
      /\ UNCHANGED dedup /\ UNCHANGED arts /\ UNCHANGED manifests /\ UNCHANGED tags
  BY DEF cache_get_manifest, cache_head_manifest
<1>3. \/ (\E what : Reply(o, what)) /\ UNCHANGED <<faults, risk>>
      \/ \E stale : fetch_upstream_manifest(o, stale)
  BY DEF cache_get_manifest, cache_head_manifest
<1>4. OpEffect(o) /\ faults' \in 0..MaxFaults /\ risk' \subseteq Risks
  BY <1>1, <1>3, ReplyEffect, FetchEffect DEF Typed, RegistryTypeOK, UploadTypeOK
<1> QED
  BY <1>2, <1>4, TypedMost

LEMMA Typed_cache_blob ==
  ASSUME Typed, NEW o \in DOMAIN ops, cache_get_blob(o) \/ cache_head_blob(o)
  PROVE  Typed'
<1>1. ops[o].pc = "start"
  BY DEF cache_get_blob, cache_head_blob, Reading, OpAt
<1>2. /\ UNCHANGED <<sessions, gc, fixed>> /\ UNCHANGED dedup /\ UNCHANGED arts
      /\ UNCHANGED manifests /\ UNCHANGED tags
  BY DEF cache_get_blob, cache_head_blob
<1>3. \/ (\E what : Reply(o, what)) /\ UNCHANGED objs /\ (UNCHANGED faults \/ Fails)
         /\ UNCHANGED risk
      \/ NextMember(o) /\ UNCHANGED objs /\ Fails /\ UNCHANGED risk
      \/ /\ OpGoto(o, "layer claim") /\ (UNCHANGED faults \/ Fails)
         /\ \E content : objs' = Blobs!put(backend, objs, o, content)
         /\ risk' \subseteq risk \cup {"unverified"}
  BY DEF cache_get_blob, cache_head_blob, fetch_upstream_blob_to_writer
<1>4. OpEffect(o)
  BY <1>1, <1>3, ReplyEffect, NextEffect, GotoOps DEF OpEffect, OpSteps
<1>5. DOMAIN objs' = DOMAIN objs
  BY <1>3 DEF Blobs!put, Blobs!file_put, Blobs!s3_put, Blobs!Object
<1>6. faults' \in 0..MaxFaults /\ risk' \subseteq Risks
  <2>1. risk \subseteq Risks
    BY DEF Typed, RegistryTypeOK
  <2> QED
    BY <1>3, <2>1, FaultsCounted DEF Risks
<1> QED
  BY <1>2, <1>4, <1>5, <1>6, TypedMost

LEMMA PutDomain ==
  ASSUME NEW b, NEW id, NEW content
  PROVE  /\ DOMAIN Blobs!put(b, objs, id, content) = DOMAIN objs
         /\ DOMAIN Blobs!delete(b, objs, id) = DOMAIN objs
BY DEF Blobs!put, Blobs!file_put, Blobs!s3_put, Blobs!Object, Blobs!delete, Blobs!file_delete,
       Blobs!s3_delete

LEMMA BlobRecordFields ==
  \A store, digest, blob :
    LET d == BlobRecord(store, digest, blob) IN
    d.store = store /\ d.digest = digest /\ d.blob = blob
BY DEF BlobRecord

\* A blob record more.
LEMMA MoreBlobs ==
  ASSUME NEW store, NEW digest, NEW blob, dedup' \subseteq dedup \cup {BlobRecord(store, digest, blob)},
         NEW d \in dedup'
  PROVE  d \in dedup \/ (d.store = store /\ d.digest = digest /\ d.blob = blob)
<1>1. d \in dedup \/ d = BlobRecord(store, digest, blob)
  OBVIOUS
<1> QED
  BY <1>1, BlobRecordFields

\* A claim registers the own blob id of the request, or finds another.
ClaimSteps == {"tag", "layer record"}

LEMMA ClaimEffect ==
  ASSUME Typed, NEW o \in DOMAIN ops, NEW content, NEW pc \in ClaimSteps,
         pc = "tag" => ops[o].digest \in Manifests,
         \/ dedup' = dedup \cup {BlobRecord(Repo, content, o)} /\ Finds(o, pc, o)
         \/ /\ \E d \in Registered(Repo, content) : Finds(o, pc, d.blob)
            /\ UNCHANGED dedup
  PROVE  OpEffect(o) /\ \A d \in dedup' : d.blob \in BlobIds
<1>1. o \in BlobIds
  BY DEF Typed, RegistryTypeOK, BlobIds
<1>2. \A d \in dedup : d.blob \in BlobIds
  BY DEF Typed, RegistryTypeOK, UploadTypeOK
<1>3. ASSUME NEW d \in dedup' PROVE d.blob \in BlobIds
  <2>1. dedup' \subseteq dedup \cup {BlobRecord(Repo, content, o)}
    OBVIOUS
  <2>2. d \in dedup \/ d.blob = o
    BY <1>3, <2>1, MoreBlobs
  <2> QED
    BY <1>1, <1>2, <2>2
<1>4. PICK blob \in BlobIds : Finds(o, pc, blob)
  BY <1>1, <1>2 DEF Registered
<1>5. pc \in OpSteps
  BY DEF OpSteps, ClaimSteps
<1>6. OpEffect(o)
  BY <1>4, <1>5, FindsOps DEF OpEffect, ClaimSteps
<1> QED
  BY <1>3, <1>6

LEMMA Typed_put_cached_blob ==
  ASSUME Typed, NEW o \in DOMAIN ops, put_cached_blob(o)
  PROVE  Typed'
<1>1. /\ UNCHANGED <<sessions, gc, fixed>> /\ UNCHANGED manifests /\ UNCHANGED tags
      /\ risk' = risk /\ faults' = faults
  BY DEF put_cached_blob
<1>2. faults' \in 0..MaxFaults /\ risk' \subseteq Risks
  BY <1>1 DEF Typed, RegistryTypeOK, UploadTypeOK
<1>3. CASE OpAt(o, "layer claim")
  <2>1. UNCHANGED arts /\ objs' = objs
    BY <1>3 DEF put_cached_blob, OpAt
  <2>2. \/ dedup' = dedup \cup {BlobRecord(Repo, objs[o], o)} /\ Finds(o, "layer record", o)
        \/ /\ \E d \in Registered(Repo, objs[o]) : Finds(o, "layer record", d.blob)
           /\ UNCHANGED dedup
    BY <1>3 DEF put_cached_blob, OpAt, Finds
  <2>3. OpEffect(o) /\ \A d \in dedup' : d.blob \in BlobIds
    BY <2>2, ClaimEffect DEF ClaimSteps
  <2> QED
    BY <1>1, <1>2, <2>1, <2>3, TypedMost
<1>4. CASE OpAt(o, "layer record")
  <2>1. /\ SetLayer(Cache, Ask[o].digest, ops[o].blob, FALSE) /\ UNCHANGED dedup
        /\ \E what : Reply(o, what)
        /\ objs' = objs \/ objs' = Blobs!delete(backend, objs, o)
    BY <1>4 DEF put_cached_blob, OpAt
  <2>2. ops[o].blob \in BlobIds
    BY <1>4 DEF Typed, AtHand, OpAt
  <2>3. \E W : arts' \subseteq Layer(W)
    BY <2>1, <2>2, LayerSet
  <2>4. OpEffect(o) /\ DOMAIN objs' = DOMAIN objs
    BY <2>1, ReplyEffect, PutDomain
  <2> QED
    BY <1>1, <1>2, <2>1, <2>3, <2>4, TypedMost
<1> QED
  BY <1>3, <1>4 DEF put_cached_blob

\* A page of a listing, the last one or one before.
LEMMA ListPageMoves ==
  ASSUME NEW o, NEW order, ListPage(o, order)
  PROVE  \/ \E last, todo, digest : Pages(o, last, todo, digest)
         \/ \E todo, digest : Closes(o, todo, digest)
<1> DEFINE after(t) == t > ops[o].last
           filtered == SelectSeq(order, after)
           n        == IF Len(filtered) > PageSize THEN PageSize ELSE Len(filtered)
           page     == SubSeq(filtered, 1, n)
           seen     == ops[o].todo \cup {page[i] : i \in 1 .. n}
           there    == {order[i] : i \in DOMAIN order}
           stayed   == IF ops[o].digest = None THEN there ELSE ops[o].digest \cap there
<1>1. Pages(o, page[n], seen, stayed) \/ Closes(o, seen, stayed)
  BY DEF ListPage, Pages, Closes
<1> HIDE DEF seen, stayed, page, n
<1> QED
  BY <1>1

LEMMA Typed_do_list_tags ==
  ASSUME Typed, NEW o \in DOMAIN ops, do_list_tags(o)
  PROVE  Typed'
<1>1. ops[o].pc = "start" /\ UNCHANGED reads
  BY DEF do_list_tags, OpAt
<1>2. (\E last, todo, digest : Pages(o, last, todo, digest)) \/ \E todo, digest : Closes(o, todo, digest)
  BY ListPageMoves DEF do_list_tags
<1>3. OpEffect(o)
  <2>1. CASE \E last, todo, digest : Pages(o, last, todo, digest)
    BY <1>1, <2>1, PagesOps DEF OpEffect
  <2>2. CASE \E todo, digest : Closes(o, todo, digest)
    BY <2>2, ClosesOps DEF OpEffect
  <2> QED
    BY <1>2, <2>1, <2>2
<1> QED
  BY <1>1, <1>3, TypedReads

LEMMA Typed_do_put_manifest ==
  ASSUME Typed, NEW o \in DOMAIN ops, do_put_manifest(o)
  PROVE  Typed'
<1>1. /\ UNCHANGED <<sessions, gc, fixed>> /\ UNCHANGED dedup /\ UNCHANGED arts
      /\ UNCHANGED manifests /\ UNCHANGED tags /\ objs' = objs /\ faults' = faults
      /\ Kind(o) = "push"
  BY DEF do_put_manifest
<1>2. \/ (\E what : Reply(o, what)) /\ risk' = risk
      \/ Takes(o, "blob", Ask[o].digest) /\ risk' = risk \cup Unprotected(Repo, Ask[o].digest)
  BY DEF do_put_manifest, Takes
<1>3. Ask[o].digest \in Manifests
  BY <1>1, RegistryAssumption DEF Typed, RegistryTypeOK, Kind
<1>4. OpEffect(o)
  <2>1. CASE \E what : Reply(o, what)
    BY <2>1, ReplyEffect
  <2>2. CASE Takes(o, "blob", Ask[o].digest)
    <3>1. "blob" \in OpSteps
      BY DEF OpSteps
    <3> QED
      BY <1>3, <2>2, <3>1, TakesOps DEF OpEffect
  <2> QED
    BY <1>2, <2>1, <2>2
<1>5. faults' \in 0..MaxFaults /\ risk' \subseteq Risks
  BY <1>1, <1>2 DEF Typed, RegistryTypeOK, UploadTypeOK, Unprotected, Risks
<1> QED
  BY <1>1, <1>4, <1>5, TypedMost

LEMMA Typed_put_manifest ==
  ASSUME Typed, NEW o \in DOMAIN ops, put_manifest(o)
  PROVE  Typed'
<1>1. /\ UNCHANGED <<sessions, gc, fixed>> /\ UNCHANGED arts /\ risk' = risk /\ faults' = faults
  BY DEF put_manifest
<1>2. faults' \in 0..MaxFaults /\ risk' \subseteq Risks
  BY <1>1 DEF Typed, RegistryTypeOK, UploadTypeOK
<1>3. ops[o].pc \in {"blob", "claim", "tag", "manifest"} /\ ops[o].digest \in Manifests
  BY DEF Typed, AtHand, put_manifest, OpAt
<1>4. CASE OpAt(o, "blob")
  <2>1. /\ objs' = Blobs!put(backend, objs, o, <<ops[o].digest>>) /\ OpGoto(o, "claim")
        /\ UNCHANGED dedup /\ UNCHANGED manifests /\ UNCHANGED tags
    BY <1>4 DEF put_manifest, OpAt
  <2>2. OpEffect(o)
    BY <1>3, <2>1, GotoOps DEF OpEffect, OpSteps
  <2>3. DOMAIN objs' = DOMAIN objs
    BY <2>1, PutDomain
  <2> QED
    BY <1>1, <1>2, <2>1, <2>2, <2>3, TypedMost
<1>5. CASE OpAt(o, "claim")
  <2>1. /\ objs' = objs \/ objs' = Blobs!delete(backend, objs, o)
        /\ UNCHANGED manifests /\ UNCHANGED tags
    BY <1>5 DEF put_manifest, OpAt
  <2>2. \/ dedup' = dedup \cup {BlobRecord(Repo, <<ops[o].digest>>, o)} /\ Finds(o, "tag", o)
        \/ /\ \E d \in Registered(Repo, <<ops[o].digest>>) : Finds(o, "tag", d.blob)
           /\ UNCHANGED dedup
    BY <1>5 DEF put_manifest, OpAt, Finds
  <2>3. OpEffect(o) /\ \A d \in dedup' : d.blob \in BlobIds
    BY <1>3, <2>2, ClaimEffect DEF ClaimSteps
  <2>4. DOMAIN objs' = DOMAIN objs
    BY <2>1, PutDomain
  <2> QED
    BY <1>1, <1>2, <2>1, <2>3, <2>4, TypedMost
<1>6. CASE OpAt(o, "tag")
  <2>1. /\ IF Ask[o].tag = None THEN UNCHANGED tags
           ELSE SetTag(PutRepo(o), Ask[o].tag, ops[o].digest, FALSE)
        /\ OpGoto(o, "manifest") /\ UNCHANGED dedup /\ UNCHANGED manifests /\ objs' = objs
    BY <1>6 DEF put_manifest, OpAt
  <2>2. OpEffect(o)
    <3>1. "manifest" \in OpSteps /\ ops[o].blob \in BlobIds
      BY <1>6 DEF OpSteps, OpAt, Typed, AtHand
    <3> QED
      BY <1>3, <2>1, <3>1, GotoOps DEF OpEffect
  <2>3. Ask[o].tag # None => Ask[o].tag \in Tags
    BY RegistryAssumption DEF Typed, RegistryTypeOK
  <2>4. UNCHANGED tags \/ \E W : tags' \subseteq Tag(W)
    BY <1>3, <2>1, <2>3, TagSet
  <2> QED
    BY <1>1, <1>2, <2>1, <2>2, <2>4, TypedMost
<1>7. CASE OpAt(o, "manifest")
  <2>1. /\ SetManifest(PutRepo(o), ops[o].digest, ops[o].blob, FALSE)
        /\ \E what : Reply(o, what)
        /\ UNCHANGED dedup /\ UNCHANGED tags /\ objs' = objs
    BY <1>7 DEF put_manifest, OpAt
  <2>2. ops[o].blob \in BlobIds
    BY <1>7 DEF Typed, AtHand, OpAt
  <2>3. \E W : manifests' \subseteq Manifest(W)
    BY <1>3, <2>1, <2>2, ManifestSet
  <2>4. OpEffect(o)
    BY <2>1, ReplyEffect
  <2> QED
    BY <1>1, <1>2, <2>1, <2>3, <2>4, TypedMost
<1> QED
  BY <1>4, <1>5, <1>6, <1>7 DEF put_manifest

LEMMA Typed_do_delete_manifest ==
  ASSUME Typed, NEW o \in DOMAIN ops, do_delete_manifest(o)
  PROVE  Typed'
<1>1. /\ UNCHANGED <<sessions, gc, fixed>> /\ UNCHANGED dedup /\ UNCHANGED arts
      /\ UNCHANGED tags /\ objs' = objs /\ faults' = faults
      /\ (\E what : Reply(o, what)) /\ manifests' \subseteq manifests
      /\ risk' \subseteq risk \cup {"deleted"}
  BY DEF do_delete_manifest
<1>2. \E W : manifests' \subseteq Manifest(W)
  BY <1>1 DEF Typed, RecordsIn
<1>3. OpEffect(o)
  BY <1>1, ReplyEffect
<1>4. faults' \in 0..MaxFaults /\ risk' \subseteq Risks
  BY <1>1 DEF Typed, RegistryTypeOK, UploadTypeOK, Risks
<1> QED
  BY <1>1, <1>2, <1>3, <1>4, TypedMost

LEMMA Typed_delete_tag ==
  ASSUME Typed, NEW o \in DOMAIN ops, delete_tag(o)
  PROVE  Typed'
<1>1. /\ UNCHANGED <<sessions, gc, fixed>> /\ UNCHANGED dedup /\ UNCHANGED arts
      /\ UNCHANGED manifests /\ objs' = objs /\ faults' = faults /\ risk' = risk
      /\ (\E what : Reply(o, what)) /\ tags' \subseteq tags
  BY DEF delete_tag, upload, sessions
<1>2. \E W : tags' \subseteq Tag(W)
  BY <1>1 DEF Typed, RecordsIn
<1>3. OpEffect(o)
  BY <1>1, ReplyEffect
<1>4. faults' \in 0..MaxFaults /\ risk' \subseteq Risks
  BY <1>1 DEF Typed, RegistryTypeOK, UploadTypeOK
<1> QED
  BY <1>1, <1>2, <1>3, <1>4, TypedMost

\* The record that is copied.
LEMMA RecordKinds ==
  ASSUME Typed
  PROVE  /\ \A a \in arts : a.blob \in BlobIds /\ a.old \in BOOLEAN
         /\ \A m \in manifests : m.digest \in Manifests /\ m.blob \in BlobIds /\ m.old \in BOOLEAN
         /\ \A t \in tags : t.tag \in Tags /\ t.digest \in Manifests /\ t.old \in BOOLEAN
         /\ \A d \in dedup : d.blob \in BlobIds
         /\ DOMAIN objs \subseteq BlobIds
BY DEF Typed, RegistryTypeOK, UploadTypeOK

LEMMA Typed_mount_blob ==
  ASSUME Typed, NEW o \in DOMAIN ops, mount_blob(o)
  PROVE  Typed'
<1>1. /\ UNCHANGED <<sessions, gc, fixed>> /\ UNCHANGED tags
      /\ UNCHANGED manifests /\ objs' = objs /\ faults' = faults
      /\ (\E what : Reply(o, what))
  BY DEF mount_blob
<1>2. \/ UNCHANGED <<arts, dedup, risk>>
      \/ \E a \in arts :
           /\ SetLayer(Dest, a.digest, a.blob, FALSE)
           /\ dedup' \subseteq dedup \cup {BlobRecord(DestStore, a.digest, a.blob)}
           /\ risk' \subseteq risk \cup {"foreign"}
  BY DEF mount_blob, LayerOf
<1>3. UNCHANGED arts \/ \E W : arts' \subseteq Layer(W)
  BY <1>2, RecordKinds, LayerSet
<1>4. \A d \in dedup' : d.blob \in BlobIds
  <2>1. CASE UNCHANGED dedup
    BY <2>1, RecordKinds
  <2>2. CASE \E a \in arts : dedup' \subseteq dedup \cup {BlobRecord(DestStore, a.digest, a.blob)}
    BY <2>2, RecordKinds, MoreBlobs
  <2> QED
    BY <1>2, <2>1, <2>2
<1>5. OpEffect(o)
  BY <1>1, ReplyEffect
<1>6. faults' \in 0..MaxFaults /\ risk' \subseteq Risks
  BY <1>1, <1>2 DEF Typed, RegistryTypeOK, UploadTypeOK, Risks
<1> QED
  BY <1>1, <1>3, <1>4, <1>5, <1>6, TypedMost

LEMMA Typed_copy_tag ==
  ASSUME Typed, NEW o \in DOMAIN ops, copy_tag(o)
  PROVE  Typed'
<1>1. UNCHANGED reads
  BY DEF copy_tag
<1>2. \/ \E what : Reply(o, what)
      \/ \E digest, todo : Walks(o, digest, todo)
  BY DEF copy_tag, Walks
<1>3. OpEffect(o)
  BY <1>2, ReplyEffect, WalksOps DEF OpEffect
<1> QED
  BY <1>1, <1>3, TypedReads

\* What rehome_blob does to the store.
LEMMA RehomeEffect ==
  ASSUME Typed, NEW content, NEW id \in DOMAIN objs, NEW blob, rehome_blob(content, id, blob)
  PROVE  DOMAIN objs' = DOMAIN objs /\ \A d \in dedup' : d.blob \in BlobIds
<1>1. \/ UNCHANGED <<objs, dedup>>
      \/ /\ objs' = Blobs!put(backend, objs, id, content)
         /\ dedup' = dedup \cup {BlobRecord(Dest, content, id)}
  BY DEF rehome_blob
<1>2. CASE UNCHANGED <<objs, dedup>>
  BY <1>2, RecordKinds
<1>3. CASE /\ objs' = Blobs!put(backend, objs, id, content)
           /\ dedup' = dedup \cup {BlobRecord(Dest, content, id)}
  <2>1. ASSUME NEW d \in dedup' PROVE d.blob \in BlobIds
    <3>1. d \in dedup \/ d.blob = id
      BY <1>3, <2>1, MoreBlobs
    <3> QED
      BY <3>1, RecordKinds
  <2> QED
    BY <1>3, <2>1, PutDomain
<1> QED
  BY <1>1, <1>2, <1>3

LEMMA CopyRisks ==
  ASSUME Typed, NEW rec, NEW there, CopyRisk(rec, there)
  PROVE  risk' \subseteq Risks
BY DEF Typed, RegistryTypeOK, CopyRisk, Risks

LEMMA Typed_copy_layer ==
  ASSUME Typed, NEW o \in DOMAIN ops, copy_layer(o)
  PROVE  Typed'
<1>1. /\ UNCHANGED <<sessions, gc, fixed>> /\ UNCHANGED manifests /\ UNCHANGED tags
      /\ faults' = faults
  BY DEF copy_layer
<1>2. faults' \in 0..MaxFaults /\ risk \subseteq Risks
  BY <1>1 DEF Typed, RegistryTypeOK, UploadTypeOK
<1> DEFINE l == CHOOSE x \in ops[o].todo : TRUE
<1>3. \/ Leaves(o, "manifests", ops[o].digest) /\ UNCHANGED <<objs, dedup, arts, risk>>
      \/ /\ Lacks(o, ops[o].todo \ {l}) /\ UNCHANGED <<objs, dedup, arts>>
         /\ risk' = risk \cup {"elsewhere"}
      \/ Reply(o, "error") /\ UNCHANGED <<objs, dedup, arts, risk>>
      \/ \E a \in LayerOf(Repo, l) : \E id \in DOMAIN objs :
           /\ rehome_blob(objs[a.blob], id, a.blob)
           /\ SetLayer(Dest, l, id, a.old) /\ CopyRisk(a, LayerOf(Dest, l))
           /\ Lacks(o, ops[o].todo \ {l})
  BY DEF copy_layer, Leaves, Lacks
<1>4. ops[o].pc = "layers"
  BY DEF copy_layer, OpAt
<1> HIDE DEF l
<1>5. OpEffect(o)
  BY <1>3, <1>4, ReplyEffect, LeavesOps, LacksOps DEF OpEffect, OpSteps
<1>6. CASE UNCHANGED <<objs, dedup, arts>> /\ risk' \subseteq risk \cup {"elsewhere"}
  <2>1. risk' \subseteq Risks
    BY <1>2, <1>6 DEF Risks
  <2> QED
    BY <1>1, <1>2, <1>5, <1>6, <2>1, TypedMost
<1>7. ASSUME NEW a \in LayerOf(Repo, l), NEW id \in DOMAIN objs,
             rehome_blob(objs[a.blob], id, a.blob), SetLayer(Dest, l, id, a.old),
             CopyRisk(a, LayerOf(Dest, l))
      PROVE  Typed'
  <2>1. DOMAIN objs' = DOMAIN objs /\ \A d \in dedup' : d.blob \in BlobIds
    BY <1>7, RehomeEffect
  <2>2. \E W : arts' \subseteq Layer(W)
    BY <1>7, RecordKinds, LayerSet DEF LayerOf
  <2>3. risk' \subseteq Risks
    BY <1>7, CopyRisks
  <2> QED
    BY <1>1, <1>2, <1>5, <2>1, <2>2, <2>3, TypedMost
<1> QED
  BY <1>3, <1>6, <1>7

LEMMA Typed_copy_manifest ==
  ASSUME Typed, NEW o \in DOMAIN ops, copy_manifest(o)
  PROVE  Typed'
<1>1. /\ UNCHANGED <<sessions, gc, fixed>> /\ UNCHANGED arts /\ UNCHANGED tags
      /\ faults' = faults
  BY DEF copy_manifest
<1>2. faults' \in 0..MaxFaults /\ risk \subseteq Risks
  BY <1>1 DEF Typed, RegistryTypeOK, UploadTypeOK
<1> DEFINE l == CHOOSE x \in ops[o].todo : TRUE
<1>3. \/ OpGoto(o, "copy tag") /\ UNCHANGED <<objs, dedup, manifests, risk>>
      \/ /\ Lacks(o, ops[o].todo \ {l}) /\ UNCHANGED <<objs, dedup, manifests>>
         /\ risk' = risk \cup {"elsewhere"}
      \/ Reply(o, "error") /\ UNCHANGED <<objs, dedup, manifests, risk>>
      \/ \E r \in ManifestOf(Repo, l) : \E id \in DOMAIN objs :
           /\ rehome_blob(objs[r.blob], id, r.blob)
           /\ SetManifest(Dest, l, id, r.old) /\ CopyRisk(r, ManifestOf(Dest, l))
           /\ Lacks(o, ops[o].todo \ {l})
  BY DEF copy_manifest, Lacks
<1>4. ops[o].pc = "manifests"
  BY DEF copy_manifest, OpAt
<1> HIDE DEF l
<1>5. OpEffect(o)
  BY <1>3, <1>4, ReplyEffect, GotoOps, LacksOps DEF OpEffect, OpSteps
<1>6. CASE UNCHANGED <<objs, dedup, manifests>> /\ risk' \subseteq risk \cup {"elsewhere"}
  <2>1. risk' \subseteq Risks
    BY <1>2, <1>6 DEF Risks
  <2> QED
    BY <1>1, <1>2, <1>5, <1>6, <2>1, TypedMost
<1>7. ASSUME NEW r \in ManifestOf(Repo, l), NEW id \in DOMAIN objs,
             rehome_blob(objs[r.blob], id, r.blob), SetManifest(Dest, l, id, r.old),
             CopyRisk(r, ManifestOf(Dest, l))
      PROVE  Typed'
  <2>1. DOMAIN objs' = DOMAIN objs /\ \A d \in dedup' : d.blob \in BlobIds
    BY <1>7, RehomeEffect
  <2>2. l \in Manifests /\ id \in BlobIds /\ r.old \in BOOLEAN
    BY RecordKinds DEF ManifestOf
  <2>3. \E W : manifests' \subseteq Manifest(W)
    BY <1>7, <2>2, ManifestSet
  <2>4. risk' \subseteq Risks
    BY <1>7, CopyRisks
  <2> QED
    BY <1>1, <1>2, <1>5, <2>1, <2>3, <2>4, TypedMost
<1> QED
  BY <1>3, <1>6, <1>7

LEMMA Typed_copy_last ==
  ASSUME Typed, NEW o \in DOMAIN ops, copy_last(o)
  PROVE  Typed'
<1>1. /\ UNCHANGED <<sessions, gc, fixed>> /\ UNCHANGED dedup /\ UNCHANGED arts
      /\ UNCHANGED manifests /\ objs' = objs /\ faults' = faults
      /\ risk' \subseteq risk \cup {"retagged"}
  BY DEF copy_last, Retagged
<1>2. faults' \in 0..MaxFaults /\ risk' \subseteq Risks
  BY <1>1 DEF Typed, RegistryTypeOK, UploadTypeOK, Risks
<1>3. (\E now : Takes(o, "drop tag", now)) \/ \E what : Reply(o, what)
  BY DEF copy_last, Takes
<1>4. OpEffect(o)
  BY <1>3, ReplyEffect, TakesOps DEF OpEffect, OpSteps
<1>5. \/ tags' \subseteq tags
      \/ \E t \in tags : SetTag(Dest, t.tag, t.digest, t.old)
  BY DEF copy_last, TagOf
<1>6. \E W : tags' \subseteq Tag(W)
  <2>1. CASE tags' \subseteq tags
    BY <2>1 DEF Typed, RecordsIn
  <2>2. CASE \E t \in tags : SetTag(Dest, t.tag, t.digest, t.old)
    BY <2>2, RecordKinds, TagSet
  <2> QED
    BY <1>5, <2>1, <2>2
<1> QED
  BY <1>1, <1>2, <1>4, <1>6, TypedMost

-----------------------------------------------------------------------------

\* What a step of the collector, and the passing of time, have to show.
LEMMA TypedOutside ==
  ASSUME Typed, UNCHANGED <<backend, objs, session, dedup, req, clean, acked, ops>>,
         UNCHANGED <<untagged, collect, foreign>>, upstream' \in Images,
         faults' \in 0..MaxFaults, risk' \subseteq Risks,
         \E W : arts' \subseteq Layer(W), \E W : manifests' \subseteq Manifest(W),
         \E W : tags' \subseteq Tag(W), \E W : gc' \in Collector(W)
  PROVE  Typed'
<1>1. PICK U, V, X : arts' \subseteq Layer(U) /\ manifests' \subseteq Manifest(V) /\ tags' \subseteq Tag(X)
  OBVIOUS
<1>2. PICK W : W = U \cup V \cup X
  OBVIOUS
<1>3. RecordsIn(W)'
  BY <1>1, <1>2 DEF Layer, Manifest, Tag, RecordsIn
<1>4. \A a \in arts' : a.blob \in BlobIds /\ a.old \in BOOLEAN
  BY <1>1 DEF Layer
<1>5. UploadTypeOK'
  BY <1>4 DEF UploadTypeOK, Typed, RegistryTypeOK
<1>6. /\ \A m \in manifests' : m.digest \in Manifests /\ m.blob \in BlobIds /\ m.old \in BOOLEAN
      /\ \A t \in tags' : t.tag \in Tags /\ t.digest \in Manifests /\ t.old \in BOOLEAN
  BY <1>1 DEF Manifest, Tag
<1>7. gc'.pc \in {"idle", "scan", "sweep", "untagged"}
  BY DEF Collector
<1>8. RegistryTypeOK'
  BY <1>5, <1>6, <1>7 DEF RegistryTypeOK, Typed
<1>9. AtHand'
  BY DEF AtHand, Typed
<1>10. (\E Y : RequestsIn(Y)') /\ (\E Y : OpsIn(Y)')
  BY DEF Typed, RequestsIn, OpsIn
<1> QED
  BY <1>3, <1>8, <1>9, <1>10 DEF Typed

LEMMA TypedCollects ==
  ASSUME Typed, UNCHANGED frame, arts' \subseteq arts, manifests' \subseteq manifests,
         UNCHANGED faults \/ Fails, risk' \subseteq risk \cup {"unread"},
         \E W : gc' \in Collector(W)
  PROVE  Typed'
<1>1. /\ UNCHANGED <<backend, objs, session, dedup, req, clean, acked, ops>>
      /\ UNCHANGED <<untagged, collect, foreign>> /\ upstream' = upstream /\ tags' = tags
  BY DEF frame, fixed
<1>2. faults' \in 0..MaxFaults
  BY FaultsCounted
<1>3. risk' \subseteq Risks /\ upstream' \in Images
  BY <1>1 DEF Typed, RegistryTypeOK, Risks
<1>4. (\E W : arts' \subseteq Layer(W)) /\ (\E W : manifests' \subseteq Manifest(W))
      /\ \E W : tags' \subseteq Tag(W)
  BY <1>1 DEF Typed, RecordsIn
<1> QED
  BY <1>1, <1>2, <1>3, <1>4, TypedOutside

LEMMA GcIdleTyped ==
  ASSUME NEW turn
  PROVE  \E W : GcIdle(turn) \in Collector(W)
<1>1. PICK W : W = {turn, {}}
  OBVIOUS
<1>2. GcIdle(turn) \in Collector(W)
  BY <1>1 DEF GcIdle, Collector
<1> QED
  BY <1>2

Scans(pc, todo, a, m, t) ==
    gc' = [gc EXCEPT !.todo = todo, !.pc = pc, !.arts = a, !.manifests = m, !.tags = t]

LEMMA ScansTyped ==
  ASSUME Typed, NEW pc \in {"idle", "scan", "sweep", "untagged"},
         NEW todo, NEW a, NEW m, NEW t, Scans(pc, todo, a, m, t)
  PROVE  \E W : gc' \in Collector(W)
<1>1. PICK V : gc \in Collector(V)
  BY DEF Typed
<1>2. PICK W : W = V \cup {todo, a, m, t}
  OBVIOUS
<1>3. gc \in Collector(W)
  BY <1>1, <1>2 DEF Collector
<1>4. gc' \in Collector(W)
  BY <1>2, <1>3 DEF Collector, Scans
<1> QED
  BY <1>4

LEMMA Typed_GcStep ==
  ASSUME Typed, GcStep
  PROVE  Typed'
<1>1. CASE gc_start
  <2>1. PICK V : gc \in Collector(V)
    BY DEF Typed
  <2>2. PICK W : W = V \cup {{"blobs", "manifests", "tags"}}
    OBVIOUS
  <2>3. gc \in Collector(W)
    BY <2>1, <2>2 DEF Collector
  <2>4. gc' \in Collector(W)
    BY <1>1, <2>2, <2>3 DEF Collector, gc_start
  <2> QED
    BY <1>1, <2>4, TypedCollects DEF gc_start
<1>2. ASSUME NEW kind \in {"blobs", "manifests", "tags"}, gc_scan(kind) PROVE Typed'
  <2>1. PICK a : a = IF kind = "blobs" THEN {x \in arts : x.repo = GcRepo} ELSE gc.arts
    OBVIOUS
  <2>2. PICK m : m = IF kind = "manifests" THEN {x \in manifests : x.repo = GcRepo} ELSE gc.manifests
    OBVIOUS
  <2>3. PICK t : t = IF kind = "tags" THEN {x \in tags : x.repo = GcRepo} ELSE gc.tags
    OBVIOUS
  <2>4. PICK pc \in {"scan", "sweep"} : pc = IF gc.todo = {kind} THEN "sweep" ELSE "scan"
    OBVIOUS
  <2>5. Scans(pc, gc.todo \ {kind}, a, m, t)
    BY <1>2, <2>1, <2>2, <2>3, <2>4 DEF gc_scan, Scans
  <2>6. \E W : gc' \in Collector(W)
    BY <2>5, ScansTyped
  <2> QED
    BY <1>2, <2>6, TypedCollects DEF gc_scan
<1>3. CASE gc_sweep
  <2>1. arts' \subseteq arts /\ UNCHANGED manifests /\ UNCHANGED frame
    BY <1>3 DEF gc_sweep
  <2>2. (UNCHANGED faults \/ Fails) /\ risk' \subseteq risk \cup {"unread"}
    BY <1>3 DEF gc_sweep, Unread
  <2>3. \E W : gc' \in Collector(W)
    <3>1. CASE gc' = [gc EXCEPT !.pc = "untagged", !.arts = {}]
      <4>1. PICK V : gc \in Collector(V)
        BY DEF Typed
      <4>2. PICK W : W = V \cup {{}}
        OBVIOUS
      <4>3. gc \in Collector(W)
        BY <4>1, <4>2 DEF Collector
      <4>4. gc' \in Collector(W)
        BY <3>1, <4>2, <4>3 DEF Collector
      <4> QED
        BY <4>4
    <3>2. CASE GcDone
      BY <3>2, GcIdleTyped DEF GcDone
    <3> QED
      BY <1>3, <3>1, <3>2 DEF gc_sweep
  <2> QED
    BY <2>1, <2>2, <2>3, TypedCollects
<1>4. CASE gc_untagged
  <2>1. manifests' \subseteq manifests /\ UNCHANGED arts /\ UNCHANGED frame /\ GcDone
    BY <1>4 DEF gc_untagged
  <2>2. (UNCHANGED faults \/ Fails) /\ risk' \subseteq risk \cup {"unread"}
    BY <1>4 DEF gc_untagged, Unread
  <2>3. \E W : gc' \in Collector(W)
    BY <2>1, GcIdleTyped DEF GcDone
  <2> QED
    BY <2>1, <2>2, <2>3, TypedCollects
<1> QED
  BY <1>1, <1>2, <1>3, <1>4 DEF GcStep

LEMMA Typed_upstream_moves ==
  ASSUME Typed, upstream_moves
  PROVE  Typed'
<1>1. /\ UNCHANGED <<backend, objs, session, dedup, req, clean, acked, ops>>
      /\ UNCHANGED <<untagged, collect, foreign>> /\ upstream' \in Images
      /\ faults' = faults /\ risk' = risk /\ arts' = arts /\ manifests' = manifests /\ tags' = tags
      /\ gc' = gc
  BY DEF upstream_moves, upload
<1>2. faults' \in 0..MaxFaults /\ risk' \subseteq Risks
  BY <1>1 DEF Typed, RegistryTypeOK, UploadTypeOK
<1>3. (\E W : arts' \subseteq Layer(W)) /\ (\E W : manifests' \subseteq Manifest(W))
      /\ (\E W : tags' \subseteq Tag(W)) /\ \E W : gc' \in Collector(W)
  BY <1>1 DEF Typed, RecordsIn
<1> QED
  BY <1>1, <1>2, <1>3, TypedOutside

\* A record in the collection's next pass.
Aged(r, repo) == IF r.repo = repo THEN [r EXCEPT !.old = TRUE] ELSE r

LEMMA AgedTyped ==
  ASSUME NEW W, NEW repo
  PROVE  /\ \A a \in Layer(W) : Aged(a, repo) \in Layer(W)
         /\ \A m \in Manifest(W) : Aged(m, repo) \in Manifest(W)
         /\ \A t \in Tag(W) : Aged(t, repo) \in Tag(W)
<1>1. \A a \in Layer(W) : Aged(a, repo) \in Layer(W)
  BY DEF Aged, Layer
<1>2. \A m \in Manifest(W) : Aged(m, repo) \in Manifest(W)
  BY DEF Aged, Manifest
<1>3. \A t \in Tag(W) : Aged(t, repo) \in Tag(W)
  BY DEF Aged, Tag
<1> QED
  BY <1>1, <1>2, <1>3

LEMMA Typed_RecordsAge ==
  ASSUME Typed, NEW repo, RecordsAge(repo)
  PROVE  Typed'
<1>1. /\ UNCHANGED <<backend, objs, session, dedup, req, clean, acked, ops>>
      /\ UNCHANGED <<untagged, collect, foreign>> /\ upstream' = upstream
      /\ faults' = faults /\ gc' = gc /\ risk' \subseteq risk \cup {"slow"}
  BY DEF RecordsAge, fixed
<1>2. /\ arts' = {Aged(a, repo) : a \in arts} /\ manifests' = {Aged(m, repo) : m \in manifests}
      /\ tags' = {Aged(t, repo) : t \in tags}
  BY DEF RecordsAge, Aged
<1>3. PICK W : RecordsIn(W)
  BY DEF Typed
<1>4. arts' \subseteq Layer(W) /\ manifests' \subseteq Manifest(W) /\ tags' \subseteq Tag(W)
  BY <1>2, <1>3, AgedTyped DEF RecordsIn
<1>5. faults' \in 0..MaxFaults /\ risk' \subseteq Risks /\ upstream' \in Images
  BY <1>1 DEF Typed, RegistryTypeOK, UploadTypeOK, Risks
<1>6. \E V : gc' \in Collector(V)
  BY <1>1 DEF Typed
<1> QED
  BY <1>1, <1>4, <1>5, <1>6, TypedOutside

LEMMA Typed_Registry ==
  ASSUME Typed, NEW o \in DOMAIN ops, PullStep(o) \/ PushStep(o) \/ CopyStep(o)
  PROVE  Typed'
<1>1. CASE PullStep(o)
  <2>1. \/ Serves(o) \/ cache_get_manifest(o) \/ cache_head_manifest(o)
        \/ cache_get_blob(o) \/ cache_head_blob(o) \/ put_cached_blob(o) \/ do_list_tags(o)
    BY <1>1, HostedServes DEF PullStep
  <2> QED
    BY <2>1, Typed_Serves, Typed_cache_manifest, Typed_cache_blob, Typed_put_cached_blob,
       Typed_do_list_tags
<1>2. CASE PushStep(o)
  BY <1>2, Typed_do_put_manifest, Typed_put_manifest, Typed_do_delete_manifest, Typed_mount_blob,
     Typed_delete_tag DEF PushStep
<1>3. CASE CopyStep(o)
  BY <1>3, Typed_copy_tag, Typed_copy_layer, Typed_copy_manifest, Typed_copy_last DEF CopyStep
<1> QED
  BY <1>1, <1>2, <1>3

LEMMA Typed_Upload ==
  ASSUME Typed, UploadNext, UNCHANGED registry
  PROVE  Typed'
<1>1. ASSUME NEW r \in DOMAIN req, check_docker_permission(r) \/ give_up(r) PROVE Typed'
  BY <1>1, Typed_check_docker_permission, Typed_give_up
<1>2. CASE start_session
  BY <1>2, Typed_start_session
<1>3. ASSUME NEW p \in Patches \cap DOMAIN req, PatchStep(p) PROVE Typed'
  BY <1>3, Typed_patch_read, Typed_patch_write, Typed_put_upload_session_if_version,
     Typed_patch_reread DEF PatchStep
<1>4. ASSUME NEW q \in Finals \cap DOMAIN req, CompleteStep(q) PROVE Typed'
  BY <1>4, Typed_complete_read, Typed_complete_body, Typed_complete_create, Typed_complete_assemble,
     Typed_complete_verify, Typed_complete_claim, Typed_complete_record,
     Typed_delete_upload_session, Typed_complete_drop, Typed_complete_chunks DEF CompleteStep
<1>5. ASSUME NEW m \in Monos \cap DOMAIN req, MonoStep(m) PROVE Typed'
  BY <1>5, Typed_mono_write, Typed_mono_abort, Typed_mono_claim, Typed_mono_record,
     Typed_mono_drop DEF MonoStep
<1>6. CASE Age \/ CleanStep
  BY <1>6, Typed_Age, Typed_list_upload_sessions, Typed_cleanup_delete, Typed_cleanup_session
     DEF CleanStep
<1> QED
  BY <1>1, <1>2, <1>3, <1>4, <1>5, <1>6 DEF UploadNext

LEMMA TypedStep ==
  ASSUME Typed, [Next]_all
  PROVE  Typed'
<1>1. CASE Next
  BY <1>1, Typed_Upload, Typed_Registry, Typed_GcStep, Typed_upstream_moves, Typed_RecordsAge
     DEF Next
<1>2. CASE UNCHANGED all
  BY <1>2 DEF all, upload, registry, fixed, Typed, RegistryTypeOK, UploadTypeOK, AtHand,
              RequestsIn, OpsIn, RecordsIn
<1> QED
  BY <1>1, <1>2

LEMMA TypedInit ==
  ASSUME Init
  PROVE  Typed
<1>1. PICK load \in Workloads :
         /\ UploadInit(load.backend, load.uploads, load.ops \cup (IF load.foreign THEN OtherIds ELSE {}))
         /\ RegistryInit(load)
  BY DEF Init
<1>2. /\ load.backend \in Blobs!Backends /\ load.uploads \subseteq Uploads /\ load.ops \subseteq Ops
      /\ load.untagged \in BOOLEAN /\ load.foreign \in BOOLEAN
  BY RegistryAssumption
<1>3. /\ backend = load.backend
      /\ DOMAIN objs = load.uploads \cup {Target} \cup load.ops \cup (IF load.foreign THEN OtherIds ELSE {})
      /\ session = None /\ dedup = {} /\ arts = {}
      /\ req = [r \in load.uploads |-> NewRequest("start")]
      /\ clean = [pc |-> "idle", got |-> None] /\ risk = {} /\ faults = 0
  BY <1>1 DEF UploadInit
<1>4. /\ manifests = {} /\ tags = {} /\ gc = GcIdle(1) /\ ops = [o \in load.ops |-> NewOp("start")]
      /\ untagged = load.untagged /\ foreign = load.foreign /\ upstream \in Images
  BY <1>1, RegistryAssumption DEF RegistryInit
<1>5. PICK W : W = {<<>>, {}, 1, None, 0}
  OBVIOUS
<1>6. /\ NewRequest("start") \in Request(W) /\ NewRequest("start").pc = "start"
  BY <1>5, NewTyped DEF Steps
<1>7. NewOp("start") \in Operation(W) /\ NewOp("start").pc = "start"
  BY <1>5 DEF NewOp, Operation, OpSteps
<1>8. DOMAIN objs \subseteq BlobIds /\ DOMAIN req \cup DOMAIN ops \cup {Target} \subseteq DOMAIN objs
  BY <1>2, <1>3, <1>4 DEF BlobIds
<1>9. UploadTypeOK
  BY <1>2, <1>3, <1>6, <1>8, UploadAssumption DEF UploadTypeOK, Steps
<1>10. gc.pc = "idle"
  BY <1>4 DEF GcIdle
<1>11. RegistryTypeOK
  BY <1>2, <1>3, <1>4, <1>7, <1>9, <1>10 DEF RegistryTypeOK, OpSteps
<1>12. AtHand
  <2>1. clean \in Cleaner /\ (clean.pc = "idle" <=> clean.got = None)
    BY <1>3 DEF Cleaner
  <2> QED
    BY <1>3, <1>4, <1>6, <1>7, <1>8, <2>1 DEF AtHand
<1>13. RequestsIn(W) /\ OpsIn(W) /\ RecordsIn(W)
  BY <1>3, <1>4, <1>6, <1>7 DEF RequestsIn, OpsIn, RecordsIn
<1>14. \E V : gc \in Collector(V)
  BY <1>4, GcIdleTyped
<1> QED
  BY <1>11, <1>12, <1>13, <1>14 DEF Typed

\* The records, requests and workers of the registry have their types, whatever
\* requests are sent and however their steps interleave.
THEOREM RegistryTypeCorrect == Spec => []RegistryTypeOK
<1>1. Init => Typed
  BY TypedInit
<1>2. Typed /\ [Next]_all => Typed'
  BY TypedStep
<1>3. Typed => RegistryTypeOK
  BY DEF Typed
<1> QED
  BY <1>1, <1>2, <1>3, PTL DEF Spec

-----------------------------------------------------------------------------
(* The session.                                                            *)

\* Steps that accept nothing: the session stays, gets older, or goes.
SessionStays ==
    /\ acked' = acked
    /\ \/ session' = session \/ session' = None
       \/ session # None /\ session'.ver = session.ver /\ session'.chunks = session.chunks
    /\ clean'.got = None \/ clean'.got = clean.got \/ session # None

LEMMA SessionQuiet ==
  ASSUME Typed, SessionInv, NEW r \in DOMAIN req, Effect(r), SessionStays
  PROVE  SessionInv'
<1>1. Opened'
  <2> SUFFICES ASSUME At(Post, "start")'
               PROVE  /\ session' = None /\ clean'.got = None
                      /\ \A s \in DOMAIN req' \cap (Patches \cup Finals) : req'[s].pc \in {"start", "done"}
    BY DEF Opened
  <2>1. At(Post, "start") /\ r # Post
    BY DEF At, Effect
  <2>2. session = None /\ clean.got = None
        /\ \A s \in DOMAIN req \cap (Patches \cup Finals) : req[s].pc \in {"start", "done"}
    BY <2>1 DEF SessionInv, Opened
  <2>3. session' = None /\ clean'.got = None
    BY <2>2 DEF SessionStays
  <2>4. ASSUME NEW s \in DOMAIN req' \cap (Patches \cup Finals)
        PROVE  req'[s].pc \in {"start", "done"}
    <3>1. CASE s = r
      BY <2>2, <2>4, <3>1 DEF Effect
    <3>2. CASE s # r
      BY <2>2, <2>4, <3>2 DEF Effect
    <3> QED
      BY <3>1, <3>2
  <2> QED
    BY <2>3, <2>4
<1>2. VersionsFit'
  <2> SUFFICES ASSUME session' # None, NEW p \in DOMAIN req' \cap Patches,
                      req'[p].pc \notin {"start", "done"}
               PROVE  /\ req'[p].snap.ver <= session'.ver
                      /\ req'[p].snap.ver = session'.ver => req'[p].snap.chunks = session'.chunks
    BY DEF VersionsFit
  <2>1. session # None /\ session'.ver = session.ver /\ session'.chunks = session.chunks
    BY DEF SessionStays
  <2>2. session.ver \in Nat
    BY <2>1 DEF Typed, RegistryTypeOK, UploadTypeOK, Session
  <2>3. \/ req'[p].snap = session
        \/ req'[p].snap = req[p].snap /\ req[p].pc \notin {"start", "done"}
    BY DEF Effect
  <2>4. CASE req'[p].snap = session
    BY <2>1, <2>2, <2>4
  <2>5. CASE req'[p].snap = req[p].snap /\ req[p].pc \notin {"start", "done"}
    BY <2>1, <2>5 DEF SessionInv, VersionsFit, Effect
  <2> QED
    BY <2>3, <2>4, <2>5
<1>3. AcceptedKept'
  BY DEF AcceptedKept, SessionInv, SessionStays
<1> QED
  BY <1>1, <1>2, <1>3 DEF SessionInv

\* Steps that leave the requests' places alone.
LEMMA SessionIdle ==
  ASSUME Typed, SessionInv, SessionStays, DOMAIN req' = DOMAIN req,
         \A s \in DOMAIN req : req'[s].pc = req[s].pc /\ req'[s].snap = req[s].snap
  PROVE  SessionInv'
<1>1. Opened'
  BY DEF Opened, SessionInv, SessionStays, At
<1>2. VersionsFit'
  BY DEF VersionsFit, SessionInv, SessionStays
<1>3. AcceptedKept'
  BY DEF AcceptedKept, SessionInv, SessionStays
<1> QED
  BY <1>1, <1>2, <1>3 DEF SessionInv

LEMMA Session_start_session ==
  ASSUME Typed, SessionInv, start_session
  PROVE  SessionInv'
<1>1. At(Post, "start") /\ Post \in DOMAIN req /\ Effect(Post)
  BY Moves_start_session DEF start_session, At
<1>2. \A s \in DOMAIN req \cap (Patches \cup Finals) : req[s].pc \in {"start", "done"}
  BY <1>1 DEF SessionInv, Opened
<1>3. PICK body \in BOOLEAN :
        /\ session' = [chunks |-> IF body THEN <<Post>> ELSE <<>>, ver |-> 1, fresh |-> TRUE]
        /\ acked' = IF body THEN <<Post>> ELSE <<>>
  BY DEF start_session
<1>4. Opened'
  BY <1>1 DEF Opened, At, Effect
<1>5. VersionsFit'
  <2>1. \A p \in DOMAIN req \cap Patches : req'[p].pc \in {"start", "done"}
    BY <1>1, <1>2, UploadAssumption DEF Effect
  <2> QED
    BY <1>1, <2>1 DEF VersionsFit, Effect
<1>6. AcceptedKept'
  <2>1. session'.chunks = (IF body THEN <<Post>> ELSE <<>>) /\ Piece(Post) = Post
    BY <1>3, UploadAssumption DEF Piece
  <2> QED
    BY <1>3, <2>1 DEF AcceptedKept
<1> QED
  BY <1>4, <1>5, <1>6 DEF SessionInv

\* The compare-and-swap: the chunks of the session as it was read are those of
\* the session as it is.
LEMMA Session_put ==
  ASSUME Typed, SessionInv, NEW p \in Patches \cap DOMAIN req, put_upload_session_if_version(p)
  PROVE  SessionInv'
<1>1. Effect(p) /\ At(p, "cas") /\ clean' = clean
  BY Moves_put_upload_session_if_version DEF put_upload_session_if_version
<1>2. CASE UNCHANGED <<session, acked>>
  BY <1>1, <1>2, SessionQuiet DEF SessionStays
<1>3. CASE /\ session # None /\ session.ver = req[p].snap.ver /\ Answer(p, "accepted")
           /\ session' = [chunks |-> Append(req[p].snap.chunks, p), ver |-> req[p].snap.ver + 1, fresh |-> TRUE]
           /\ acked' = Append(acked, Piece(p))
  <2>1. req[p].snap \in Session /\ req[p].pc = "cas" /\ session \in Session
    BY <1>1, <1>3 DEF Typed, AtHand, At, RegistryTypeOK, UploadTypeOK
  <2>2. req[p].snap.chunks = session.chunks /\ session.ver \in Nat /\ session.chunks \in Seq(Chunks)
    BY <1>3, <2>1 DEF SessionInv, VersionsFit, Session
  <2>3. session'.chunks = Append(session.chunks, p) /\ session'.ver = session.ver + 1
    BY <1>3, <2>2
  <2>4. ~At(Post, "start")
    BY <1>3 DEF SessionInv, Opened
  <2>5. Opened'
    BY <1>1, <2>4 DEF Opened, At, Effect
  <2>6. VersionsFit'
    <3> SUFFICES ASSUME NEW s \in DOMAIN req' \cap Patches, req'[s].pc \notin {"start", "done"}
                 PROVE  /\ req'[s].snap.ver <= session'.ver
                        /\ req'[s].snap.ver = session'.ver => req'[s].snap.chunks = session'.chunks
      BY DEF VersionsFit
    <3>1. s # p
      BY <1>3, AnswerReq
    <3>2. req[s].pc \notin {"start", "done"} /\ req'[s].snap = req[s].snap
      BY <1>1, <3>1 DEF Effect
    <3>3. req[s].snap.ver <= session.ver
      BY <1>1, <1>3, <3>2 DEF SessionInv, VersionsFit, Effect
    <3>4. req[s].snap.ver \in Nat
      BY <1>1, <3>2 DEF Typed, AtHand, Session, Effect
    <3> QED
      BY <2>2, <2>3, <3>2, <3>3, <3>4
  <2>7. AcceptedKept'
    <3>1. acked = [i \in DOMAIN session.chunks |-> Piece(session.chunks[i])]
      BY <1>3 DEF SessionInv, AcceptedKept
    <3>2. DOMAIN session.chunks = 1..Len(session.chunks) /\ Len(session.chunks) \in Nat
          /\ DOMAIN Append(session.chunks, p) = 1..(Len(session.chunks) + 1)
          /\ \A i \in 1..Len(session.chunks) : Append(session.chunks, p)[i] = session.chunks[i]
          /\ Append(session.chunks, p)[Len(session.chunks) + 1] = p
      <4>1. p \in Chunks
        BY DEF Chunks
      <4> QED
        BY <2>2, <4>1
    <3>3. acked \in Seq({Piece(c) : c \in Chunks}) /\ Len(acked) = Len(session.chunks)
      <4>1. \A i \in 1..Len(session.chunks) : Piece(session.chunks[i]) \in {Piece(c) : c \in Chunks}
        BY <2>2
      <4>2. \E n \in Nat : acked \in [1..n -> {Piece(c) : c \in Chunks}] /\ n = Len(session.chunks)
        BY <3>1, <3>2, <4>1
      <4> QED
        BY <4>2
    <3>4. acked' = [i \in 1..(Len(session.chunks) + 1) |-> Piece(Append(session.chunks, p)[i])]
      <4>1. Piece(p) \in {Piece(c) : c \in Chunks}
        BY DEF Chunks
      <4>2. /\ acked' \in Seq({Piece(c) : c \in Chunks}) /\ Len(acked') = Len(acked) + 1
            /\ acked'[Len(acked) + 1] = Piece(p)
            /\ \A i \in 1..Len(acked) : acked'[i] = acked[i]
        BY <1>3, <3>3, <4>1
      <4>3. acked' = [i \in 1..(Len(acked) + 1) |-> acked'[i]]
        BY <4>2
      <4>4. \A i \in 1..Len(session.chunks) : acked[i] = Piece(session.chunks[i])
        BY <3>1, <3>2
      <4>5. \A i \in 1..(Len(session.chunks) + 1) : acked'[i] = Piece(Append(session.chunks, p)[i])
        BY <3>2, <3>3, <4>2, <4>4
      <4> QED
        BY <3>3, <4>3, <4>5
    <3> QED
      BY <2>3, <3>2, <3>4 DEF AcceptedKept
  <2> QED
    BY <2>5, <2>6, <2>7 DEF SessionInv
<1> QED
  BY <1>2, <1>3 DEF put_upload_session_if_version

LEMMA SessionUpload ==
  ASSUME Typed, SessionInv, UploadNext
  PROVE  SessionInv'
<1>1. ASSUME NEW r \in DOMAIN req, check_docker_permission(r) \/ give_up(r) PROVE SessionInv'
  <2>1. Effect(r)
    BY <1>1, Moves_check_docker_permission, Moves_give_up
  <2>2. SessionStays
    BY <1>1 DEF check_docker_permission, give_up, SessionStays, kvs
  <2> QED
    BY <2>1, <2>2, SessionQuiet
<1>2. CASE start_session
  BY <1>2, Session_start_session
<1>3. ASSUME NEW p \in Patches \cap DOMAIN req, PatchStep(p) PROVE SessionInv'
  <2>1. CASE put_upload_session_if_version(p)
    BY <2>1, Session_put
  <2>2. CASE patch_read(p) \/ patch_write(p) \/ patch_reread(p)
    <3>1. Effect(p)
      BY <2>2, Moves_patch_read, Moves_patch_write, Moves_patch_reread
    <3>2. SessionStays
      BY <2>2 DEF patch_read, patch_write, patch_reread, SessionStays, kvs
    <3> QED
      BY <3>1, <3>2, SessionQuiet
  <2> QED
    BY <1>3, <2>1, <2>2 DEF PatchStep
<1>4. ASSUME NEW q \in Finals \cap DOMAIN req, CompleteStep(q) PROVE SessionInv'
  <2>1. Effect(q)
    BY <1>4, Moves_complete_read, Moves_complete_body, Moves_complete_create, Moves_complete_assemble,
       Moves_complete_verify, Moves_complete_claim, Moves_complete_record,
       Moves_delete_upload_session, Moves_complete_drop, Moves_complete_chunks DEF CompleteStep
  <2>2. acked' = acked /\ clean' = clean /\ (session' = session \/ session' = None)
    BY <1>4 DEF CompleteStep, complete_read, complete_body, complete_create, complete_assemble,
       complete_verify, complete_claim, complete_record, delete_upload_session, complete_drop,
       complete_chunks, kvs
  <2> QED
    BY <2>1, <2>2, SessionQuiet DEF SessionStays
<1>5. ASSUME NEW m \in Monos \cap DOMAIN req, MonoStep(m) PROVE SessionInv'
  <2>1. Effect(m)
    BY <1>5, Moves_mono_write, Moves_mono_abort, Moves_mono_claim, Moves_mono_record,
       Moves_mono_drop DEF MonoStep
  <2>2. SessionStays
    BY <1>5 DEF MonoStep, mono_write, mono_abort, mono_claim, mono_record, mono_drop,
       SessionStays, kvs
  <2> QED
    BY <2>1, <2>2, SessionQuiet
<1>6. CASE Age
  <2>1. session \in Session
    BY <1>6 DEF Age, Typed, RegistryTypeOK, UploadTypeOK
  <2>2. session'.ver = session.ver /\ session'.chunks = session.chunks /\ session # None
    BY <1>6, <2>1 DEF Age, Session
  <2> QED
    BY <1>6, <2>2, SessionIdle DEF Age, SessionStays
<1>7. CASE list_upload_sessions
  BY <1>7, SessionIdle DEF list_upload_sessions, SessionStays, kvs
<1>8. CASE cleanup_delete
  <2>1. clean'.got = clean.got
    BY <1>8 DEF cleanup_delete, Typed, AtHand, Cleaner
  <2>2. /\ DOMAIN req' = DOMAIN req
        /\ \A s \in DOMAIN req : req'[s].pc = req[s].pc /\ req'[s].snap = req[s].snap
    <3>1. CASE UNCHANGED req
      BY <3>1
    <3>2. CASE UnlinkAll
      BY <3>2, UnlinkReq
    <3> QED
      BY <1>8, <3>1, <3>2 DEF cleanup_delete, UnlinkAll
  <2> QED
    BY <1>8, <2>1, <2>2, SessionIdle DEF cleanup_delete, SessionStays, kvs
<1>9. CASE cleanup_session
  BY <1>9, SessionIdle DEF cleanup_session, SessionStays, kvs
<1> QED
  BY <1>1, <1>2, <1>3, <1>4, <1>5, <1>6, <1>7, <1>8, <1>9 DEF UploadNext, CleanStep

LEMMA SessionStep ==
  ASSUME Typed, SessionInv, [Next]_all
  PROVE  SessionInv'
<1>1. CASE UploadNext
  BY <1>1, SessionUpload
<1>2. CASE UNCHANGED <<session, req, clean, acked>>
  BY <1>2, SessionIdle DEF SessionStays
<1>3. ASSUME NEW o \in DOMAIN ops, PullStep(o) PROVE UNCHANGED sessions
  BY <1>3 DEF PullStep, do_get_manifest, do_head_manifest, do_get_blob, do_head_blob,
     proxy_get_manifest, proxy_head_manifest, proxy_get_blob, proxy_head_blob, ServeManifest, ServeBlob,
     cache_get_manifest, cache_head_manifest, cache_get_blob, cache_head_blob, put_cached_blob,
     not_found, do_list_tags, reads, upload, sessions
<1>4. ASSUME NEW o \in DOMAIN ops, PushStep(o) PROVE UNCHANGED sessions
  BY <1>4 DEF PushStep, do_put_manifest, put_manifest, do_delete_manifest, mount_blob, delete_tag,
     upload, sessions
<1>5. ASSUME NEW o \in DOMAIN ops, CopyStep(o) PROVE UNCHANGED sessions
  BY <1>5 DEF CopyStep, copy_tag, copy_layer, copy_manifest, copy_last, reads, upload, sessions
<1>6. CASE GcStep
  BY <1>2, <1>6 DEF GcStep, gc_start, gc_scan, gc_sweep, gc_untagged, frame
<1>7. CASE upstream_moves \/ \E repo \in {Repo, Dest, Cache} : RecordsAge(repo)
  BY <1>2, <1>7 DEF upstream_moves, RecordsAge, upload
<1>8. CASE UNCHANGED all
  BY <1>2, <1>8 DEF all, upload
<1> QED
  BY <1>1, <1>2, <1>3, <1>4, <1>5, <1>6, <1>7, <1>8 DEF Next, sessions

LEMMA SessionInit ==
  ASSUME Init
  PROVE  SessionInv
<1>1. session = None /\ clean = [pc |-> "idle", got |-> None] /\ acked = <<>>
      /\ \E active : req = [r \in active |-> NewRequest("start")]
  BY DEF Init, UploadInit
<1>2. NewRequest("start").pc = "start"
  BY DEF NewRequest
<1> QED
  BY <1>1, <1>2 DEF SessionInv, Opened, VersionsFit, AcceptedKept

\* However PATCHes, the POST and the final PUTs interleave, no accepted chunk is
\* lost, doubled or moved while the session exists (do_patch_upload).
THEOREM ChunksKept == Spec => []AcceptedKept
<1>1. Init => Typed /\ SessionInv
  BY TypedInit, SessionInit
<1>2. Typed /\ SessionInv /\ [Next]_all => (Typed /\ SessionInv)'
  BY TypedStep, SessionStep
<1>3. SessionInv => AcceptedKept
  BY DEF SessionInv
<1> QED
  BY <1>1, <1>2, <1>3, PTL DEF Spec

-----------------------------------------------------------------------------
(* Blobs.                                                                  *)

LEMMA OneObject ==
  ASSUME backend \in Blobs!Backends, NEW id, NEW b \in DOMAIN objs \ {id}, NEW content, NEW w
  PROVE  /\ Blobs!put(backend, objs, id, content)[b] = objs[b]
         /\ Blobs!delete(backend, objs, id)[b] = objs[b]
         /\ Blobs!create_writer(backend, objs, id)[b] = objs[b]
         /\ Blobs!finish(backend, objs, id, w)[b] = objs[b]
         /\ Blobs!abort(backend, objs, id)[b] = objs[b]
         /\ Blobs!drop(backend, objs, id)[b] = objs[b]
         /\ Blobs!abort(backend, Blobs!create_writer(backend, objs, id), id)[b] = objs[b]
BY DEF Blobs!Backends, Blobs!put, Blobs!file_put, Blobs!s3_put, Blobs!delete, Blobs!file_delete,
       Blobs!s3_delete, Blobs!abort, Blobs!file_abort, Blobs!direct_abort, Blobs!s3_abort,
       Blobs!create_writer, Blobs!file_create_writer, Blobs!s3_create_writer, Blobs!finish,
       Blobs!file_finish, Blobs!direct_finish, Blobs!s3_finish, Blobs!drop, Blobs!s3_drop, Blobs!Object

LEMMA HasObject ==
  ASSUME backend \in Blobs!Backends, NEW id \in DOMAIN objs, NEW content, NEW w
  PROVE  /\ Blobs!put(backend, objs, id, content)[id] = content
         /\ w.linked => Blobs!finish(backend, objs, id, w)[id] = w.buf
BY DEF Blobs!Backends, Blobs!put, Blobs!file_put, Blobs!s3_put, Blobs!finish,
       Blobs!file_finish, Blobs!direct_finish, Blobs!s3_finish, Blobs!Object

\* The history of risks is never cut.
LEMMA RiskGrows ==
  ASSUME [Next]_all
  PROVE  risk \subseteq risk'
<1>1. CASE UploadNext
  BY <1>1 DEF UploadNext, check_docker_permission, give_up, start_session, PatchStep, patch_read,
     patch_write, put_upload_session_if_version, patch_reread, CompleteStep, complete_read,
     complete_body, complete_create, complete_assemble, complete_verify, complete_claim,
     complete_record, delete_upload_session, complete_drop, complete_chunks, MonoStep, mono_write,
     mono_abort, mono_claim, mono_record, mono_drop, Commit, Age, CleanStep, list_upload_sessions,
     cleanup_delete, cleanup_session
<1>2. ASSUME NEW o \in DOMAIN ops, PullStep(o) PROVE risk \subseteq risk'
  BY <1>2 DEF PullStep, do_get_manifest, do_head_manifest, do_get_blob, do_head_blob,
     proxy_get_manifest, proxy_head_manifest, proxy_get_blob, proxy_head_blob, ServeManifest, ServeBlob,
     cache_get_manifest, cache_head_manifest, cache_get_blob, cache_head_blob,
     fetch_upstream_manifest, fetch_upstream_blob_to_writer, put_cached_blob, not_found, do_list_tags, reads, upload
<1>3. ASSUME NEW o \in DOMAIN ops, PushStep(o) PROVE risk \subseteq risk'
  BY <1>3 DEF PushStep, do_put_manifest, put_manifest, do_delete_manifest, mount_blob, delete_tag,
     upload
<1>4. ASSUME NEW o \in DOMAIN ops, CopyStep(o) PROVE risk \subseteq risk'
  BY <1>4 DEF CopyStep, copy_tag, copy_layer, copy_manifest, copy_last, CopyRisk, Retagged, reads, upload
<1>5. CASE GcStep
  BY <1>5 DEF GcStep, gc_start, gc_scan, gc_sweep, gc_untagged, Unread
<1>6. CASE upstream_moves \/ \E repo \in {Repo, Dest, Cache} : RecordsAge(repo)
  BY <1>6 DEF upstream_moves, RecordsAge, upload
<1>7. CASE UNCHANGED all
  BY <1>7 DEF all, upload
<1> QED
  BY <1>1, <1>2, <1>3, <1>4, <1>5, <1>6, <1>7 DEF Next

LEMMA BackedGrows ==
  ASSUME dedup \subseteq dedup', NEW blob, NEW content, Backed(blob, content)
  PROVE  Backed(blob, content)'
BY DEF Backed

\* A registered blob is left alone by whoever may still delete it.
LEMMA RegisteredStays ==
  ASSUME NEW d \in dedup, Registers(d),
         DOMAIN objs' = DOMAIN objs, objs'[d.blob] = objs[d.blob],
         d.blob \in Monos =>
           /\ DOMAIN req' = DOMAIN req
           /\ req'[d.blob].pc \in {"record", "drop", "done"} /\ req'[d.blob].hit = None,
         d.blob \in Ops =>
           /\ DOMAIN ops' = DOMAIN ops
           /\ ops'[d.blob].pc \in {"tag", "manifest", "layer record", "done"}
           /\ ops'[d.blob].pc = "layer record" => ops'[d.blob].blob = d.blob
  PROVE  Registers(d)'
BY DEF Registers

\* A step of an upload that registers nothing, with the objects it writes.
Touches(ids) ==
    /\ DOMAIN objs' = DOMAIN objs
    /\ \A b \in DOMAIN objs : objs'[b] # objs[b] => b \in ids

LEMMA UploadKeeps ==
  ASSUME Typed, BlobInv, Safe, risk \subseteq risk', UNCHANGED registry, dedup' = dedup, DOMAIN req' = DOMAIN req,
         NEW ids, Touches(ids), ids \subseteq Uploads \cup {Target}, \A b \in ids : ~Named(b),
         \A m \in DOMAIN req \cap Monos :
           Named(m) => req'[m].pc \in {"record", "drop", "done"} /\ req'[m].hit = None
  PROVE  DedupFits' /\ ManifestsFit' /\ OpsFit' /\ AnswersFit'
<1>1. ops' = ops /\ manifests' = manifests
  BY DEF registry
<1>2. ASSUME NEW d \in dedup PROVE Registers(d)'
  <2>1. Registers(d) /\ Named(d.blob)
    BY DEF BlobInv, DedupFits, Named
  <2>2. objs'[d.blob] = objs[d.blob] /\ DOMAIN objs' = DOMAIN objs
    BY <2>1 DEF Touches, Registers
  <2>3. d.blob \in Monos => req'[d.blob].pc \in {"record", "drop", "done"} /\ req'[d.blob].hit = None
    BY <2>1 DEF Registers
  <2>4. d.blob \in Ops => /\ ops[d.blob].pc \in {"tag", "manifest", "layer record", "done"}
                          /\ ops[d.blob].pc = "layer record" => ops[d.blob].blob = d.blob
    BY <2>1 DEF Registers
  <2> QED
    BY <1>1, <2>1, <2>2, <2>3, <2>4, RegisteredStays
<1>3. DedupFits'
  BY <1>2 DEF DedupFits
<1>4. ManifestsFit'
  BY <1>1 DEF BlobInv, ManifestsFit, Backed
<1>5. OpsFit'
  <2>1. \A o \in DOMAIN ops : objs'[o] = objs[o]
    <3>1. \A o \in DOMAIN ops : o \in Ops /\ o \in DOMAIN objs
      BY DEF Typed, AtHand, RegistryTypeOK
    <3> QED
      BY <3>1, UploadAssumption DEF Touches
  <2> QED
    BY <1>1, <2>1 DEF BlobInv, OpsFit, OpFits, Backed, Kind, Passes, Route
<1>6. AnswersFit'
  BY <1>1 DEF BlobInv, AnswersFit, AnswerFits, Kind, Passes, Route
<1> QED
  BY <1>3, <1>4, <1>5, <1>6

\* A step of an upload that registers a blob for a content.
LEMMA UploadRegisters ==
  ASSUME Typed, BlobInv, Safe, risk \subseteq risk', UNCHANGED registry, DOMAIN req' = DOMAIN req, objs' = objs,
         NEW digest, NEW blob, dedup' = dedup \cup {BlobRecord(Repo, digest, blob)},
         (blob \in Monos \cap DOMAIN req) \/ blob = Target,
         objs[blob] = digest,
         \A m \in DOMAIN req \cap Monos :
           Named(m) \/ m = blob => req'[m].pc \in {"record", "drop", "done"} /\ req'[m].hit = None
  PROVE  DedupFits' /\ ManifestsFit' /\ OpsFit' /\ AnswersFit'
<1>1. ops' = ops /\ manifests' = manifests
  BY DEF registry
<1>2. ASSUME NEW d \in dedup PROVE Registers(d)'
  <2>1. Registers(d) /\ Named(d.blob)
    BY DEF BlobInv, DedupFits, Named
  <2>3. d.blob \in Monos => req'[d.blob].pc \in {"record", "drop", "done"} /\ req'[d.blob].hit = None
    BY <2>1 DEF Registers
  <2>4. d.blob \in Ops => /\ ops[d.blob].pc \in {"tag", "manifest", "layer record", "done"}
                          /\ ops[d.blob].pc = "layer record" => ops[d.blob].blob = d.blob
    BY <2>1 DEF Registers
  <2> QED
    BY <1>1, <2>1, <2>3, <2>4, RegisteredStays
<1>3. ASSUME NEW d \in dedup', d.digest = digest, d.blob = blob PROVE Registers(d)'
  <2>1. d.blob \in DOMAIN objs /\ d.blob \notin Patches \cup Finals \cup {Post} \cup Ops \cup OtherIds
    BY <1>3, UploadAssumption DEF Typed, AtHand, Uploads
  <2>2. d.blob \in Monos => /\ d.blob \in DOMAIN req
                            /\ req'[d.blob].pc \in {"record", "drop", "done"} /\ req'[d.blob].hit = None
    BY <1>3, UploadAssumption DEF Uploads
  <2> QED
    BY <1>3, <2>1, <2>2 DEF Registers
<1>4. DedupFits'
  BY <1>2, <1>3, MoreBlobs DEF DedupFits
<1>5. dedup \subseteq dedup'
  OBVIOUS
<1>6. ManifestsFit'
  BY <1>1, <1>5, BackedGrows DEF BlobInv, ManifestsFit
<1>7. OpsFit'
  BY <1>1, <1>5, BackedGrows DEF BlobInv, OpsFit, OpFits, Kind, Passes, Route
<1>8. AnswersFit'
  BY <1>1 DEF BlobInv, AnswersFit, AnswerFits, Kind, Passes, Route
<1> QED
  BY <1>4, <1>6, <1>7, <1>8

LEMMA LayersStay ==
  ASSUME LayersFit, arts' \subseteq arts, dedup \subseteq dedup'
  PROVE  LayersFit'
BY BackedGrows DEF LayersFit

\* A record put in place of the one under the same path.
LEMMA LayersPut ==
  ASSUME LayersFit, dedup \subseteq dedup', NEW repo, NEW digest, NEW blob, NEW old,
         Backed(blob, digest)', SetLayer(repo, digest, blob, old)
  PROVE  LayersFit'
<1> DEFINE x == [repo |-> repo, digest |-> digest, blob |-> blob, old |-> old]
<1>1. x.repo = repo /\ x.digest = digest /\ x.blob = blob
  OBVIOUS
<1>2. \A a \in arts' : a = x \/ (a \in arts /\ ~(a.repo = repo /\ a.digest = digest))
  BY DEF SetLayer, LayerOf
<1> HIDE DEF x
<1>3. \A a \in arts' : Backed(a.blob, a.digest)'
  BY <1>1, <1>2, BackedGrows DEF LayersFit
<1>4. \A a, b \in arts' : a.repo = b.repo /\ a.digest = b.digest => a = b
  BY <1>1, <1>2 DEF LayersFit
<1> QED
  BY <1>3, <1>4 DEF LayersFit

LEMMA ManifestsPut ==
  ASSUME ManifestsFit, dedup \subseteq dedup', NEW repo, NEW digest, NEW blob, NEW old,
         Backed(blob, <<digest>>)', SetManifest(repo, digest, blob, old)
  PROVE  ManifestsFit'
<1> DEFINE x == [repo |-> repo, digest |-> digest, blob |-> blob, old |-> old]
<1>1. x.digest = digest /\ x.blob = blob
  OBVIOUS
<1>2. \A m \in manifests' : m = x \/ m \in manifests
  BY DEF SetManifest
<1> HIDE DEF x
<1> QED
  BY <1>1, <1>2, BackedGrows DEF ManifestsFit

LEMMA Committed ==
  ASSUME LayersFit, dedup' = dedup, NEW digest, NEW blob, Backed(blob, digest), Commit(digest, blob)
  PROVE  LayersFit'
<1>1. SetLayer(Repo, digest, blob, FALSE)
  BY DEF Commit, SetLayer, LayerOf
<1>2. Backed(blob, digest)'
  BY DEF Backed
<1> QED
  BY <1>1, <1>2, LayersPut

\* Steps that are not of a monolithic upload leave those alone.
LEMMA MonosStay ==
  ASSUME MonosFit, DOMAIN req' = DOMAIN req, dedup \subseteq dedup', NEW r,
         \A m \in (DOMAIN req \cap Monos) \ {r} :
           req'[m].pc = req[m].pc /\ req'[m].hit = req[m].hit /\ objs'[m] = objs[m],
         r \in Monos \cap DOMAIN req =>
           /\ req'[r].pc = "claim" => objs'[r] = MonoContent[r]
           /\ req'[r].pc = "record" => Backed(Chosen(r, r), MonoContent[r])'
  PROVE  MonosFit'
<1> SUFFICES ASSUME NEW m \in DOMAIN req \cap Monos
             PROVE  /\ req'[m].pc = "claim" => objs'[m] = MonoContent[m]
                    /\ req'[m].pc = "record" => Backed(Chosen(m, m), MonoContent[m])'
  BY DEF MonosFit
<1>1. CASE m = r
  BY <1>1
<1>2. CASE m # r
  <2>1. req'[m].pc = "claim" => objs'[m] = MonoContent[m]
    BY <1>2 DEF MonosFit
  <2>2. req'[m].pc = "record" => Backed(Chosen(m, m), MonoContent[m])
    BY <1>2 DEF MonosFit
  <2>3. Chosen(m, m)' = Chosen(m, m)
    BY <1>2 DEF Chosen
  <2> QED
    BY <2>1, <2>2, <2>3 DEF Backed
<1> QED
  BY <1>1, <1>2

\* Steps that touch neither the final PUTs nor the session's blob.
LEMMA FinalsStay ==
  ASSUME BlobInv, DOMAIN req' = DOMAIN req, dedup \subseteq dedup',
         \A q \in DOMAIN req \cap Finals :
           \/ req'[q] = req[q]
           \/ req[q].pc \in {"start", "done"} /\ req'[q].pc \in {"start", "done"},
         objs'[Target] = objs[Target], Named(Target)' => Named(Target),
         clean'.got = None \/ clean'.got = clean.got \/ ((\A q \in Finals : ~Running(q)) /\ ~Named(Target)),
         At(Post, "start")' => At(Post, "start"),
         session' = None \/ session # None \/ ~Named(Target)
  PROVE  FinalsFit' /\ OneFinal' /\ TargetKept'
<1>1. \A q \in Finals : (Running(q)' <=> Running(q)) /\ (Claimed(q)' <=> Claimed(q))
  BY DEF Running, Claimed
<1>2. FinalsFit'
  <2> SUFFICES ASSUME NEW q \in DOMAIN req \cap Finals
               PROVE  /\ req'[q].pc = "assemble" => req'[q].w.linked
                      /\ req'[q].pc \in {"verify", "claim"} => objs'[Target] = req'[q].w.buf
                      /\ req'[q].pc = "record" => Backed(Chosen(q, Target), req[q].w.buf)'
    BY DEF FinalsFit
  <2>1. CASE req'[q] = req[q]
    <3>1. Chosen(q, Target)' = Chosen(q, Target)
      BY <2>1 DEF Chosen
    <3> QED
      BY <2>1, <3>1 DEF BlobInv, FinalsFit, Backed
  <2>2. CASE req'[q].pc \in {"start", "done"}
    BY <2>2
  <2> QED
    BY <2>1, <2>2
<1>3. OneFinal'
  BY <1>1 DEF BlobInv, OneFinal, Running
<1>4. TargetKept'
  <2> SUFFICES ASSUME Named(Target)'
               PROVE  /\ clean'.got = None /\ ~At(Post, "start")'
                      /\ session' = None \/ \E q \in Finals : Claimed(q)'
                      /\ \A q \in Finals : Running(q)' =>
                           req'[q].pc \in {"record", "end", "drop", "chunks"} /\ req'[q].hit = None
    BY DEF TargetKept
  <2>1. /\ clean.got = None /\ ~At(Post, "start")
        /\ session = None \/ \E q \in Finals : Claimed(q)
        /\ \A q \in Finals :
             Running(q) => req[q].pc \in {"record", "end", "drop", "chunks"} /\ req[q].hit = None
    BY DEF BlobInv, TargetKept
  <2> QED
    BY <1>1, <2>1 DEF Running
<1> QED
  BY <1>2, <1>3, <1>4

\* While a final PUT runs, it alone runs.
LEMMA FinalAlone ==
  ASSUME Typed, BlobInv, NEW q \in Finals \cap DOMAIN req, Running(q), Effect(q), clean' = clean
  PROVE  /\ OneFinal' /\ clean.got = None
         /\ \A o \in Finals : Running(o)' => o = q
<1>1. clean.got = None /\ \A o \in Finals : Running(o) => o = q
  BY DEF BlobInv, OneFinal
<1>2. \A o \in Finals : Running(o)' => o = q
  BY <1>1 DEF Running, Effect
<1> QED
  BY <1>1, <1>2 DEF OneFinal

\* What such a step has to show of the blob it is about.
LEMMA FinalMoves ==
  ASSUME Typed, SessionInv, BlobInv, NEW q \in Finals \cap DOMAIN req, Running(q), Effect(q), clean' = clean,
         Named(Target)' => Named(Target) \/ req'[q].pc = "record",
         session' = None \/ (session' = session /\ (Claimed(q) => Claimed(q)')),
         req'[q].pc = "assemble" => req'[q].w.linked,
         req'[q].pc \in {"verify", "claim"} => objs'[Target] = req'[q].w.buf,
         req'[q].pc = "record" => Backed(Chosen(q, Target), req[q].w.buf)',
         Named(Target)' => \/ req'[q].pc = "done"
                           \/ req'[q].pc \in {"record", "end", "drop", "chunks"} /\ req'[q].hit = None
  PROVE  FinalsFit' /\ OneFinal' /\ TargetKept'
<1>1. OneFinal' /\ clean.got = None /\ \A o \in Finals : Running(o)' => o = q
  BY FinalAlone
<1>2. FinalsFit'
  BY <1>1 DEF FinalsFit, Running
<1>3. TargetKept'
  <2> SUFFICES ASSUME Named(Target)'
               PROVE  /\ clean'.got = None /\ ~At(Post, "start")'
                      /\ session' = None \/ \E o \in Finals : Claimed(o)'
                      /\ \A o \in Finals : Running(o)' =>
                           req'[o].pc \in {"record", "end", "drop", "chunks"} /\ req'[o].hit = None
    BY DEF TargetKept
  <2>1. clean'.got = None /\ ~At(Post, "start")'
    <3>1. ~At(Post, "start")
      BY DEF SessionInv, Opened, Running
    <3> QED
      BY <1>1, <3>1, UploadAssumption DEF At, Effect
  <2>2. session = None \/ Claimed(q) \/ req'[q].pc = "record"
    <3>1. Named(Target) => session = None \/ \E o \in Finals : Claimed(o)
      BY DEF BlobInv, TargetKept
    <3>2. \A o \in Finals : Claimed(o) => Running(o)
      BY DEF Claimed, Running
    <3> QED
      BY <3>1, <3>2 DEF BlobInv, OneFinal
  <2>3. session' = None \/ \E o \in Finals : Claimed(o)'
    BY <2>2 DEF Claimed, Effect
  <2>4. \A o \in Finals : Running(o)' =>
          req'[o].pc \in {"record", "end", "drop", "chunks"} /\ req'[o].hit = None
    BY <1>1 DEF Running
  <2> QED
    BY <2>1, <2>3, <2>4
<1> QED
  BY <1>1, <1>2, <1>3

\* Chunk ids are never registered, and a monolithic upload's id only by its claim.
LEMMA Unnamed ==
  ASSUME BlobInv
  PROVE  /\ \A b \in Patches \cup Finals \cup {Post} : ~Named(b)
         /\ \A m \in Monos \cap DOMAIN req :
              Named(m) => req[m].pc \in {"record", "drop", "done"} /\ req[m].hit = None
         /\ \A q \in Finals : Running(q) /\ Named(Target) =>
              req[q].pc \in {"record", "end", "drop", "chunks"} /\ req[q].hit = None
BY DEF BlobInv, DedupFits, Registers, Named, TargetKept

LEMMA TouchesOne ==
  ASSUME Typed, NEW id,
         \E content, w :
           \/ objs' = objs
           \/ objs' = Blobs!put(backend, objs, id, content)
           \/ objs' = Blobs!delete(backend, objs, id)
           \/ objs' = Blobs!create_writer(backend, objs, id)
           \/ objs' = Blobs!finish(backend, objs, id, w)
           \/ objs' = Blobs!abort(backend, objs, id)
           \/ objs' = Blobs!abort(backend, Blobs!create_writer(backend, objs, id), id)
  PROVE  Touches({id})
<1>1. backend \in Blobs!Backends
  BY DEF Typed, RegistryTypeOK, UploadTypeOK
<1>2. DOMAIN objs' = DOMAIN objs
  BY <1>1 DEF Blobs!Backends, Blobs!put, Blobs!file_put, Blobs!s3_put, Blobs!delete, Blobs!file_delete,
       Blobs!s3_delete, Blobs!abort, Blobs!file_abort, Blobs!direct_abort, Blobs!s3_abort,
       Blobs!create_writer, Blobs!file_create_writer, Blobs!s3_create_writer, Blobs!finish,
       Blobs!file_finish, Blobs!direct_finish, Blobs!s3_finish, Blobs!Object
<1>3. \A b \in DOMAIN objs \ {id} : objs'[b] = objs[b]
  BY <1>1, OneObject
<1> QED
  BY <1>2, <1>3 DEF Touches

LEMMA TouchesChunks ==
  ASSUME NEW snap \in Session,
         objs' = [b \in DOMAIN objs |-> IF \E i \in DOMAIN snap.chunks : snap.chunks[i] = b
                                        THEN Absent ELSE objs[b]]
  PROVE  Touches(Chunks)
<1>1. \A i \in DOMAIN snap.chunks : snap.chunks[i] \in Chunks
  <2>1. snap.chunks \in Seq(Chunks)
    BY DEF Session
  <2> QED
    BY <2>1
<1> QED
  BY <1>1 DEF Touches

\* A step of a PATCH, of the POST, or a refusal, that writes its own id at most.
LEMMA OthersStep ==
  ASSUME Typed, BlobInv, Safe, risk \subseteq risk', UNCHANGED registry, UNCHANGED <<dedup, arts, clean>>,
         NEW r \in DOMAIN req, Effect(r), (Touches({r}) /\ r \in Patches \cup {Post}) \/ objs' = objs,
         \A s \in DOMAIN req \ {r} : req'[s] = req[s],
         r \notin Patches \cup {Post} => req'[r] = NewRequest("done") /\ ~(r \in Finals /\ Running(r)),
         session' = None \/ session # None \/ ~Named(Target)
  PROVE  BlobInv'
<1>1. PICK ids : /\ Touches(ids) /\ ids \subseteq (Patches \cup {Post}) /\ \A b \in ids : ~Named(b)
  <2>1. CASE Touches({r}) /\ r \in Patches \cup {Post}
    BY <2>1, Unnamed
  <2>2. CASE objs' = objs
    <3>1. Touches({})
      BY <2>2 DEF Touches
    <3> QED
      BY <3>1
  <2> QED
    BY <2>1, <2>2
<1>2. NewRequest("done").pc = "done" /\ NewRequest("done").hit = None
  BY DEF NewRequest
<1>3. \A m \in DOMAIN req \cap Monos : m # r => objs'[m] = objs[m]
  BY <1>1, UploadAssumption DEF Touches, Typed, AtHand
<1>4. \A m \in DOMAIN req \cap Monos :
        /\ req'[m].pc \in {req[m].pc, "done"}
        /\ Named(m) => req'[m].pc \in {"record", "drop", "done"} /\ req'[m].hit = None
  <2>1. ASSUME NEW m \in DOMAIN req \cap Monos
        PROVE  req'[m] = req[m] \/ req'[m] = NewRequest("done")
    BY UploadAssumption
  <2> QED
    BY <1>2, <2>1, Unnamed
<1>5. DedupFits' /\ ManifestsFit' /\ OpsFit' /\ AnswersFit'
  <2>1. ids \subseteq Uploads \cup {Target} /\ DOMAIN req' = DOMAIN req
    BY <1>1 DEF Uploads, Effect
  <2> QED
    BY <1>1, <1>4, <2>1, UploadKeeps
<1>6. LayersFit'
  BY LayersStay DEF BlobInv
<1>7. MonosFit'
  <2>1. r \in Monos => req'[r].pc = "done"
    BY <1>2, UploadAssumption
  <2>2. DOMAIN req' = DOMAIN req
    BY DEF Effect
  <2> QED
    BY <1>3, <2>1, <2>2, MonosStay DEF BlobInv
<1>8. FinalsFit' /\ OneFinal' /\ TargetKept'
  <2>1. objs'[Target] = objs[Target]
    BY <1>1, UploadAssumption DEF Touches, Typed, AtHand, Uploads
  <2>2. \A q \in DOMAIN req \cap Finals :
           \/ req'[q] = req[q]
           \/ req[q].pc \in {"start", "done"} /\ req'[q].pc \in {"start", "done"}
    BY <1>2, UploadAssumption DEF Running
  <2>3. At(Post, "start")' => At(Post, "start")
    BY DEF At, Effect
  <2>4. DOMAIN req' = DOMAIN req /\ (Named(Target)' => Named(Target))
    BY DEF Effect, Named
  <2>5. clean'.got = clean.got /\ dedup \subseteq dedup'
    OBVIOUS
  <2> QED
    BY <2>1, <2>2, <2>3, <2>4, <2>5, FinalsStay
<1> QED
  BY <1>5, <1>6, <1>7, <1>8 DEF BlobInv

LEMMA Blob_check_docker_permission ==
  ASSUME Typed, BlobInv, Safe, risk \subseteq risk', UNCHANGED registry, NEW r \in DOMAIN req, check_docker_permission(r)
  PROVE  BlobInv'
<1>1. Effect(r) /\ req[r].pc = "start" /\ Answer(r, "refused")
  BY Moves_check_docker_permission DEF check_docker_permission, At
<1>2. /\ UNCHANGED <<dedup, arts, clean>> /\ objs' = objs /\ session' = session
  BY DEF check_docker_permission, kvs
<1> QED
  BY <1>1, <1>2, AnswerReq, OthersStep DEF Running

LEMMA Blob_start_session ==
  ASSUME Typed, BlobInv, Safe, risk \subseteq risk', UNCHANGED registry, start_session
  PROVE  BlobInv'
<1>1. Effect(Post) /\ Post \in DOMAIN req /\ At(Post, "start") /\ Answer(Post, "accepted")
  BY Moves_start_session DEF start_session, At
<1>2. UNCHANGED <<dedup, arts, clean>> /\ ~Named(Target)
  BY <1>1 DEF start_session, BlobInv, TargetKept
<1>3. Touches({Post})
  BY TouchesOne DEF start_session
<1> QED
  BY <1>1, <1>2, <1>3, AnswerReq, OthersStep

LEMMA Blob_PatchStep ==
  ASSUME Typed, BlobInv, Safe, risk \subseteq risk', UNCHANGED registry, NEW p \in Patches \cap DOMAIN req, PatchStep(p)
  PROVE  BlobInv'
<1>1. Effect(p)
  BY Moves_patch_read, Moves_patch_write, Moves_put_upload_session_if_version, Moves_patch_reread
     DEF PatchStep
<1>2. UNCHANGED <<dedup, arts, clean>>
  BY DEF PatchStep, patch_read, patch_write, put_upload_session_if_version, patch_reread, kvs
<1>3. session' = None \/ session # None
  BY DEF PatchStep, patch_read, patch_write, put_upload_session_if_version, patch_reread, kvs
<1>4. Touches({p})
  BY TouchesOne DEF PatchStep, patch_read, patch_write, put_upload_session_if_version, patch_reread
<1>5. \A s \in DOMAIN req \ {p} : req'[s] = req[s]
  <2>1. \E x : Gives(p, x)
    <3>1. PICK W : RequestsIn(W)
      BY DEF Typed
    <3>2. \/ \E status : Answer(p, status) \/ \E pc : Goto(p, pc)
          \/ \E pc : Snaps(p, pc, session)
          \/ Rereads(p)
      BY DEF PatchStep, patch_read, patch_write, put_upload_session_if_version, patch_reread,
         Snaps, Rereads
    <3> QED
      BY <3>1, <3>2 DEF Gives, Answer, Goto, Snaps, Rereads, RequestsIn
  <2> QED
    BY <2>1 DEF Gives, Typed, RequestsIn
<1> QED
  BY <1>1, <1>2, <1>3, <1>4, <1>5, OthersStep

LEMMA Blob_give_up ==
  ASSUME Typed, SessionInv, BlobInv, Safe, risk \subseteq risk', Safe', UNCHANGED registry, NEW r \in DOMAIN req, give_up(r)
  PROVE  BlobInv'
<1>1. Effect(r) /\ req[r].pc \notin {"start", "done"} /\ Answer(r, "error")
  BY Moves_give_up DEF give_up
<1>2. UNCHANGED <<dedup, arts, clean>> /\ session' = session
  BY DEF give_up, kvs
<1>3. objs' = objs
  BY DEF give_up, Blobs!drop, Blobs!s3_drop
<1>4. CASE r \notin Finals
  BY <1>1, <1>2, <1>3, <1>4, AnswerReq, OthersStep
<1>5. CASE r \in Finals
  <2>1. req[r].pc \notin {"record", "end"}
    BY <1>5 DEF give_up, Safe, UploadRisks
  <2>2. req'[r].pc = "done" /\ \A s \in DOMAIN req \ {r} : req'[s] = req[s]
    BY <1>1, AnswerReq
  <2>3. Running(r) /\ DOMAIN req' = DOMAIN req /\ (Named(Target)' => Named(Target))
    BY <1>1, <1>2 DEF Running, Effect, Named
  <2>4. FinalsFit' /\ OneFinal' /\ TargetKept'
    BY <1>1, <1>2, <1>5, <2>1, <2>2, <2>3, FinalMoves DEF Claimed
  <2>5. Touches({})
    BY <1>3 DEF Touches
  <2>6. r \notin Monos
    BY <1>5, UploadAssumption
  <2>7. DedupFits' /\ ManifestsFit' /\ OpsFit' /\ AnswersFit'
    BY <1>2, <2>2, <2>3, <2>5, <2>6, Unnamed, UploadKeeps
  <2>8. LayersFit' /\ MonosFit'
    BY <1>2, <1>3, <2>2, <2>3, <2>6, LayersStay, MonosStay DEF BlobInv
  <2> QED
    BY <2>4, <2>7, <2>8 DEF BlobInv
<1> QED
  BY <1>4, <1>5

\* A step of a running final PUT that registers nothing.
LEMMA FinalStep ==
  ASSUME Typed, SessionInv, BlobInv, Safe, risk \subseteq risk', UNCHANGED registry, UNCHANGED <<dedup, clean>>,
         NEW q \in Finals \cap DOMAIN req, Running(q), Effect(q),
         NEW ids, Touches(ids), ids \subseteq Chunks \cup {Target}, \A b \in ids : ~Named(b),
         LayersFit',
         session' = None \/ (session' = session /\ (Claimed(q) => Claimed(q)')),
         req'[q].pc = "assemble" => req'[q].w.linked,
         req'[q].pc \in {"verify", "claim"} => objs'[Target] = req'[q].w.buf,
         req'[q].pc = "record" => Backed(Chosen(q, Target), req[q].w.buf)',
         Named(Target) => \/ req'[q].pc = "done"
                          \/ req'[q].pc \in {"record", "end", "drop", "chunks"} /\ req'[q].hit = None
  PROVE  BlobInv'
<1>1. Named(Target)' => Named(Target)
  BY DEF Named
<1>2. FinalsFit' /\ OneFinal' /\ TargetKept'
  BY <1>1, FinalMoves
<1>3. q \notin Monos /\ DOMAIN req' = DOMAIN req
  BY UploadAssumption DEF Effect
<1>4. \A m \in DOMAIN req \cap Monos : req'[m].pc = req[m].pc /\ req'[m].hit = req[m].hit
  BY <1>3 DEF Effect
<1>5. ids \subseteq Uploads \cup {Target}
  BY DEF Uploads, Chunks
<1>6. DedupFits' /\ ManifestsFit' /\ OpsFit' /\ AnswersFit'
  BY <1>3, <1>4, <1>5, Unnamed, UploadKeeps
<1>7. \A m \in DOMAIN req \cap Monos : objs'[m] = objs[m]
  <2>1. \A m \in DOMAIN req \cap Monos : m \in DOMAIN objs /\ m \notin Chunks \cup {Target}
    BY UploadAssumption DEF Chunks, Uploads, Typed, AtHand
  <2> QED
    BY <2>1 DEF Touches
<1>8. MonosFit'
  BY <1>3, <1>4, <1>7, MonosStay DEF BlobInv
<1> QED
  BY <1>2, <1>6, <1>8 DEF BlobInv

LEMMA Blob_complete_read ==
  ASSUME Typed, SessionInv, BlobInv, Safe, risk \subseteq risk', Safe', UNCHANGED registry,
         NEW q \in Finals \cap DOMAIN req, complete_read(q)
  PROVE  BlobInv'
<1>1. Effect(q) /\ req[q].pc = "start"
  BY Moves_complete_read DEF complete_read, At
<1>2. UNCHANGED <<dedup, arts, clean>> /\ objs' = objs /\ session' = session
  BY DEF complete_read, kvs
<1>3. CASE session = None
  <2>1. Answer(q, "unknown")
    BY <1>3 DEF complete_read
  <2> QED
    BY <1>1, <1>2, <2>1, AnswerReq, OthersStep DEF Running
<1>4. CASE session # None
  <2>1. clean.got = None /\ \A o \in Finals \ {q} : ~Running(o)
    BY <1>4 DEF complete_read, Safe, UploadRisks
  <2>2. \A o \in Finals : ~Running(o)
    BY <1>1, <2>1 DEF Running
  <2>3. ~Named(Target)
    <3>1. \A o \in Finals : ~Claimed(o)
      BY <2>2 DEF Claimed, Running
    <3> QED
      BY <1>4, <3>1 DEF BlobInv, TargetKept
  <2>4. PICK body \in BOOLEAN : \E want : Reads(q, body, want)
    BY <1>4 DEF complete_read, Reads
  <2>5. session \in Session
    BY <1>4 DEF Typed, RegistryTypeOK, UploadTypeOK
  <2>6. /\ req'[q].pc = "write" /\ \A s \in DOMAIN req \ {q} : req'[s] = req[s]
        /\ DOMAIN req' = DOMAIN req
    BY <2>4, <2>5, ReadReq
  <2>7. \A o \in Finals : Running(o)' => o = q
    BY <2>2, <2>6 DEF Running
  <2>8. OneFinal' /\ TargetKept' /\ FinalsFit'
    BY <1>2, <2>1, <2>3, <2>6, <2>7 DEF OneFinal, TargetKept, FinalsFit, Named, Running
  <2>9. Touches({}) /\ q \notin Monos
    BY <1>2, UploadAssumption DEF Touches
  <2>10. DedupFits' /\ ManifestsFit' /\ OpsFit' /\ AnswersFit'
    BY <1>2, <2>6, <2>9, Unnamed, UploadKeeps
  <2>11. LayersFit' /\ MonosFit'
    BY <1>2, <2>6, <2>9, LayersStay, MonosStay DEF BlobInv
  <2> QED
    BY <2>8, <2>10, <2>11 DEF BlobInv
<1> QED
  BY <1>3, <1>4

LEMMA Blob_complete_body ==
  ASSUME Typed, SessionInv, BlobInv, Safe, risk \subseteq risk', UNCHANGED registry,
         NEW q \in Finals \cap DOMAIN req, complete_body(q)
  PROVE  BlobInv'
<1>1. Effect(q) /\ req[q].pc = "write" /\ Running(q)
  BY Moves_complete_body DEF complete_body, At, Running
<1>2. UNCHANGED <<dedup, arts, clean>> /\ session' = session
  BY DEF complete_body, kvs
<1>3. Touches({q})
  BY TouchesOne DEF complete_body
<1>4. req'[q].pc \in {"create", "done"}
  <2>1. CASE Tails(q, q, req[q].body)
    <3>1. req[q].snap \in Session /\ q \in Chunks
      BY <1>1 DEF Typed, AtHand, Chunks
    <3> QED
      BY <2>1, <3>1, TailReq
  <2>2. CASE Answer(q, "error")
    BY <2>2, AnswerReq
  <2> QED
    BY <2>1, <2>2 DEF complete_body, Tails
<1>5. ~Named(q) /\ ~Named(Target) /\ q \in Chunks /\ ~Claimed(q)
  BY <1>1, Unnamed DEF Chunks, Claimed
<1>6. LayersFit'
  BY <1>2, LayersStay DEF BlobInv
<1> QED
  BY <1>1, <1>2, <1>3, <1>4, <1>5, <1>6, FinalStep

LEMMA Blob_complete_create ==
  ASSUME Typed, SessionInv, BlobInv, Safe, risk \subseteq risk', UNCHANGED registry,
         NEW q \in Finals \cap DOMAIN req, complete_create(q)
  PROVE  BlobInv'
<1>1. Effect(q) /\ req[q].pc = "create" /\ Running(q)
  BY Moves_complete_create DEF complete_create, At, Running
<1>2. UNCHANGED <<dedup, arts, clean>> /\ session' = session
  BY DEF complete_create, kvs
<1>3. Touches({Target})
  BY TouchesOne DEF complete_create
<1>4. req'[q].pc = "assemble" /\ req'[q].w.linked
  BY CreateReq DEF complete_create, Writes
<1>5. ~Named(Target) /\ ~Claimed(q)
  BY <1>1, Unnamed DEF Claimed
<1>6. LayersFit'
  BY <1>2, LayersStay DEF BlobInv
<1> QED
  BY <1>1, <1>2, <1>3, <1>4, <1>5, <1>6, FinalStep

LEMMA Blob_complete_assemble ==
  ASSUME Typed, SessionInv, BlobInv, Safe, risk \subseteq risk', UNCHANGED registry,
         NEW q \in Finals \cap DOMAIN req, complete_assemble(q)
  PROVE  BlobInv'
<1>1. Effect(q) /\ req[q].pc = "assemble" /\ Running(q)
  BY Moves_complete_assemble DEF complete_assemble, At, Running
<1>2. UNCHANGED <<dedup, arts, clean>> /\ session' = session
  BY DEF complete_assemble, kvs
<1>3. PICK whole : whole = Assembled(req[q].w, req[q].snap.chunks)
  OBVIOUS
<1>4. \/ Ends(q) /\ objs' = Blobs!abort(backend, objs, Target)
      \/ Writes(q, "verify", whole) /\ objs' = Blobs!finish(backend, objs, Target, whole)
  BY <1>3 DEF complete_assemble, Ends, Cuts, Writes, Unlink
<1>5. Touches({Target})
  BY <1>4, TouchesOne
<1>6. \/ req'[q].pc = "done"
      \/ req'[q].pc = "verify" /\ objs'[Target] = req'[q].w.buf
  <2>1. CASE Ends(q)
    BY <2>1, EndsReq
  <2>2. CASE Writes(q, "verify", whole) /\ objs' = Blobs!finish(backend, objs, Target, whole)
    <3>1. req'[q].pc = "verify" /\ req'[q].w = whole /\ whole.linked = req[q].w.linked
      BY <1>3, <2>2, WholeReq
    <3>2. req[q].w.linked
      BY <1>1 DEF BlobInv, FinalsFit
    <3>3. backend \in Blobs!Backends /\ Target \in DOMAIN objs
      BY DEF Typed, RegistryTypeOK, UploadTypeOK, AtHand
    <3> QED
      BY <2>2, <3>1, <3>2, <3>3, HasObject
  <2> QED
    BY <1>4, <2>1, <2>2
<1>7. ~Named(Target) /\ ~Claimed(q)
  BY <1>1, Unnamed DEF Claimed
<1>8. LayersFit'
  BY <1>2, LayersStay DEF BlobInv
<1> QED
  BY <1>1, <1>2, <1>5, <1>6, <1>7, <1>8, FinalStep

LEMMA Blob_complete_verify ==
  ASSUME Typed, SessionInv, BlobInv, Safe, risk \subseteq risk', UNCHANGED registry,
         NEW q \in Finals \cap DOMAIN req, complete_verify(q)
  PROVE  BlobInv'
<1>1. Effect(q) /\ req[q].pc = "verify" /\ Running(q)
  BY Moves_complete_verify DEF complete_verify, At, Running
<1>2. UNCHANGED <<dedup, arts, clean>> /\ session' = session
  BY DEF complete_verify, kvs
<1>3. \/ Goto(q, "claim") /\ objs' = objs
      \/ Ends(q) /\ objs' = Blobs!delete(backend, objs, Target)
  BY DEF complete_verify, Ends, Cuts, DeleteTarget
<1>4. Touches({Target})
  BY <1>3, TouchesOne
<1>5. \/ req'[q].pc = "done"
      \/ req'[q].pc = "claim" /\ objs'[Target] = req'[q].w.buf
  <2>1. CASE Ends(q)
    BY <2>1, EndsReq
  <2>2. CASE Goto(q, "claim") /\ objs' = objs
    <3>1. req'[q].pc = "claim" /\ req'[q].w = req[q].w
      BY <2>2, GotoReq DEF Steps
    <3>2. objs[Target] = req[q].w.buf
      BY <1>1 DEF BlobInv, FinalsFit
    <3> QED
      BY <2>2, <3>1, <3>2
  <2> QED
    BY <1>3, <2>1, <2>2
<1>6. ~Named(Target) /\ ~Claimed(q)
  BY <1>1, Unnamed DEF Claimed
<1>7. LayersFit'
  BY <1>2, LayersStay DEF BlobInv
<1> QED
  BY <1>1, <1>2, <1>4, <1>5, <1>6, <1>7, FinalStep

\* The claim of the session's blob, or of the content it duplicates.
LEMMA Blob_complete_claim ==
  ASSUME Typed, SessionInv, BlobInv, Safe, risk \subseteq risk', UNCHANGED registry,
         NEW q \in Finals \cap DOMAIN req, complete_claim(q)
  PROVE  BlobInv'
<1>1. Effect(q) /\ req[q].pc = "claim" /\ Running(q)
  BY Moves_complete_claim DEF complete_claim, At, Running
<1>2. UNCHANGED <<arts, clean>> /\ session' = session /\ objs' = objs
  BY DEF complete_claim
<1>3. Target \in BlobIds /\ q \notin Monos /\ None \notin BlobIds
  BY UploadAssumption DEF BlobIds
<1>4. /\ req'[q].pc = "record" /\ req'[q].w = req[q].w
      /\ DOMAIN req' = DOMAIN req
      /\ \A s \in DOMAIN req \ {q} : req'[s] = req[s]
      /\ \/ /\ req'[q].hit = None /\ dedup' = dedup \cup {BlobRecord(Repo, req[q].w.buf, Target)}
         \/ /\ \E d \in dedup : d.digest = req[q].w.buf /\ req'[q].hit = d.blob
            /\ dedup' = dedup
  BY <1>3, ClaimReq DEF complete_claim
<1>5. objs[Target] = req[q].w.buf /\ ~Named(Target)
  BY <1>1, Unnamed DEF BlobInv, FinalsFit
<1>6. dedup \subseteq dedup'
  BY <1>4
<1>7. LayersFit' /\ MonosFit'
  BY <1>2, <1>3, <1>4, <1>6, LayersStay, MonosStay DEF BlobInv
<1>8. CASE req'[q].hit = None /\ dedup' = dedup \cup {BlobRecord(Repo, req[q].w.buf, Target)}
  <2>1. Target \notin Monos
    BY UploadAssumption DEF Uploads
  <2>2. \A m \in DOMAIN req \cap Monos :
          Named(m) \/ m = Target => req'[m].pc \in {"record", "drop", "done"} /\ req'[m].hit = None
    BY <1>3, <1>4, <2>1, Unnamed
  <2>3. DedupFits' /\ ManifestsFit' /\ OpsFit' /\ AnswersFit'
    BY <1>2, <1>4, <1>5, <1>8, <2>2, UploadRegisters
  <2>4. Backed(Target, req[q].w.buf)'
    <3>1. BlobRecord(Repo, req[q].w.buf, Target) \in dedup'
      BY <1>8
    <3> QED
      BY <1>4, <3>1, BlobRecordFields DEF Backed
  <2>5. Chosen(q, Target)' = Target
    BY <1>8 DEF Chosen
  <2>6. FinalsFit' /\ OneFinal' /\ TargetKept'
    BY <1>1, <1>2, <1>4, <1>8, <2>4, <2>5, FinalMoves DEF Claimed
  <2> QED
    BY <1>7, <2>3, <2>6 DEF BlobInv
<1>9. CASE /\ \E d \in dedup : d.digest = req[q].w.buf /\ req'[q].hit = d.blob
           /\ dedup' = dedup
  <2>1. PICK d \in dedup : d.digest = req[q].w.buf /\ req'[q].hit = d.blob
    BY <1>9
  <2>2. d.blob # None
    BY <1>3, RecordKinds
  <2>3. Chosen(q, Target)' = d.blob
    BY <2>1, <2>2 DEF Chosen
  <2>4. Backed(Chosen(q, Target), req[q].w.buf)'
    BY <1>4, <1>9, <2>1, <2>3 DEF Backed
  <2>5. Touches({})
    BY <1>2 DEF Touches
  <2>6. session' = session /\ (Claimed(q) => Claimed(q)')
    BY <1>1, <1>2 DEF Claimed
  <2> QED
    BY <1>1, <1>2, <1>4, <1>5, <1>7, <1>9, <2>4, <2>5, <2>6, FinalStep
<1> QED
  BY <1>4, <1>8, <1>9

LEMMA Blob_complete_record ==
  ASSUME Typed, SessionInv, BlobInv, Safe, risk \subseteq risk', UNCHANGED registry,
         NEW q \in Finals \cap DOMAIN req, complete_record(q)
  PROVE  BlobInv'
<1>1. Effect(q) /\ req[q].pc = "record" /\ Running(q) /\ Goto(q, "end")
  BY Moves_complete_record DEF complete_record, At, Running
<1>2. UNCHANGED <<dedup, clean>> /\ session' = session /\ objs' = objs
  BY DEF complete_record
<1>3. Commit(req[q].w.buf, Chosen(q, Target)) /\ Backed(Chosen(q, Target), req[q].w.buf)
  BY <1>1 DEF complete_record, BlobInv, FinalsFit
<1>4. LayersFit'
  BY <1>2, <1>3, Committed DEF BlobInv
<1>5. req'[q].pc = "end" /\ req'[q].hit = req[q].hit /\ Claimed(q)'
  BY <1>1, GotoReq DEF Steps, Claimed
<1>6. Named(Target) => req[q].hit = None
  BY <1>1, Unnamed
<1>7. Touches({})
  BY <1>2 DEF Touches
<1> QED
  BY <1>1, <1>2, <1>4, <1>5, <1>6, <1>7, FinalStep

LEMMA Blob_delete_upload_session ==
  ASSUME Typed, SessionInv, BlobInv, Safe, risk \subseteq risk', UNCHANGED registry,
         NEW q \in Finals \cap DOMAIN req, delete_upload_session(q)
  PROVE  BlobInv'
<1>1. Effect(q) /\ req[q].pc = "end" /\ Running(q) /\ Goto(q, "drop")
  BY Moves_delete_upload_session DEF delete_upload_session, At, Running
<1>2. UNCHANGED <<dedup, arts, clean>> /\ session' = None /\ objs' = objs
  BY DEF delete_upload_session
<1>3. req'[q].pc = "drop" /\ req'[q].hit = req[q].hit
  BY <1>1, GotoReq DEF Steps
<1>4. Named(Target) => req[q].hit = None
  BY <1>1, Unnamed
<1>5. Touches({}) /\ LayersFit'
  BY <1>2, LayersStay DEF Touches, BlobInv
<1> QED
  BY <1>1, <1>2, <1>3, <1>4, <1>5, FinalStep

\* The session's blob is deleted only when another was there before.
LEMMA Blob_complete_drop ==
  ASSUME Typed, SessionInv, BlobInv, Safe, risk \subseteq risk', UNCHANGED registry,
         NEW q \in Finals \cap DOMAIN req, complete_drop(q)
  PROVE  BlobInv'
<1>1. Effect(q) /\ req[q].pc = "drop" /\ Running(q)
  BY Moves_complete_drop DEF complete_drop, At, Running
<1>2. UNCHANGED <<dedup, arts, clean>> /\ session' = session
  BY DEF complete_drop, kvs
<1>3. ~Claimed(q) /\ LayersFit'
  BY <1>1, <1>2, LayersStay DEF Claimed, BlobInv
<1>4. CASE req[q].hit # None
  <2>1. Drops(q) /\ objs' = Blobs!delete(backend, objs, Target)
    BY <1>4 DEF complete_drop, Drops, Cuts, DeleteTarget
  <2>2. Touches({Target}) /\ ~Named(Target) /\ req'[q].pc = "chunks"
    BY <1>1, <1>4, <2>1, TouchesOne, DropsReq, Unnamed
  <2> QED
    BY <1>1, <1>2, <1>3, <2>2, FinalStep
<1>5. CASE req[q].hit = None
  <2>1. Goto(q, "chunks") /\ objs' = objs
    BY <1>5 DEF complete_drop
  <2>2. Touches({}) /\ req'[q].pc = "chunks" /\ req'[q].hit = None
    BY <1>5, <2>1, GotoReq DEF Touches, Steps
  <2> QED
    BY <1>1, <1>2, <1>3, <2>2, FinalStep
<1> QED
  BY <1>4, <1>5

LEMMA Blob_complete_chunks ==
  ASSUME Typed, SessionInv, BlobInv, Safe, risk \subseteq risk', UNCHANGED registry,
         NEW q \in Finals \cap DOMAIN req, complete_chunks(q)
  PROVE  BlobInv'
<1>1. Effect(q) /\ req[q].pc = "chunks" /\ Running(q) /\ Answer(q, "created")
  BY Moves_complete_chunks DEF complete_chunks, At, Running
<1>2. UNCHANGED <<dedup, arts, clean>> /\ session' = session
  BY DEF complete_chunks, kvs
<1>3. req[q].snap \in Session
  BY <1>1 DEF Typed, AtHand
<1>4. Touches(Chunks)
  BY <1>3, TouchesChunks DEF complete_chunks
<1>5. \A b \in Chunks : ~Named(b)
  BY Unnamed DEF Chunks
<1>6. req'[q].pc = "done" /\ ~Claimed(q) /\ LayersFit'
  BY <1>1, <1>2, AnswerReq, LayersStay DEF Claimed, BlobInv
<1> QED
  BY <1>1, <1>2, <1>4, <1>5, <1>6, FinalStep

\* A step of a monolithic upload that registers nothing.
LEMMA MonoKeeps ==
  ASSUME Typed, BlobInv, Safe, risk \subseteq risk', UNCHANGED registry, dedup' = dedup, clean' = clean, session' = session,
         NEW m \in Monos \cap DOMAIN req, Effect(m),
         \A s \in DOMAIN req \ {m} : req'[s] = req[s],
         Touches({m}), objs' = objs \/ ~Named(m), LayersFit',
         req'[m].pc = "claim" => objs'[m] = MonoContent[m],
         req'[m].pc = "record" => Backed(Chosen(m, m), MonoContent[m])',
         Named(m) => req'[m].pc \in {"record", "drop", "done"} /\ req'[m].hit = None
  PROVE  BlobInv'
<1>1. PICK ids : Touches(ids) /\ ids \subseteq {m} /\ \A b \in ids : ~Named(b)
  <2>1. CASE objs' = objs
    <3>1. Touches({})
      BY <2>1 DEF Touches
    <3> QED
      BY <3>1
  <2>2. CASE ~Named(m)
    BY <2>2
  <2> QED
    BY <2>1, <2>2
<1>2. \A o \in DOMAIN req \cap Monos :
         Named(o) => req'[o].pc \in {"record", "drop", "done"} /\ req'[o].hit = None
  BY Unnamed
<1>3. ids \subseteq Uploads \cup {Target} /\ DOMAIN req' = DOMAIN req
  BY <1>1 DEF Uploads, Effect
<1>4. DedupFits' /\ ManifestsFit' /\ OpsFit' /\ AnswersFit'
  BY <1>1, <1>2, <1>3, UploadKeeps
<1>5. \A o \in (DOMAIN req \cap Monos) \ {m} : objs'[o] = objs[o]
  BY DEF Touches, Typed, AtHand
<1>6. MonosFit'
  BY <1>3, <1>5, MonosStay DEF BlobInv
<1>7. FinalsFit' /\ OneFinal' /\ TargetKept'
  <2>1. objs'[Target] = objs[Target]
    BY UploadAssumption DEF Touches, Typed, AtHand, Uploads
  <2>2. \A q \in DOMAIN req \cap Finals : req'[q] = req[q]
    BY UploadAssumption
  <2>3. At(Post, "start")' => At(Post, "start")
    BY DEF At, Effect
  <2>4. Named(Target)' => Named(Target)
    BY DEF Named
  <2>5. clean'.got = clean.got /\ dedup \subseteq dedup' /\ (session' = None \/ session # None)
    OBVIOUS
  <2> QED
    BY <1>3, <2>1, <2>2, <2>3, <2>4, <2>5, FinalsStay
<1> QED
  BY <1>4, <1>6, <1>7 DEF BlobInv

LEMMA Blob_mono_write ==
  ASSUME Typed, BlobInv, Safe, risk \subseteq risk', UNCHANGED registry, NEW m \in Monos \cap DOMAIN req,
         mono_write(m) \/ mono_abort(m)
  PROVE  BlobInv'
<1>1. Effect(m) /\ req[m].pc = "start"
  BY Moves_mono_write, Moves_mono_abort DEF mono_write, mono_abort, At
<1>2. UNCHANGED <<dedup, arts, clean>> /\ session' = session
  BY DEF mono_write, mono_abort, kvs
<1>3. Touches({m}) /\ ~Named(m)
  BY <1>1, TouchesOne, Unnamed DEF mono_write, mono_abort
<1>4. LayersFit'
  BY <1>2, LayersStay DEF BlobInv
<1>5. CASE mono_write(m)
  <2>1. req'[m].pc = "claim" /\ \A s \in DOMAIN req \ {m} : req'[s] = req[s]
    BY <1>5, GotoReq DEF mono_write, Steps
  <2>2. objs'[m] = MonoContent[m]
    BY <1>5, HasObject DEF mono_write, Typed, RegistryTypeOK, UploadTypeOK, AtHand
  <2> QED
    BY <1>1, <1>2, <1>3, <1>4, <2>1, <2>2, MonoKeeps
<1>6. CASE mono_abort(m)
  <2>1. req'[m].pc = "done" /\ \A s \in DOMAIN req \ {m} : req'[s] = req[s]
    BY <1>6, AnswerReq DEF mono_abort
  <2> QED
    BY <1>1, <1>2, <1>3, <1>4, <2>1, MonoKeeps
<1> QED
  BY <1>5, <1>6

LEMMA Blob_mono_claim ==
  ASSUME Typed, BlobInv, Safe, risk \subseteq risk', UNCHANGED registry, NEW m \in Monos \cap DOMAIN req, mono_claim(m)
  PROVE  BlobInv'
<1>1. Effect(m) /\ req[m].pc = "claim"
  BY Moves_mono_claim DEF mono_claim, At
<1>2. UNCHANGED <<arts, clean>> /\ session' = session /\ objs' = objs
  BY DEF mono_claim
<1>3. m \in BlobIds /\ None \notin BlobIds /\ m # Target
  BY UploadAssumption DEF BlobIds, Uploads
<1>4. /\ req'[m].pc = "record"
      /\ \A s \in DOMAIN req \ {m} : req'[s] = req[s]
      /\ \/ /\ req'[m].hit = None /\ dedup' = dedup \cup {BlobRecord(Repo, MonoContent[m], m)}
         \/ /\ \E d \in dedup : d.digest = MonoContent[m] /\ req'[m].hit = d.blob
            /\ dedup' = dedup
  BY <1>3, ClaimReq DEF mono_claim
<1>5. objs[m] = MonoContent[m] /\ ~Named(m) /\ DOMAIN req' = DOMAIN req
  BY <1>1, Unnamed DEF BlobInv, MonosFit, Effect
<1>6. dedup \subseteq dedup'
  BY <1>4
<1>7. LayersFit'
  BY <1>2, <1>6, LayersStay DEF BlobInv
<1>8. CASE req'[m].hit = None /\ dedup' = dedup \cup {BlobRecord(Repo, MonoContent[m], m)}
  <2>1. \A o \in DOMAIN req \cap Monos :
          Named(o) \/ o = m => req'[o].pc \in {"record", "drop", "done"} /\ req'[o].hit = None
    BY <1>4, <1>8, Unnamed
  <2>2. DedupFits' /\ ManifestsFit' /\ OpsFit' /\ AnswersFit'
    BY <1>2, <1>5, <1>8, <2>1, UploadRegisters
  <2>3. Backed(m, MonoContent[m])'
    <3>1. BlobRecord(Repo, MonoContent[m], m) \in dedup'
      BY <1>8
    <3> QED
      BY <3>1, BlobRecordFields DEF Backed
  <2>4. Chosen(m, m)' = m
    BY <1>8 DEF Chosen
  <2>5. MonosFit'
    BY <1>2, <1>4, <1>5, <1>6, <2>3, <2>4, MonosStay DEF BlobInv
  <2>6. FinalsFit' /\ OneFinal' /\ TargetKept'
    <3>1. \A q \in DOMAIN req \cap Finals : req'[q] = req[q]
      BY <1>4, UploadAssumption
    <3>2. At(Post, "start")' => At(Post, "start")
      BY <1>1 DEF At, Effect
    <3>3. Named(Target)' => Named(Target)
      BY <1>3, <1>8, MoreBlobs DEF Named
    <3> QED
      BY <1>2, <1>5, <1>6, <3>1, <3>2, <3>3, FinalsStay
  <2> QED
    BY <1>7, <2>2, <2>5, <2>6 DEF BlobInv
<1>9. CASE /\ \E d \in dedup : d.digest = MonoContent[m] /\ req'[m].hit = d.blob
           /\ dedup' = dedup
  <2>1. PICK d \in dedup : d.digest = MonoContent[m] /\ req'[m].hit = d.blob
    BY <1>9
  <2>2. d.blob # None
    BY <1>3, RecordKinds
  <2>3. Chosen(m, m)' = d.blob
    BY <2>1, <2>2 DEF Chosen
  <2>4. Backed(Chosen(m, m), MonoContent[m])'
    BY <1>9, <2>1, <2>3 DEF Backed
  <2>5. Touches({m})
    BY <1>2 DEF Touches
  <2> QED
    BY <1>1, <1>2, <1>4, <1>5, <1>7, <1>9, <2>4, <2>5, MonoKeeps
<1> QED
  BY <1>4, <1>8, <1>9

LEMMA Blob_mono_record ==
  ASSUME Typed, BlobInv, Safe, risk \subseteq risk', UNCHANGED registry, NEW m \in Monos \cap DOMAIN req, mono_record(m)
  PROVE  BlobInv'
<1>1. Effect(m) /\ req[m].pc = "record" /\ Goto(m, "drop")
  BY Moves_mono_record DEF mono_record, At
<1>2. UNCHANGED <<dedup, clean>> /\ session' = session /\ objs' = objs
  BY DEF mono_record
<1>3. Commit(MonoContent[m], Chosen(m, m)) /\ Backed(Chosen(m, m), MonoContent[m])
  BY <1>1 DEF mono_record, BlobInv, MonosFit
<1>4. LayersFit'
  BY <1>2, <1>3, Committed DEF BlobInv
<1>5. req'[m].pc = "drop" /\ req'[m].hit = req[m].hit /\ \A s \in DOMAIN req \ {m} : req'[s] = req[s]
  BY <1>1, GotoReq DEF Steps
<1>6. Named(m) => req[m].hit = None
  BY Unnamed
<1>7. Touches({m})
  BY <1>2 DEF Touches
<1> QED
  BY <1>1, <1>2, <1>4, <1>5, <1>6, <1>7, MonoKeeps

\* The duplicate is deleted only when another blob was registered before.
LEMMA Blob_mono_drop ==
  ASSUME Typed, BlobInv, Safe, risk \subseteq risk', UNCHANGED registry, NEW m \in Monos \cap DOMAIN req, mono_drop(m)
  PROVE  BlobInv'
<1>1. Effect(m) /\ req[m].pc = "drop" /\ Answer(m, "created")
  BY Moves_mono_drop DEF mono_drop, At
<1>2. UNCHANGED <<dedup, arts, clean>> /\ session' = session
  BY DEF mono_drop, kvs
<1>3. objs' = objs \/ ~Named(m)
  BY Unnamed DEF mono_drop
<1>4. LayersFit' /\ Touches({m})
  BY <1>2, LayersStay, TouchesOne DEF mono_drop, BlobInv
<1>5. /\ req'[m].pc = "done" /\ req'[m].hit = None /\ \A s \in DOMAIN req \ {m} : req'[s] = req[s]
  BY <1>1, AnswerReq
<1> QED
  BY <1>1, <1>2, <1>3, <1>4, <1>5, MonoKeeps

\* A step of the cleanup worker, or of time, that leaves the session's blob alone.
LEMMA CleanQuiet ==
  ASSUME Typed, BlobInv, Safe, risk \subseteq risk', UNCHANGED registry, UNCHANGED <<dedup, arts, req>>,
         Touches(Chunks),
         clean'.got = None \/ clean'.got = clean.got \/ ((\A q \in Finals : ~Running(q)) /\ ~Named(Target)),
         session' = None \/ session # None \/ ~Named(Target)
  PROVE  BlobInv'
<1>1. DedupFits' /\ ManifestsFit' /\ OpsFit' /\ AnswersFit'
  <2>1. Chunks \subseteq Uploads \cup {Target} /\ \A b \in Chunks : ~Named(b)
    BY Unnamed DEF Chunks, Uploads
  <2> QED
    BY <2>1, Unnamed, UploadKeeps
<1>2. LayersFit'
  BY LayersStay DEF BlobInv
<1>3. Target \notin Chunks /\ \A m \in DOMAIN req \cap Monos : m \notin Chunks
  BY UploadAssumption DEF Chunks, Uploads
<1>4. objs'[Target] = objs[Target] /\ \A m \in DOMAIN req \cap Monos : objs'[m] = objs[m]
  BY <1>3 DEF Touches, Typed, AtHand
<1>5. MonosFit'
  <2>1. Target \notin Monos
    BY UploadAssumption DEF Uploads
  <2> QED
    BY <1>4, <2>1, MonosStay DEF BlobInv
<1>6. FinalsFit' /\ OneFinal' /\ TargetKept'
  <2>1. Named(Target)' => Named(Target)
    BY DEF Named
  <2>2. At(Post, "start")' => At(Post, "start")
    BY DEF At
  <2> QED
    BY <1>4, <2>1, <2>2, FinalsStay
<1> QED
  BY <1>1, <1>2, <1>5, <1>6 DEF BlobInv

\* The session is listed when no final PUT runs, so that its blob is nobody's yet.
LEMMA Blob_list_upload_sessions ==
  ASSUME Typed, BlobInv, Safe, risk \subseteq risk', Safe', UNCHANGED registry, list_upload_sessions
  PROVE  BlobInv'
<1>1. /\ UNCHANGED <<dedup, arts, req>> /\ objs' = objs /\ session' = session /\ session # None
  BY DEF list_upload_sessions, kvs
<1>2. \A q \in Finals : ~Running(q)
  BY DEF list_upload_sessions, Safe, UploadRisks
<1>3. ~Named(Target)
  <2>1. \A q \in Finals : ~Claimed(q)
    BY <1>2 DEF Claimed, Running
  <2> QED
    BY <1>1, <2>1 DEF BlobInv, TargetKept
<1>4. Touches(Chunks)
  BY <1>1 DEF Touches
<1> QED
  BY <1>1, <1>2, <1>3, <1>4, CleanQuiet

LEMMA Blob_cleanup_delete ==
  ASSUME Typed, BlobInv, Safe, risk \subseteq risk', UNCHANGED registry, cleanup_delete
  PROVE  BlobInv'
<1>1. UNCHANGED <<dedup, arts>> /\ session' = session
  BY DEF cleanup_delete, kvs
<1>2. clean'.got = clean.got /\ clean.got # None /\ clean.got \in Session \cup {None}
  BY DEF cleanup_delete, Typed, AtHand, Cleaner
<1>3. CASE /\ objs' = [b \in DOMAIN objs |->
                         IF \E i \in DOMAIN clean.got.chunks : clean.got.chunks[i] = b
                         THEN Absent ELSE objs[b]]
           /\ UNCHANGED req
  BY <1>1, <1>2, <1>3, TouchesChunks, CleanQuiet
<1>4. CASE DeleteTarget /\ UnlinkAll
  <2>1. /\ DOMAIN req' = DOMAIN req
        /\ \A s \in DOMAIN req : req'[s].pc = req[s].pc /\ req'[s].hit = req[s].hit
    BY <1>4, UnlinkReq
  <2>2. \A q \in Finals : ~Running(q)
    BY <1>2 DEF BlobInv, OneFinal
  <2>3. ~Named(Target)
    BY <1>2 DEF BlobInv, TargetKept
  <2>4. Touches({Target})
    BY <1>4, TouchesOne DEF DeleteTarget
  <2>5. DedupFits' /\ ManifestsFit' /\ OpsFit' /\ AnswersFit'
    BY <1>1, <2>1, <2>3, <2>4, Unnamed, UploadKeeps
  <2>6. LayersFit'
    BY <1>1, LayersStay DEF BlobInv
  <2>7. MonosFit'
    <3>1. Target \notin Monos
      BY UploadAssumption DEF Uploads
    <3>2. \A m \in DOMAIN req \cap Monos : objs'[m] = objs[m]
      BY <2>4, <3>1 DEF Touches, Typed, AtHand
    <3> QED
      BY <1>1, <2>1, <3>1, <3>2, MonosStay DEF BlobInv
  <2>8. FinalsFit' /\ OneFinal' /\ TargetKept'
    <3>1. \A q \in Finals : ~Running(q)'
      BY <2>1, <2>2 DEF Running
    <3>2. ~Named(Target)'
      BY <1>1, <2>3 DEF Named
    <3> QED
      BY <3>1, <3>2 DEF FinalsFit, OneFinal, TargetKept, Running
  <2> QED
    BY <2>5, <2>6, <2>7, <2>8 DEF BlobInv
<1> QED
  BY <1>3, <1>4 DEF cleanup_delete, UnlinkAll

LEMMA Blob_Upload ==
  ASSUME Typed, SessionInv, BlobInv, Safe, risk \subseteq risk', Safe', UploadNext, UNCHANGED registry
  PROVE  BlobInv'
<1>1. ASSUME NEW r \in DOMAIN req, check_docker_permission(r) \/ give_up(r) PROVE BlobInv'
  BY <1>1, Blob_check_docker_permission, Blob_give_up
<1>2. CASE start_session
  BY <1>2, Blob_start_session
<1>3. ASSUME NEW p \in Patches \cap DOMAIN req, PatchStep(p) PROVE BlobInv'
  BY <1>3, Blob_PatchStep
<1>4. ASSUME NEW q \in Finals \cap DOMAIN req, CompleteStep(q) PROVE BlobInv'
  BY <1>4, Blob_complete_read, Blob_complete_body, Blob_complete_create, Blob_complete_assemble,
     Blob_complete_verify, Blob_complete_claim, Blob_complete_record,
     Blob_delete_upload_session, Blob_complete_drop, Blob_complete_chunks DEF CompleteStep
<1>5. ASSUME NEW m \in Monos \cap DOMAIN req, MonoStep(m) PROVE BlobInv'
  BY <1>5, Blob_mono_write, Blob_mono_claim, Blob_mono_record, Blob_mono_drop DEF MonoStep
<1>6. CASE Age \/ cleanup_session
  <2>1. /\ UNCHANGED <<dedup, arts, req>> /\ objs' = objs
        /\ clean'.got = None \/ clean'.got = clean.got
        /\ session' = None \/ session # None \/ session' = session
    BY <1>6 DEF Age, cleanup_session
  <2>2. Touches(Chunks)
    BY <2>1 DEF Touches
  <2>3. session' = None \/ session # None
    BY <2>1
  <2> QED
    BY <2>1, <2>2, <2>3, CleanQuiet
<1>7. CASE list_upload_sessions \/ cleanup_delete
  BY <1>7, Blob_list_upload_sessions, Blob_cleanup_delete
<1> QED
  BY <1>1, <1>2, <1>3, <1>4, <1>5, <1>6, <1>7 DEF UploadNext, CleanStep

-----------------------------------------------------------------------------
(* Steps of the registry.                                                  *)

\* A step that leaves the uploads to themselves.
LEMMA UploadsAlone ==
  ASSUME Typed, BlobInv, UNCHANGED sessions, dedup \subseteq dedup', Named(Target)' => Named(Target),
         NEW ids, Touches(ids), ids \cap (Monos \cup {Target}) = {}
  PROVE  MonosFit' /\ FinalsFit' /\ OneFinal' /\ TargetKept'
<1>1. UNCHANGED <<session, req, clean>>
  BY DEF sessions
<1>2. objs'[Target] = objs[Target] /\ \A m \in DOMAIN req \cap Monos : objs'[m] = objs[m]
  BY DEF Touches, Typed, AtHand
<1>3. MonosFit'
  <2>1. Target \notin Monos
    BY UploadAssumption DEF Uploads
  <2> QED
    BY <1>1, <1>2, <2>1, MonosStay DEF BlobInv
<1>4. At(Post, "start")' => At(Post, "start")
  BY <1>1 DEF At
<1>5. session' = None \/ session # None
  BY <1>1
<1>6. FinalsFit' /\ OneFinal' /\ TargetKept'
  BY <1>1, <1>2, <1>4, <1>5, FinalsStay
<1> QED
  BY <1>3, <1>6

\* The answer of one request.

\* A request's own blob id is registered from its claim on.
LEMMA OpUnnamed ==
  ASSUME Typed, BlobInv, NEW o \in DOMAIN ops
  PROVE  /\ o \in Ops /\ o \in DOMAIN objs /\ o \notin Monos \cup {Target} \cup OtherIds
         /\ o \notin Patches \cup Finals \cup {Post}
         /\ Named(o) => /\ ops[o].pc \in {"tag", "manifest", "layer record", "done"}
                        /\ ops[o].pc = "layer record" => ops[o].blob = o
<1>1. o \in Ops /\ o \in DOMAIN objs
  BY DEF Typed, RegistryTypeOK, AtHand
<1>2. o \notin Monos \cup {Target} \cup OtherIds /\ o \notin Patches \cup Finals \cup {Post}
  BY <1>1, UploadAssumption DEF Uploads
<1> QED
  BY <1>1, <1>2 DEF BlobInv, DedupFits, Registers, Named

LEMMA OpFacts ==
  ASSUME Typed, BlobInv, Safe, NEW o \in DOMAIN ops
  PROVE  OpFits(o) /\ AnswerFits(o)
BY DEF BlobInv, OpsFit, AnswersFit

\* What is registered has its content.
LEMMA BackedHolds ==
  ASSUME BlobInv, NEW blob, NEW content, Backed(blob, content)
  PROVE  blob \in DOMAIN objs /\ objs[blob] = content /\ Named(blob)
BY DEF BlobInv, DedupFits, Registers, Backed, Named

\* What a step of o may do to the blobs.
OpTouches(o) ==
    /\ DOMAIN objs' = DOMAIN objs
    /\ \A b \in DOMAIN objs : objs'[b] # objs[b] => b \in {o} \cup OtherIds /\ ~Named(b)

LEMMA OpKeeps ==
  ASSUME Typed, BlobInv, Safe, risk \subseteq risk', NEW o \in DOMAIN ops, OpEffect(o), UNCHANGED sessions, OpTouches(o),
         dedup \subseteq dedup',
         \A d \in dedup' : d \in dedup \/ (Registers(d)' /\ (d.blob = Target => Named(Target))),
         Named(o) => /\ ops'[o].pc \in {"tag", "manifest", "layer record", "done"}
                     /\ ops'[o].pc = "layer record" => ops'[o].blob = o,
         LayersFit', ManifestsFit', OpFits(o)', AnswerFits(o)'
  PROVE  BlobInv'
<1>1. o \in Ops /\ o \notin Monos \cup {Target} \cup OtherIds
  BY OpUnnamed
<1>2. req' = req
  BY DEF sessions
<1>3. ASSUME NEW d \in dedup PROVE Registers(d)'
  <2>1. Registers(d) /\ Named(d.blob)
    BY DEF BlobInv, DedupFits, Named
  <2>2. objs'[d.blob] = objs[d.blob] /\ DOMAIN objs' = DOMAIN objs
    BY <2>1 DEF OpTouches, Registers
  <2>3. d.blob \in Ops => /\ ops'[d.blob].pc \in {"tag", "manifest", "layer record", "done"}
                          /\ ops'[d.blob].pc = "layer record" => ops'[d.blob].blob = d.blob
                          /\ DOMAIN ops' = DOMAIN ops
    <3>1. CASE d.blob = o
      BY <2>1, <3>1 DEF OpEffect
    <3>2. CASE d.blob # o
      BY <2>1, <3>2 DEF OpEffect, Registers
    <3> QED
      BY <3>1, <3>2
  <2>4. d.blob \in Monos => req[d.blob].pc \in {"record", "drop", "done"} /\ req[d.blob].hit = None
    BY <2>1 DEF Registers
  <2> QED
    BY <1>2, <2>1, <2>2, <2>3, <2>4, RegisteredStays
<1>4. DedupFits'
  BY <1>3 DEF DedupFits
<1>5. OpsFit'
  <2> SUFFICES ASSUME NEW p \in DOMAIN ops, p # o PROVE OpFits(p)'
    BY DEF OpsFit, OpEffect
  <2>1. OpFits(p) /\ p \notin OtherIds /\ p \in DOMAIN objs
    BY OpFacts, OpUnnamed
  <2>2. ops'[p] = ops[p] /\ objs'[p] = objs[p]
    BY <2>1 DEF OpEffect, OpTouches
  <2> QED
    BY <2>1, <2>2, BackedGrows DEF OpFits, Kind, Passes, Route
<1>6. AnswersFit'
  <2>1. \A p \in DOMAIN ops' : AnswerFits(p)'
    <3> SUFFICES ASSUME NEW p \in DOMAIN ops, p # o PROVE AnswerFits(p)'
      BY DEF OpEffect
    <3>1. AnswerFits(p) /\ ops'[p] = ops[p]
      BY OpFacts DEF OpEffect
    <3> QED
      BY <3>1 DEF AnswerFits, Kind, Passes, Route
  <2> QED
    BY <2>1 DEF AnswersFit
<1>7. MonosFit' /\ FinalsFit' /\ OneFinal' /\ TargetKept'
  <2>1. Touches({o} \cup OtherIds)
    BY DEF OpTouches, Touches
  <2>2. ({o} \cup OtherIds) \cap (Monos \cup {Target}) = {}
    BY <1>1, UploadAssumption DEF Uploads
  <2>3. Named(Target)' => Named(Target)
    BY DEF Named
  <2> QED
    BY <2>1, <2>2, <2>3, UploadsAlone
<1> QED
  BY <1>4, <1>5, <1>6, <1>7 DEF BlobInv

\* A step of o that touches no blob and registers none.
LEMMA OpQuiet ==
  ASSUME Typed, BlobInv, Safe, risk \subseteq risk', NEW o \in DOMAIN ops, OpEffect(o), UNCHANGED sessions,
         objs' = objs, dedup' = dedup, LayersFit', ManifestsFit', OpFits(o)', AnswerFits(o)',
         ops'[o].pc \in {"manifest", "done"} \/ ops[o].pc \notin {"tag", "manifest", "layer record", "done"}
  PROVE  BlobInv'
<1>1. OpTouches(o)
  BY DEF OpTouches
<1>2. Named(o) => ops'[o].pc \in {"manifest", "done"}
  BY OpUnnamed
<1> QED
  BY <1>1, <1>2, OpKeeps

\* Answers and steps that have nothing to show of blobs.
Idle == {"start", "done"}

LEMMA OpReads ==
  ASSUME Typed, BlobInv, Safe, risk \subseteq risk', NEW o \in DOMAIN ops, OpEffect(o), UNCHANGED sessions,
         ops[o].pc = "start", ops'[o].pc \in Idle, AnswerFits(o)',
         objs' = objs, dedup' = dedup, arts' = arts, manifests' = manifests
  PROVE  BlobInv'
<1>1. LayersFit' /\ ManifestsFit'
  BY LayersStay, BackedGrows DEF BlobInv, ManifestsFit
<1>2. OpFits(o)'
  BY DEF OpFits, Idle, Kind, Passes, Route
<1> QED
  BY <1>1, <1>2, OpQuiet

\* What a hosted or a cached read finds is what was asked for.
LEMMA ManifestRight ==
  ASSUME NEW repo, NEW o, Ask[o].tag = None
  PROVE  get_manifest(repo, o) \in {None, Ask[o].digest}
BY DEF get_manifest, get_manifest_by_digest

LEMMA BlobRight ==
  ASSUME BlobInv, NEW repo, NEW digest
  PROVE  open_blob(repo, digest) \in {None, digest}
<1>1. CASE \E a \in LayerOf(repo, digest) : Holds(repo, a.blob) # Absent
  <2>1. PICK a \in LayerOf(repo, digest) : Holds(repo, a.blob) # Absent
    BY <1>1
  <2>2. a \in arts /\ a.digest = digest /\ \A b \in LayerOf(repo, digest) : b = a
    BY DEF LayerOf, BlobInv, LayersFit
  <2>3. (CHOOSE b \in LayerOf(repo, digest) : TRUE) = a
    BY <2>2
  <2>4. Holds(repo, a.blob) = objs[a.blob]
    BY <2>1 DEF Holds
  <2>5. objs[a.blob] = digest
    BY <2>2, BackedHolds DEF BlobInv, LayersFit
  <2> QED
    BY <1>1, <2>3, <2>4, <2>5 DEF open_blob
<1>2. CASE ~\E a \in LayerOf(repo, digest) : Holds(repo, a.blob) # Absent
  BY <1>2 DEF open_blob
<1> QED
  BY <1>1, <1>2


\* A step that ends with an answer.
Right(o, what) ==
    (Kind(o) \in {"get blob", "get manifest"} /\ Ask[o].tag = None)
    => \/ what \in {None, Ask[o].digest, "not found", "error"}
       \/ "uncompared" \in risk /\ Kind(o) = "get manifest" /\ Passes(o)

LEMMA RightReply ==
  ASSUME Typed, risk \subseteq risk', NEW o \in DOMAIN ops, NEW what, Reply(o, what), Right(o, what)
  PROVE  AnswerFits(o)' /\ ops'[o].pc = "done" /\ OpEffect(o)
BY ReplyOps, ReplyEffect DEF AnswerFits, Right, Kind, Passes, Route

LEMMA Blob_Serves ==
  ASSUME Typed, BlobInv, Safe, risk \subseteq risk', NEW o \in DOMAIN ops,
         \/ do_get_manifest(o) \/ do_head_manifest(o) \/ do_get_blob(o) \/ do_head_blob(o)
         \/ proxy_get_manifest(o) \/ proxy_head_manifest(o)
         \/ proxy_get_blob(o) \/ proxy_head_blob(o) \/ not_found(o)
  PROVE  BlobInv'
<1>1. ops[o].pc = "start" /\ UNCHANGED reads
  BY HostedServes DEF Serves
<1>2. \/ NextMember(o)
      \/ \E what : /\ Reply(o, what)
                   /\ Right(o, what)
  <2>1. CASE not_found(o)
    BY <2>1 DEF not_found, Right
  <2>2. CASE \/ do_get_manifest(o) \/ do_head_manifest(o)
             \/ proxy_get_manifest(o) \/ proxy_head_manifest(o)
    BY <2>2, ManifestRight DEF do_get_manifest, do_head_manifest, proxy_get_manifest,
       proxy_head_manifest, ServeManifest, Right
  <2>3. CASE do_get_blob(o) \/ proxy_get_blob(o)
    BY <2>3, BlobRight DEF do_get_blob, proxy_get_blob, ServeBlob, Right
  <2>4. CASE do_head_blob(o) \/ proxy_head_blob(o)
    BY <2>4 DEF do_head_blob, proxy_head_blob, ServeBlob, Right
  <2> QED
    BY <2>1, <2>2, <2>3, <2>4
<1>3. /\ UNCHANGED sessions /\ objs' = objs /\ dedup' = dedup /\ arts' = arts /\ manifests' = manifests
  BY <1>1 DEF reads, upload, sessions
<1>4. OpEffect(o) /\ ops'[o].pc \in Idle /\ AnswerFits(o)'
  <2>1. CASE NextMember(o)
    <3>1. AnswerFits(o)
      BY OpFacts
    <3> QED
      BY <1>1, <2>1, <3>1, NextOps, NextEffect DEF Idle, AnswerFits, Kind, Passes, Route
  <2>2. ASSUME NEW what, Reply(o, what),
               Right(o, what)
        PROVE  OpEffect(o) /\ ops'[o].pc \in Idle /\ AnswerFits(o)'
    BY <2>2, RightReply DEF Idle
  <2> QED
    BY <1>2, <2>1, <2>2
<1> QED
  BY <1>1, <1>3, <1>4, OpReads

\* A request that goes to fetch a manifest, or is answered.
LEMMA Blob_cache_manifest ==
  ASSUME Typed, BlobInv, Safe, risk \subseteq risk', NEW o \in DOMAIN ops, cache_get_manifest(o) \/ cache_head_manifest(o)
  PROVE  BlobInv'
<1>1. /\ ops[o].pc = "start" /\ Kind(o) \in {"get manifest", "head manifest"} /\ Passes(o)
  BY DEF cache_get_manifest, cache_head_manifest, Reading, OpAt, Passes, Member
<1>2. UNCHANGED sessions /\ objs' = objs /\ dedup' = dedup /\ arts' = arts /\ manifests' = manifests
  BY DEF cache_get_manifest, cache_head_manifest
<1> DEFINE Sends(sent) ==
             /\ sent \in IF Ask[o].tag = None THEN Images \cup {Ask[o].digest} ELSE {upstream}
             /\ Ask[o].tag = None /\ sent # Ask[o].digest => "uncompared" \in risk'
<1>4. \/ \E sent : Takes(o, "blob", sent) /\ Sends(sent)
      \/ NextMember(o)
      \/ \E what : Reply(o, what) /\ Right(o, what)
  <2>1. ASSUME NEW stale, stale \in {None, get_manifest(Cache, o)}, fetch_upstream_manifest(o, stale)
        PROVE  \/ \E sent : Takes(o, "blob", sent) /\ Sends(sent)
               \/ NextMember(o)
               \/ \E what : Reply(o, what) /\ Right(o, what)
    <3>1. ASSUME NEW what, what = (IF stale # None THEN stale ELSE "error") PROVE Right(o, what)
      BY <2>1, <3>1, ManifestRight DEF Right
    <3>2. CASE Fails /\ Reply(o, IF stale # None THEN stale ELSE "error")
      BY <3>1, <3>2
    <3> QED
      BY <2>1, <3>2 DEF fetch_upstream_manifest, Takes
  <2>2. CASE Reply(o, get_manifest(Cache, o))
    BY <2>2, ManifestRight DEF Right
  <2> QED
    BY <2>1, <2>2 DEF cache_get_manifest, cache_head_manifest
<1>5. ASSUME NEW digest, Takes(o, "blob", digest), Sends(digest)
      PROVE  BlobInv'
  <2>1. "blob" \in OpSteps
    BY DEF OpSteps
  <2>2. /\ ops'[o].pc = "blob" /\ ops'[o].digest = digest /\ ops'[o].answer = ops[o].answer
        /\ \E W : OpsIn(W)'
        /\ DOMAIN ops' = DOMAIN ops /\ \A p \in DOMAIN ops \ {o} : ops'[p] = ops[p]
    BY <1>5, <2>1, TakesOps
  <2>3. digest \in Manifests
    <3>1. o \in Ops /\ upstream \in Manifests
      BY DEF Typed, RegistryTypeOK, Manifests
    <3> QED
      BY <1>1, <1>5, <3>1, RegistryAssumption DEF Kind, Manifests
  <2>4. OpEffect(o)
    BY <2>2, <2>3 DEF OpEffect
  <2>5. AnswerFits(o)'
    BY <2>2, OpFacts DEF AnswerFits, Kind, Passes, Route
  <2>6. OpFits(o)'
    BY <1>1, <1>5, <2>2 DEF OpFits, Kind, Passes, Route
  <2>7. LayersFit' /\ ManifestsFit'
    BY <1>2, LayersStay, BackedGrows DEF BlobInv, ManifestsFit
  <2> QED
    BY <1>1, <1>2, <2>4, <2>5, <2>6, <2>7, OpQuiet
<1>6. CASE NextMember(o)
  <2>1. AnswerFits(o)' /\ OpEffect(o) /\ ops'[o].pc \in Idle
    BY <1>1, <1>6, OpFacts, NextOps, NextEffect DEF AnswerFits, Idle, Kind, Passes, Route
  <2> QED
    BY <1>1, <1>2, <2>1, OpReads
<1>7. ASSUME NEW what, Reply(o, what), Right(o, what)
      PROVE  BlobInv'
  <2>1. AnswerFits(o)' /\ OpEffect(o) /\ ops'[o].pc \in Idle
    BY <1>7, RightReply DEF Idle
  <2> QED
    BY <1>1, <1>2, <2>1, OpReads
<1> QED
  BY <1>4, <1>5, <1>6, <1>7

\* A HEAD that stores what it did not compare says so.
LEMMA Blob_cache_blob ==
  ASSUME Typed, BlobInv, Safe, risk \subseteq risk', Safe', NEW o \in DOMAIN ops, cache_get_blob(o) \/ cache_head_blob(o)
  PROVE  BlobInv'
<1>1. ops[o].pc = "start"
  BY DEF cache_get_blob, cache_head_blob, Reading, OpAt
<1>2. UNCHANGED sessions /\ dedup' = dedup /\ arts' = arts /\ manifests' = manifests
  BY DEF cache_get_blob, cache_head_blob
<1>3. "unverified" \notin risk'
  BY DEF Safe
<1>4. \/ objs' = Blobs!put(backend, objs, o, Ask[o].digest) /\ OpGoto(o, "layer claim")
      \/ NextMember(o) /\ objs' = objs
      \/ \E what : /\ Reply(o, what) /\ objs' = objs
                   /\ Ask[o].tag = None => what \in {None, Ask[o].digest, "not found", "error"}
  <2>1. CASE cache_get_blob(o)
    BY <2>1, BlobRight DEF cache_get_blob, fetch_upstream_blob_to_writer
  <2>2. CASE cache_head_blob(o)
    BY <1>3, <2>2 DEF cache_head_blob, fetch_upstream_blob_to_writer
  <2> QED
    BY <2>1, <2>2
<1>5. CASE objs' = Blobs!put(backend, objs, o, Ask[o].digest) /\ OpGoto(o, "layer claim")
  <2>1. "layer claim" \in OpSteps
    BY DEF OpSteps
  <2>2. /\ ops'[o].pc = "layer claim" /\ ops'[o].answer = ops[o].answer
        /\ \E W : OpsIn(W)'
        /\ DOMAIN ops' = DOMAIN ops /\ \A p \in DOMAIN ops \ {o} : ops'[p] = ops[p]
    BY <1>5, <2>1, GotoOps
  <2>3. OpEffect(o)
    BY <2>2 DEF OpEffect
  <2>4. backend \in Blobs!Backends /\ o \in DOMAIN objs /\ ~Named(o)
    BY <1>1, OpUnnamed DEF Typed, RegistryTypeOK, UploadTypeOK
  <2>5. objs'[o] = Ask[o].digest
    BY <1>5, <2>4, HasObject
  <2>6. OpTouches(o)
    <3>1. Touches({o})
      BY <1>5, TouchesOne
    <3> QED
      BY <2>4, <3>1 DEF Touches, OpTouches
  <2>7. OpFits(o)' /\ AnswerFits(o)'
    BY <2>2, <2>5, OpFacts DEF OpFits, AnswerFits, Kind, Passes, Route
  <2>8. LayersFit' /\ ManifestsFit'
    BY <1>2, LayersStay, BackedGrows DEF BlobInv, ManifestsFit
  <2> QED
    BY <1>2, <2>3, <2>4, <2>6, <2>7, <2>8, OpKeeps
<1>6. CASE NextMember(o) /\ objs' = objs
  <2>1. AnswerFits(o)' /\ OpEffect(o) /\ ops'[o].pc \in Idle
    BY <1>1, <1>6, OpFacts, NextOps, NextEffect DEF AnswerFits, Idle, Kind, Passes, Route
  <2> QED
    BY <1>1, <1>2, <1>6, <2>1, OpReads
<1>7. ASSUME NEW what, Reply(o, what), objs' = objs,
             Ask[o].tag = None => what \in {None, Ask[o].digest, "not found", "error"}
      PROVE  BlobInv'
  <2>1. AnswerFits(o)' /\ OpEffect(o) /\ ops'[o].pc \in Idle
    BY <1>7, RightReply DEF Idle, Right
  <2> QED
    BY <1>1, <1>2, <1>7, <2>1, OpReads
<1> QED
  BY <1>4, <1>5, <1>6, <1>7

\* One more registration.
Adds(store, content, blob) == dedup' = dedup \cup {BlobRecord(store, content, blob)}

LEMMA OneMore ==
  ASSUME NEW store, NEW content, NEW blob, Adds(store, content, blob)
  PROVE  /\ dedup \subseteq dedup'
         /\ \A d \in dedup' : d \in dedup \/ (d.digest = content /\ d.blob = blob)
         /\ \E d \in dedup' : d.blob = blob /\ d.digest = content
<1>1. /\ BlobRecord(store, content, blob).blob = blob
      /\ BlobRecord(store, content, blob).digest = content
  BY DEF BlobRecord
<1> QED
  BY <1>1 DEF Adds

\* The steps of a request whose own blob is registered.
Keeps(o) == /\ ops[o].pc \in {"tag", "manifest", "layer record", "done"}
            /\ ops[o].pc = "layer record" => ops[o].blob = o

LEMMA OpRegisters ==
  ASSUME Typed, BlobInv, NEW o \in DOMAIN ops, NEW content, objs[o] = content, objs' = objs,
         Adds(Repo, content, o), DOMAIN ops' = DOMAIN ops,
         Keeps(o)'
  PROVE  \A d \in dedup' : d \in dedup \/ (Registers(d)' /\ (d.blob = Target => Named(Target)))
<1> SUFFICES ASSUME NEW d \in dedup', d \notin dedup PROVE Registers(d)' /\ d.blob # Target
  OBVIOUS
<1>1. d.digest = content /\ d.blob = o
  BY OneMore
<1> QED
  BY <1>1, OpUnnamed DEF Registers, Keeps

\* What is claimed on the way to a manifest's or a layer's record.
Written(o, pc, content) ==
    /\ pc = "tag" => content = <<ops[o].digest>> /\ ops[o].pc = "claim"
    /\ pc = "layer record" => content = Ask[o].digest

\* The claim of what a request has written under its own id.
LEMMA OpClaims ==
  ASSUME Typed, BlobInv, Safe, risk \subseteq risk', NEW o \in DOMAIN ops, NEW content, NEW pc \in ClaimSteps,
         UNCHANGED sessions, arts' = arts, manifests' = manifests,
         ~Named(o), objs[o] = content,
         Written(o, pc, content),
         \/ Adds(Repo, content, o) /\ Finds(o, pc, o) /\ objs' = objs
         \/ /\ \E d \in Registered(Repo, content) : Finds(o, pc, d.blob)
            /\ dedup' = dedup /\ OpTouches(o)
  PROVE  BlobInv'
<1>1. OpEffect(o)
  <2>1. pc = "tag" => ops[o].digest \in Manifests
    BY DEF Typed, AtHand, Written
  <2>2. \/ dedup' = dedup \cup {BlobRecord(Repo, content, o)} /\ Finds(o, pc, o)
        \/ /\ \E d \in Registered(Repo, content) : Finds(o, pc, d.blob)
           /\ UNCHANGED dedup
    BY DEF Adds
  <2> QED
    BY <2>1, <2>2, ClaimEffect
<1>2. PICK blob : /\ Finds(o, pc, blob) /\ Backed(blob, content)'
                  /\ \/ blob = o /\ Adds(Repo, content, o) /\ objs' = objs
                     \/ dedup' = dedup /\ OpTouches(o)
  <2>1. CASE Adds(Repo, content, o) /\ Finds(o, pc, o) /\ objs' = objs
    <3>1. Backed(o, content)'
      BY <2>1, OneMore DEF Backed
    <3> QED
      BY <2>1, <3>1
  <2>2. CASE /\ \E d \in Registered(Repo, content) : Finds(o, pc, d.blob)
             /\ dedup' = dedup /\ OpTouches(o)
    <3>1. PICK d \in Registered(Repo, content) : Finds(o, pc, d.blob)
      BY <2>2
    <3>2. Backed(d.blob, content)'
      BY <2>2 DEF Registered, Backed
    <3> QED
      BY <2>2, <3>1, <3>2
  <2> QED
    BY <2>1, <2>2
<1>3. pc \in OpSteps
  BY DEF OpSteps, ClaimSteps
<1>4. /\ ops'[o].pc = pc /\ ops'[o].blob = blob /\ ops'[o].digest = ops[o].digest
      /\ ops'[o].answer = ops[o].answer /\ DOMAIN ops' = DOMAIN ops
  BY <1>2, <1>3, FindsOps
<1>5. dedup \subseteq dedup'
  BY <1>2, OneMore
<1>6. LayersFit' /\ ManifestsFit'
  BY <1>5, LayersStay, BackedGrows DEF BlobInv, ManifestsFit
<1>7. AnswerFits(o)' /\ OpFits(o)'
  BY <1>2, <1>4, OpFacts DEF AnswerFits, OpFits, ClaimSteps, Written, Kind, Passes, Route
<1>8. OpTouches(o)
  BY <1>2 DEF OpTouches
<1>9. \A d \in dedup' : d \in dedup \/ (Registers(d)' /\ (d.blob = Target => Named(Target)))
  <2>1. CASE dedup' = dedup
    BY <2>1
  <2>2. CASE blob = o /\ Adds(Repo, content, o) /\ objs' = objs
    BY <1>4, <2>2, OpRegisters DEF Keeps, ClaimSteps
  <2> QED
    BY <1>2, <2>1, <2>2
<1> QED
  BY <1>1, <1>4, <1>5, <1>6, <1>7, <1>8, <1>9, OpKeeps DEF ClaimSteps

LEMMA Blob_put_cached_blob ==
  ASSUME Typed, BlobInv, Safe, risk \subseteq risk', NEW o \in DOMAIN ops, put_cached_blob(o)
  PROVE  BlobInv'
<1>1. UNCHANGED sessions /\ manifests' = manifests
  BY DEF put_cached_blob
<1>2. CASE OpAt(o, "layer claim")
  <2>1. arts' = arts /\ objs' = objs
    BY <1>2 DEF put_cached_blob, OpAt
  <2>2. \/ dedup' = dedup \cup {BlobRecord(Repo, objs[o], o)} /\ Finds(o, "layer record", o)
        \/ /\ \E d \in Registered(Repo, objs[o]) : Finds(o, "layer record", d.blob)
           /\ dedup' = dedup
    BY <1>2 DEF put_cached_blob, OpAt, Finds
  <2>3. ~Named(o) /\ objs[o] = Ask[o].digest
    BY <1>2, OpUnnamed, OpFacts DEF OpAt, OpFits, Kind, Passes, Route
  <2>4. OpTouches(o)
    BY <2>1 DEF OpTouches
  <2> QED
    BY <1>1, <2>1, <2>2, <2>3, <2>4, OpClaims DEF Adds, ClaimSteps, Written
<1>3. CASE OpAt(o, "layer record")
  <2>1. /\ SetLayer(Cache, Ask[o].digest, ops[o].blob, FALSE) /\ dedup' = dedup
        /\ objs' = IF ops[o].blob # o THEN Blobs!delete(backend, objs, o) ELSE objs
    BY <1>3 DEF put_cached_blob, OpAt
  <2>2. PICK what : Reply(o, what) /\ what \in {objs[ops[o].blob], Ask[o].digest}
    BY <1>3 DEF put_cached_blob, OpAt
  <2>3. Backed(ops[o].blob, Ask[o].digest)
    BY <1>3, OpFacts DEF OpAt, OpFits, Kind, Passes, Route
  <2>4. objs[ops[o].blob] = Ask[o].digest
    BY <2>3, BackedHolds
  <2>5. AnswerFits(o)' /\ ops'[o].pc = "done" /\ OpEffect(o)
    BY <2>2, <2>4, RightReply DEF Right
  <2>6. OpTouches(o)
    <3>1. Touches({o})
      BY <2>1, TouchesOne
    <3>2. ops[o].blob # o => ~Named(o)
      BY <1>3, OpUnnamed DEF OpAt
    <3> QED
      BY <2>1, <3>1, <3>2 DEF Touches, OpTouches
  <2>7. LayersFit'
    <3>1. PICK blob : blob = ops[o].blob
      OBVIOUS
    <3>2. Backed(blob, Ask[o].digest)'
      BY <2>1, <2>3, <3>1 DEF Backed
    <3> QED
      BY <2>1, <3>1, <3>2, LayersPut DEF BlobInv
  <2>8. ManifestsFit' /\ OpFits(o)'
    BY <1>1, <2>1, <2>5, BackedGrows DEF BlobInv, ManifestsFit, OpFits, Kind, Passes, Route
  <2> QED
    BY <1>1, <2>1, <2>5, <2>6, <2>7, <2>8, OpKeeps
<1> QED
  BY <1>2, <1>3 DEF put_cached_blob

LEMMA Blob_do_put_manifest ==
  ASSUME Typed, BlobInv, Safe, risk \subseteq risk', NEW o \in DOMAIN ops, do_put_manifest(o)
  PROVE  BlobInv'
<1>1. /\ UNCHANGED sessions /\ dedup' = dedup /\ arts' = arts /\ manifests' = manifests
      /\ objs' = objs /\ ops[o].pc = "start" /\ Kind(o) = "push"
  BY DEF do_put_manifest, OpAt
<1>2. (\E what : Reply(o, what)) \/ Takes(o, "blob", Ask[o].digest)
  BY DEF do_put_manifest, Takes
<1>3. CASE \E what : Reply(o, what)
  <2>1. AnswerFits(o)' /\ OpEffect(o) /\ ops'[o].pc \in Idle
    BY <1>1, <1>3, RightReply DEF Idle, Right
  <2> QED
    BY <1>1, <2>1, OpReads
<1>4. CASE Takes(o, "blob", Ask[o].digest)
  <2>1. "blob" \in OpSteps
    BY DEF OpSteps
  <2>2. /\ ops'[o].pc = "blob" /\ ops'[o].digest = Ask[o].digest
        /\ \E W : OpsIn(W)'
        /\ DOMAIN ops' = DOMAIN ops /\ \A p \in DOMAIN ops \ {o} : ops'[p] = ops[p]
    BY <1>4, <2>1, TakesOps
  <2>3. Ask[o].digest \in Manifests
    BY <1>1, RegistryAssumption DEF Typed, RegistryTypeOK, Kind
  <2>4. OpEffect(o)
    BY <2>2, <2>3 DEF OpEffect
  <2>5. AnswerFits(o)' /\ OpFits(o)'
    BY <1>1, <2>2 DEF AnswerFits, OpFits, Kind, Passes, Route
  <2>6. LayersFit' /\ ManifestsFit'
    BY <1>1, LayersStay, BackedGrows DEF BlobInv, ManifestsFit
  <2> QED
    BY <1>1, <2>4, <2>5, <2>6, OpQuiet
<1> QED
  BY <1>2, <1>3, <1>4

LEMMA Blob_put_manifest ==
  ASSUME Typed, BlobInv, Safe, risk \subseteq risk', NEW o \in DOMAIN ops, put_manifest(o)
  PROVE  BlobInv'
<1>1. UNCHANGED sessions /\ arts' = arts
  BY DEF put_manifest
<1>2. OpFits(o) /\ AnswerFits(o) /\ ops[o].digest \in Manifests
  BY OpFacts DEF Typed, AtHand, put_manifest, OpAt
<1>3. CASE OpAt(o, "blob")
  <2>1. /\ objs' = Blobs!put(backend, objs, o, <<ops[o].digest>>) /\ OpGoto(o, "claim")
        /\ dedup' = dedup /\ manifests' = manifests
    BY <1>3 DEF put_manifest, OpAt
  <2>2. "claim" \in OpSteps
    BY DEF OpSteps
  <2>3. /\ ops'[o].pc = "claim" /\ ops'[o].answer = ops[o].answer /\ ops'[o].digest = ops[o].digest
        /\ \E W : OpsIn(W)'
        /\ DOMAIN ops' = DOMAIN ops /\ \A p \in DOMAIN ops \ {o} : ops'[p] = ops[p]
    BY <2>1, <2>2, GotoOps
  <2>4. OpEffect(o)
    BY <1>2, <2>3 DEF OpEffect
  <2>5. backend \in Blobs!Backends /\ o \in DOMAIN objs /\ ~Named(o)
    BY <1>3, OpUnnamed DEF OpAt, Typed, RegistryTypeOK, UploadTypeOK
  <2>6. objs'[o] = <<ops[o].digest>>
    BY <2>1, <2>5, HasObject
  <2>7. OpTouches(o)
    <3>1. Touches({o})
      BY <2>1, TouchesOne
    <3> QED
      BY <2>5, <3>1 DEF Touches, OpTouches
  <2>8. OpFits(o)' /\ AnswerFits(o)'
    BY <1>2, <1>3, <2>3, <2>6 DEF OpFits, AnswerFits, OpAt, Kind, Passes, Route
  <2>9. LayersFit' /\ ManifestsFit'
    BY <1>1, <2>1, LayersStay, BackedGrows DEF BlobInv, ManifestsFit
  <2> QED
    BY <1>1, <2>1, <2>4, <2>5, <2>7, <2>8, <2>9, OpKeeps
<1>4. CASE OpAt(o, "claim")
  <2>1. manifests' = manifests /\ ops[o].pc = "claim"
    BY <1>4 DEF put_manifest, OpAt
  <2>2. ~Named(o) /\ objs[o] = <<ops[o].digest>>
    BY <1>2, <2>1, OpUnnamed DEF OpFits, Kind, Passes, Route
  <2>3. \/ /\ dedup' = dedup \cup {BlobRecord(Repo, <<ops[o].digest>>, o)} /\ Finds(o, "tag", o)
           /\ objs' = objs
        \/ /\ \E d \in Registered(Repo, <<ops[o].digest>>) : Finds(o, "tag", d.blob)
           /\ dedup' = dedup /\ objs' = Blobs!delete(backend, objs, o)
    BY <1>4 DEF put_manifest, OpAt, Finds
  <2>4. OpTouches(o)
    <3>1. Touches({o})
      BY <2>3, TouchesOne
    <3> QED
      BY <2>2, <3>1 DEF Touches, OpTouches
  <2> QED
    BY <1>1, <2>1, <2>2, <2>3, <2>4, OpClaims DEF Adds, ClaimSteps, Written
<1>5. CASE OpAt(o, "tag")
  <2>1. OpGoto(o, "manifest") /\ dedup' = dedup /\ manifests' = manifests /\ objs' = objs
    BY <1>5 DEF put_manifest, OpAt
  <2>2. "manifest" \in OpSteps
    BY DEF OpSteps
  <2>3. /\ ops'[o].pc = "manifest" /\ ops'[o].answer = ops[o].answer /\ ops'[o].digest = ops[o].digest
        /\ ops'[o].blob = ops[o].blob /\ \E W : OpsIn(W)'
        /\ DOMAIN ops' = DOMAIN ops /\ \A p \in DOMAIN ops \ {o} : ops'[p] = ops[p]
    BY <2>1, <2>2, GotoOps
  <2>4. OpEffect(o)
    BY <1>2, <1>5, <2>3 DEF OpEffect, OpAt, Typed, AtHand
  <2>5. OpFits(o)' /\ AnswerFits(o)'
    BY <1>2, <1>5, <2>1, <2>3 DEF OpFits, AnswerFits, OpAt, Backed, Kind, Passes, Route
  <2>6. LayersFit' /\ ManifestsFit'
    BY <1>1, <2>1, LayersStay, BackedGrows DEF BlobInv, ManifestsFit
  <2> QED
    BY <1>1, <2>1, <2>3, <2>4, <2>5, <2>6, OpQuiet
<1>6. CASE OpAt(o, "manifest")
  <2>1. /\ SetManifest(PutRepo(o), ops[o].digest, ops[o].blob, FALSE) /\ Reply(o, ops[o].digest)
        /\ dedup' = dedup /\ objs' = objs
    BY <1>6 DEF put_manifest, OpAt
  <2>2. Backed(ops[o].blob, <<ops[o].digest>>) /\ Right(o, ops[o].digest)
    BY <1>2, <1>6 DEF OpFits, OpAt, Right
  <2>3. AnswerFits(o)' /\ OpEffect(o) /\ ops'[o].pc = "done"
    BY <2>1, <2>2, RightReply
  <2>4. LayersFit' /\ ManifestsFit'
    <3>1. LayersFit'
      BY <1>1, <2>1, LayersStay DEF BlobInv
    <3>2. PICK blob, digest : blob = ops[o].blob /\ digest = ops[o].digest
      OBVIOUS
    <3>3. Backed(blob, <<digest>>)'
      BY <2>1, <2>2, <3>2 DEF Backed
    <3>4. ManifestsFit'
      BY <2>1, <3>2, <3>3, ManifestsPut DEF BlobInv
    <3> QED
      BY <3>1, <3>4
  <2>5. OpFits(o)'
    BY <2>3 DEF OpFits, Kind, Passes, Route
  <2> QED
    BY <1>1, <2>1, <2>3, <2>4, <2>5, OpQuiet
<1> QED
  BY <1>3, <1>4, <1>5, <1>6 DEF put_manifest

\* Requests that end at once and whose answers are no contents.
LEMMA OpEnds ==
  ASSUME Typed, BlobInv, Safe, risk \subseteq risk', NEW o \in DOMAIN ops, UNCHANGED sessions, ops[o].pc = "start",
         NEW what, Reply(o, what), Kind(o) \notin {"get blob", "get manifest"},
         objs' = objs, dedup' = dedup, arts' = arts, manifests' \subseteq manifests
  PROVE  BlobInv'
<1>1. AnswerFits(o)' /\ OpEffect(o) /\ ops'[o].pc = "done"
  BY RightReply DEF Right
<1>2. LayersFit' /\ ManifestsFit'
  BY LayersStay, BackedGrows DEF BlobInv, ManifestsFit
<1>3. OpFits(o)'
  BY <1>1 DEF OpFits, Kind, Passes, Route
<1> QED
  BY <1>1, <1>2, <1>3, OpQuiet

LEMMA Blob_do_delete_manifest ==
  ASSUME Typed, BlobInv, Safe, risk \subseteq risk', NEW o \in DOMAIN ops, do_delete_manifest(o)
  PROVE  BlobInv'
<1>1. /\ UNCHANGED sessions /\ objs' = objs /\ dedup' = dedup /\ arts' = arts
      /\ manifests' \subseteq manifests /\ ops[o].pc = "start" /\ \E what : Reply(o, what)
      /\ Kind(o) \notin {"get blob", "get manifest"}
  BY DEF do_delete_manifest, OpAt
<1> QED
  BY <1>1, OpEnds

LEMMA Blob_delete_tag ==
  ASSUME Typed, BlobInv, Safe, risk \subseteq risk', NEW o \in DOMAIN ops, delete_tag(o)
  PROVE  BlobInv'
<1>1. /\ UNCHANGED sessions /\ objs' = objs /\ dedup' = dedup /\ arts' = arts
      /\ manifests' \subseteq manifests /\ ops[o].pc = "start" /\ \E what : Reply(o, what)
      /\ Kind(o) \notin {"get blob", "get manifest"}
  BY DEF delete_tag, OpAt, upload, sessions
<1> QED
  BY <1>1, OpEnds

\* A mount registers what is registered already.
LEMMA Blob_mount_blob ==
  ASSUME Typed, BlobInv, Safe, risk \subseteq risk', NEW o \in DOMAIN ops, mount_blob(o)
  PROVE  BlobInv'
<1>1. /\ UNCHANGED sessions /\ objs' = objs /\ manifests' = manifests
      /\ ops[o].pc = "start" /\ Kind(o) = "mount" /\ \E what : Reply(o, what)
  BY DEF mount_blob, OpAt
<1>2. AnswerFits(o)' /\ OpEffect(o) /\ ops'[o].pc = "done"
  BY <1>1, RightReply DEF Right
<1>3. OpFits(o)' /\ OpTouches(o)
  BY <1>1, <1>2 DEF OpFits, OpTouches, Kind, Passes, Route
<1>4. CASE arts' = arts /\ dedup' = dedup
  BY <1>1, <1>4, OpEnds
<1>5. ASSUME NEW a \in arts, SetLayer(Dest, a.digest, a.blob, FALSE),
             dedup' = dedup \/ Adds(DestStore, a.digest, a.blob)
      PROVE  BlobInv'
  <2>1. PICK digest, blob : digest = a.digest /\ blob = a.blob
    OBVIOUS
  <2>2. Backed(blob, digest)
    BY <1>5, <2>1 DEF BlobInv, LayersFit
  <2>3. PICK b \in dedup : b.blob = blob /\ b.digest = digest
    BY <2>2 DEF Backed
  <2>4. Registers(b)'
    <3>1. Registers(b)
      BY DEF BlobInv, DedupFits
    <3> QED
      BY <1>1, <1>2, <3>1 DEF Registers, OpEffect, sessions
  <2>5. ASSUME NEW d \in dedup' PROVE d \in dedup \/ (Registers(d)' /\ (d.blob = Target => Named(Target)))
    <3>1. d \in dedup \/ (d.digest = digest /\ d.blob = blob)
      BY <1>5, <2>1, <2>5, OneMore
    <3>2. CASE d.digest = digest /\ d.blob = blob
      BY <2>3, <2>4, <3>2 DEF Registers, Named
    <3> QED
      BY <3>1, <3>2
  <2>6. dedup \subseteq dedup'
    BY <1>5, OneMore
  <2>7. LayersFit' /\ ManifestsFit'
    <3>1. Backed(blob, digest)'
      BY <2>2, <2>6, BackedGrows
    <3> QED
      BY <1>1, <1>5, <2>1, <2>6, <3>1, LayersPut, BackedGrows DEF BlobInv, ManifestsFit
  <2> QED
    BY <1>1, <1>2, <1>3, <2>5, <2>6, <2>7, OpKeeps
<1>6. \/ arts' = arts /\ dedup' = dedup
      \/ \E a \in arts : /\ SetLayer(Dest, a.digest, a.blob, FALSE)
                         /\ dedup' = dedup \/ Adds(DestStore, a.digest, a.blob)
  BY DEF mount_blob, LayerOf, Adds
<1> QED
  BY <1>4, <1>5, <1>6

LEMMA Blob_do_list_tags ==
  ASSUME Typed, BlobInv, Safe, risk \subseteq risk', NEW o \in DOMAIN ops, do_list_tags(o)
  PROVE  BlobInv'
<1>1. ops[o].pc = "start" /\ UNCHANGED reads /\ Kind(o) = "list"
  BY DEF do_list_tags, OpAt
<1>2. PICK order : ListPage(o, order)
  BY DEF do_list_tags
<1>3. (\E last, todo, digest : Pages(o, last, todo, digest)) \/ \E todo, digest : Closes(o, todo, digest)
  BY <1>2, ListPageMoves
<1>4. OpEffect(o) /\ ops'[o].pc \in Idle /\ AnswerFits(o)'
  <2>1. CASE \E last, todo, digest : Pages(o, last, todo, digest)
    BY <1>1, <2>1, PagesOps DEF OpEffect, Idle, AnswerFits, Kind, Passes, Route
  <2>2. CASE \E todo, digest : Closes(o, todo, digest)
    BY <1>1, <2>2, ClosesOps DEF OpEffect, Idle, AnswerFits, Kind, Passes, Route
  <2> QED
    BY <1>3, <2>1, <2>2
<1>5. UNCHANGED sessions /\ objs' = objs /\ dedup' = dedup /\ arts' = arts /\ manifests' = manifests
  BY <1>1 DEF reads, upload, sessions
<1> QED
  BY <1>1, <1>4, <1>5, OpReads

-----------------------------------------------------------------------------
(* Promotion.                                                              *)

Copying == {"layers", "manifests", "copy tag", "drop tag"}

\* A step of a promotion that moves no blob.
LEMMA CopyQuiet ==
  ASSUME Typed, BlobInv, Safe, risk \subseteq risk', NEW o \in DOMAIN ops, OpEffect(o), UNCHANGED sessions,
         Kind(o) = "copy", ops[o].pc \in Copying \cup {"start"},
         ops'[o].pc \in Copying \cup {"done"},
         objs' = objs, dedup' = dedup, arts' = arts, manifests' = manifests
  PROVE  BlobInv'
<1>1. LayersFit' /\ ManifestsFit'
  BY LayersStay, BackedGrows DEF BlobInv, ManifestsFit
<1>2. OpFits(o)' /\ AnswerFits(o)'
  BY DEF OpFits, AnswerFits, Copying, Kind, Passes, Route
<1>3. ops[o].pc \notin {"tag", "manifest", "layer record", "done"}
  BY DEF Copying
<1> QED
  BY <1>1, <1>2, <1>3, OpQuiet

LEMMA Blob_copy_tag ==
  ASSUME Typed, BlobInv, Safe, risk \subseteq risk', NEW o \in DOMAIN ops, copy_tag(o)
  PROVE  BlobInv'
<1>1. ops[o].pc = "start" /\ UNCHANGED reads /\ Kind(o) = "copy"
  BY DEF copy_tag, OpAt
<1>2. (\E what : Reply(o, what)) \/ \E digest, todo : Walks(o, digest, todo)
  BY DEF copy_tag, Walks
<1>3. OpEffect(o) /\ ops'[o].pc \in {"layers", "done"}
  BY <1>2, ReplyOps, ReplyEffect, WalksOps DEF OpEffect
<1>4. UNCHANGED sessions /\ objs' = objs /\ dedup' = dedup /\ arts' = arts /\ manifests' = manifests
  BY <1>1 DEF reads, upload, sessions
<1> QED
  BY <1>1, <1>3, <1>4, CopyQuiet DEF Copying

LEMMA Blob_copy_last ==
  ASSUME Typed, BlobInv, Safe, risk \subseteq risk', NEW o \in DOMAIN ops, copy_last(o)
  PROVE  BlobInv'
<1>1. /\ UNCHANGED sessions /\ dedup' = dedup /\ arts' = arts /\ manifests' = manifests /\ objs' = objs
      /\ ops[o].pc \in {"copy tag", "drop tag"}
  BY DEF copy_last, OpAt
<1>2. (\E now : Takes(o, "drop tag", now)) \/ \E what : Reply(o, what)
  BY DEF copy_last, Takes
<1>3. OpEffect(o) /\ ops'[o].pc \in {"drop tag", "done"}
  <2>1. "drop tag" \in OpSteps
    BY DEF OpSteps
  <2> QED
    BY <1>2, <2>1, ReplyOps, ReplyEffect, TakesOps DEF OpEffect
<1>4. Kind(o) = "copy"
  BY <1>1, OpFacts DEF OpFits, Kind, Passes, Route
<1> QED
  BY <1>1, <1>3, <1>4, CopyQuiet DEF Copying

\* A copy into another store gets an id of its content alone.
LEMMA CopyIds ==
  ASSUME NEW a, NEW b, CopyId(a) = CopyId(b)
  PROVE  a = b
<1>1. CopyId(a)[2] = CopyId(b)[2]
  OBVIOUS
<1>2. CopyId(a)[2] = a /\ CopyId(b)[2] = b
  BY DEF CopyId
<1> QED
  BY <1>1, <1>2

LEMMA Rehomed ==
  ASSUME Typed, BlobInv, NEW o \in DOMAIN ops, OpEffect(o), UNCHANGED sessions,
         NEW content, NEW blob, Backed(blob, content),
         NEW id \in DOMAIN objs, rehome_blob(content, id, blob)
  PROVE  /\ OpTouches(o) /\ dedup \subseteq dedup' /\ Backed(id, content)'
         /\ \A d \in dedup' : d \in dedup \/ (Registers(d)' /\ (d.blob = Target => Named(Target)))
<1>1. CASE UNCHANGED <<objs, dedup>> /\ Backed(id, content)
  BY <1>1, BackedGrows DEF OpTouches
<1>2. CASE /\ id = CopyId(content) /\ id \in OtherIds
           /\ objs' = Blobs!put(backend, objs, id, content)
           /\ Adds(Dest, content, id)
  <2>1. Touches({id}) /\ objs'[id] = content
    <3>1. Touches({id})
      BY <1>2, TouchesOne
    <3>2. backend \in Blobs!Backends
      BY DEF Typed, RegistryTypeOK, UploadTypeOK
    <3> QED
      BY <1>2, <3>1, <3>2, HasObject
  <2>2. Named(id) => objs[id] = content
    <3>1. ASSUME NEW d \in dedup, d.blob = id PROVE d.digest = content /\ objs[id] = d.digest
      <4>1. Registers(d)
        BY DEF BlobInv, DedupFits
      <4>2. objs[id] = d.digest /\ CopyId(d.digest) = CopyId(content)
        BY <1>2, <3>1, <4>1 DEF Registers
      <4> QED
        BY <4>2, CopyIds
    <3> QED
      BY <3>1 DEF Named
  <2>3. OpTouches(o)
    BY <1>2, <2>1, <2>2 DEF Touches, OpTouches
  <2>4. id \notin Uploads \cup Ops \cup {Target}
    BY <1>2, UploadAssumption
  <2>5. ASSUME NEW d \in dedup' PROVE d \in dedup \/ (Registers(d)' /\ d.blob # Target)
    <3>1. d \in dedup \/ (d.digest = content /\ d.blob = id)
      BY <1>2, <2>5, OneMore
    <3>2. CASE d.digest = content /\ d.blob = id
      BY <1>2, <2>1, <2>4, <3>2 DEF Registers, Touches, Uploads
    <3> QED
      BY <3>1, <3>2
  <2>6. dedup \subseteq dedup' /\ Backed(id, content)'
    BY <1>2, OneMore DEF Backed
  <2> QED
    BY <2>3, <2>5, <2>6
<1> QED
  BY <1>1, <1>2 DEF rehome_blob, Registered, Backed, Adds

\* A step of a promotion that copies one blob.
LEMMA CopyOne ==
  ASSUME Typed, BlobInv, Safe, risk \subseteq risk', NEW o \in DOMAIN ops, OpEffect(o), UNCHANGED sessions,
         Kind(o) = "copy", ops[o].pc \in Copying, ops'[o].pc \in Copying,
         NEW content, NEW blob, Backed(blob, content),
         NEW id \in DOMAIN objs, rehome_blob(content, id, blob),
         Backed(id, content)' /\ dedup \subseteq dedup' => LayersFit' /\ ManifestsFit'
  PROVE  BlobInv'
<1>1. /\ OpTouches(o) /\ dedup \subseteq dedup' /\ Backed(id, content)'
      /\ \A d \in dedup' : d \in dedup \/ (Registers(d)' /\ (d.blob = Target => Named(Target)))
  BY Rehomed
<1>2. OpFits(o)' /\ AnswerFits(o)'
  BY DEF OpFits, AnswerFits, Copying, Kind, Passes, Route
<1>3. ~Named(o)
  BY OpUnnamed DEF Copying
<1> QED
  BY <1>1, <1>2, <1>3, OpKeeps

LEMMA Blob_copy_layer ==
  ASSUME Typed, BlobInv, Safe, risk \subseteq risk', NEW o \in DOMAIN ops, copy_layer(o)
  PROVE  BlobInv'
<1>1. UNCHANGED sessions /\ manifests' = manifests /\ ops[o].pc = "layers"
  BY DEF copy_layer, OpAt
<1>2. Kind(o) = "copy"
  BY <1>1, OpFacts DEF OpFits, Kind, Passes, Route
<1> DEFINE l == CHOOSE x \in ops[o].todo : TRUE
<1>3. \/ Leaves(o, "manifests", ops[o].digest) /\ UNCHANGED <<objs, dedup, arts>>
      \/ Lacks(o, ops[o].todo \ {l}) /\ UNCHANGED <<objs, dedup, arts>>
      \/ Reply(o, "error") /\ UNCHANGED <<objs, dedup, arts>>
      \/ \E a \in LayerOf(Repo, l) : \E id \in DOMAIN objs :
           /\ rehome_blob(objs[a.blob], id, a.blob)
           /\ SetLayer(Dest, l, id, a.old)
           /\ Lacks(o, ops[o].todo \ {l})
  BY DEF copy_layer, Leaves, Lacks
<1> HIDE DEF l
<1>4. OpEffect(o) /\ ops'[o].pc \in {"layers", "manifests", "done"}
  BY <1>1, <1>3, ReplyOps, ReplyEffect, LeavesOps, LacksOps DEF OpEffect, OpSteps
<1>5. CASE UNCHANGED <<objs, dedup, arts>>
  BY <1>1, <1>2, <1>4, <1>5, CopyQuiet DEF Copying
<1>6. ASSUME NEW a \in LayerOf(Repo, l), NEW id \in DOMAIN objs,
             rehome_blob(objs[a.blob], id, a.blob), SetLayer(Dest, l, id, a.old),
             Lacks(o, ops[o].todo \ {l})
      PROVE  BlobInv'
  <2>1. PICK content, blob, digest : content = objs[a.blob] /\ blob = a.blob /\ digest = l
    OBVIOUS
  <2>2. a \in arts /\ a.digest = digest
    BY <2>1 DEF LayerOf
  <2>3. Backed(blob, digest)
    BY <2>1, <2>2 DEF BlobInv, LayersFit
  <2>4. content = digest
    BY <2>1, <2>3, BackedHolds
  <2>5. ops'[o].pc \in Copying /\ ops[o].pc \in Copying
    BY <1>1, <1>6, LacksOps DEF Copying
  <2>6. Backed(id, digest)' /\ dedup \subseteq dedup' => LayersFit' /\ ManifestsFit'
    BY <1>1, <1>6, <2>1, LayersPut, BackedGrows DEF BlobInv, ManifestsFit
  <2> QED
    BY <1>1, <1>2, <1>4, <1>6, <2>1, <2>3, <2>4, <2>5, <2>6, CopyOne
<1> QED
  BY <1>3, <1>5, <1>6

LEMMA Blob_copy_manifest ==
  ASSUME Typed, BlobInv, Safe, risk \subseteq risk', NEW o \in DOMAIN ops, copy_manifest(o)
  PROVE  BlobInv'
<1>1. UNCHANGED sessions /\ arts' = arts /\ ops[o].pc = "manifests"
  BY DEF copy_manifest, OpAt
<1>2. Kind(o) = "copy"
  BY <1>1, OpFacts DEF OpFits, Kind, Passes, Route
<1> DEFINE l == CHOOSE x \in ops[o].todo : TRUE
<1>3. \/ OpGoto(o, "copy tag") /\ UNCHANGED <<objs, dedup, manifests>>
      \/ Lacks(o, ops[o].todo \ {l}) /\ UNCHANGED <<objs, dedup, manifests>>
      \/ Reply(o, "error") /\ UNCHANGED <<objs, dedup, manifests>>
      \/ \E r \in ManifestOf(Repo, l) : \E id \in DOMAIN objs :
           /\ rehome_blob(objs[r.blob], id, r.blob)
           /\ SetManifest(Dest, l, id, r.old)
           /\ Lacks(o, ops[o].todo \ {l})
  BY DEF copy_manifest, Lacks
<1> HIDE DEF l
<1>4. OpEffect(o) /\ ops'[o].pc \in {"manifests", "copy tag", "done"}
  BY <1>1, <1>3, ReplyOps, ReplyEffect, GotoOps, LacksOps DEF OpEffect, OpSteps
<1>5. CASE UNCHANGED <<objs, dedup, manifests>>
  BY <1>1, <1>2, <1>4, <1>5, CopyQuiet DEF Copying
<1>6. ASSUME NEW r \in ManifestOf(Repo, l), NEW id \in DOMAIN objs,
             rehome_blob(objs[r.blob], id, r.blob), SetManifest(Dest, l, id, r.old),
             Lacks(o, ops[o].todo \ {l})
      PROVE  BlobInv'
  <2>1. PICK content, blob, digest : content = objs[r.blob] /\ blob = r.blob /\ digest = l
    OBVIOUS
  <2>2. r \in manifests /\ r.digest = digest
    BY <2>1 DEF ManifestOf
  <2>3. Backed(blob, <<digest>>)
    BY <2>1, <2>2 DEF BlobInv, ManifestsFit
  <2>4. content = <<digest>>
    BY <2>1, <2>3, BackedHolds
  <2>5. ops'[o].pc \in Copying /\ ops[o].pc \in Copying
    BY <1>1, <1>6, LacksOps DEF Copying
  <2>6. Backed(id, <<digest>>)' /\ dedup \subseteq dedup' => LayersFit' /\ ManifestsFit'
    BY <1>1, <1>6, <2>1, LayersStay, ManifestsPut DEF BlobInv
  <2> QED
    BY <1>1, <1>2, <1>4, <1>6, <2>1, <2>3, <2>4, <2>5, <2>6, CopyOne
<1> QED
  BY <1>3, <1>5, <1>6

-----------------------------------------------------------------------------
(* The collector, the passing of time, and upstream.                       *)

\* Steps of nobody who writes blobs.
LEMMA BlobsOutside ==
  ASSUME Typed, BlobInv, Safe, risk \subseteq risk', UNCHANGED ops, UNCHANGED objs, UNCHANGED dedup, UNCHANGED sessions,
         LayersFit', ManifestsFit'
  PROVE  BlobInv'
<1>1. req' = req
  BY DEF sessions
<1>2. DedupFits'
  BY <1>1 DEF BlobInv, DedupFits, Registers
<1>3. OpsFit'
  BY DEF BlobInv, OpsFit, OpFits, Backed, Kind, Passes, Route
<1>4. MonosFit' /\ FinalsFit' /\ OneFinal' /\ TargetKept'
  <2>1. Touches({}) /\ (Named(Target)' => Named(Target)) /\ dedup \subseteq dedup'
    BY DEF Touches, Named
  <2> QED
    BY <2>1, UploadsAlone
<1>5. AnswersFit'
  BY DEF BlobInv, AnswersFit, AnswerFits, Kind, Passes, Route
<1> QED
  BY <1>2, <1>3, <1>4, <1>5 DEF BlobInv

\* The collector only deletes records.
LEMMA Blob_GcStep ==
  ASSUME Typed, BlobInv, Safe, risk \subseteq risk', GcStep
  PROVE  BlobInv'
<1>1. /\ UNCHANGED ops /\ UNCHANGED objs /\ UNCHANGED dedup /\ UNCHANGED sessions
      /\ arts' \subseteq arts /\ manifests' \subseteq manifests
  BY DEF GcStep, gc_start, gc_scan, gc_sweep, gc_untagged, frame, sessions
<1>2. LayersFit' /\ ManifestsFit'
  BY <1>1, LayersStay, BackedGrows DEF BlobInv, ManifestsFit
<1> QED
  BY <1>1, <1>2, BlobsOutside

LEMMA AgedKeeps ==
  ASSUME NEW W, NEW repo
  PROVE  /\ \A a \in Layer(W) : LET b == Aged(a, repo) IN
              b.repo = a.repo /\ b.digest = a.digest /\ b.blob = a.blob
         /\ \A m \in Manifest(W) : LET n == Aged(m, repo) IN
              n.digest = m.digest /\ n.blob = m.blob
BY DEF Aged, Layer, Manifest

LEMMA Blob_RecordsAge ==
  ASSUME Typed, BlobInv, Safe, risk \subseteq risk', NEW repo, RecordsAge(repo)
  PROVE  BlobInv'
<1>1. UNCHANGED ops /\ UNCHANGED objs /\ UNCHANGED dedup /\ UNCHANGED sessions
  BY DEF RecordsAge, sessions
<1>2. arts' = {Aged(a, repo) : a \in arts} /\ manifests' = {Aged(m, repo) : m \in manifests}
  BY DEF RecordsAge, Aged
<1>3. PICK W : arts \subseteq Layer(W) /\ manifests \subseteq Manifest(W)
  BY DEF Typed, RecordsIn
<1>4. \A a \in arts : LET b == Aged(a, repo) IN
        b.repo = a.repo /\ b.digest = a.digest /\ b.blob = a.blob
  BY <1>3, AgedKeeps
<1>5. \A m \in manifests : LET n == Aged(m, repo) IN n.digest = m.digest /\ n.blob = m.blob
  BY <1>3, AgedKeeps
<1>6. LayersFit'
  <2>1. \A b \in arts' : Backed(b.blob, b.digest)'
    BY <1>1, <1>2, <1>4 DEF BlobInv, LayersFit, Backed
  <2>2. ASSUME NEW b \in arts', NEW c \in arts', b.repo = c.repo, b.digest = c.digest
        PROVE  b = c
    <3>1. PICK a \in arts, d \in arts : b = Aged(a, repo) /\ c = Aged(d, repo)
      BY <1>2
    <3>2. a.repo = d.repo /\ a.digest = d.digest
      BY <1>4, <2>2, <3>1
    <3> QED
      BY <3>1, <3>2 DEF BlobInv, LayersFit
  <2> QED
    BY <2>1, <2>2 DEF LayersFit
<1>7. ManifestsFit'
  <2> SUFFICES ASSUME NEW n \in manifests' PROVE Backed(n.blob, <<n.digest>>)'
    BY DEF ManifestsFit
  <2>1. PICK m \in manifests : n = Aged(m, repo)
    BY <1>2
  <2>2. n.digest = m.digest /\ n.blob = m.blob /\ Backed(m.blob, <<m.digest>>)
    BY <1>5, <2>1 DEF BlobInv, ManifestsFit
  <2>3. Backed(m.blob, <<m.digest>>)'
    BY <1>1, <2>2 DEF Backed
  <2> QED
    BY <2>2, <2>3
<1> QED
  BY <1>1, <1>6, <1>7, BlobsOutside

LEMMA Blob_others ==
  ASSUME Typed, BlobInv, Safe, risk \subseteq risk', upstream_moves \/ UNCHANGED all
  PROVE  BlobInv'
<1>1. /\ UNCHANGED ops /\ UNCHANGED objs /\ UNCHANGED dedup /\ UNCHANGED sessions
      /\ arts' = arts /\ manifests' = manifests
  BY DEF upstream_moves, all, upload, registry, sessions
<1>2. LayersFit' /\ ManifestsFit'
  BY <1>1, LayersStay, BackedGrows DEF BlobInv, ManifestsFit
<1> QED
  BY <1>1, <1>2, BlobsOutside

LEMMA Blob_Registry ==
  ASSUME Typed, BlobInv, Safe, risk \subseteq risk', Safe', NEW o \in DOMAIN ops, PullStep(o) \/ PushStep(o) \/ CopyStep(o)
  PROVE  BlobInv'
<1>1. CASE PullStep(o)
  BY <1>1, Blob_Serves, Blob_cache_manifest, Blob_cache_blob, Blob_put_cached_blob,
     Blob_do_list_tags DEF PullStep
<1>2. CASE PushStep(o)
  BY <1>2, Blob_do_put_manifest, Blob_put_manifest, Blob_do_delete_manifest, Blob_mount_blob,
     Blob_delete_tag DEF PushStep
<1>3. CASE CopyStep(o)
  BY <1>3, Blob_copy_tag, Blob_copy_layer, Blob_copy_manifest, Blob_copy_last DEF CopyStep
<1> QED
  BY <1>1, <1>2, <1>3

LEMMA BlobStep ==
  ASSUME Typed, SessionInv, Safe => BlobInv, [Next]_all
  PROVE  Safe' => BlobInv'
<1> SUFFICES ASSUME Safe' PROVE BlobInv'
  OBVIOUS
<1>1. Safe /\ BlobInv /\ risk \subseteq risk'
  BY RiskGrows DEF Safe
<1>2. CASE UploadNext /\ UNCHANGED registry
  BY <1>1, <1>2, Blob_Upload
<1>3. CASE \E o \in DOMAIN ops : PullStep(o) \/ PushStep(o) \/ CopyStep(o)
  BY <1>1, <1>3, Blob_Registry
<1>4. CASE GcStep \/ \E repo \in {Repo, Dest, Cache} : RecordsAge(repo)
  BY <1>1, <1>4, Blob_GcStep, Blob_RecordsAge
<1>5. CASE upstream_moves \/ UNCHANGED all
  BY <1>1, <1>5, Blob_others
<1> QED
  BY <1>2, <1>3, <1>4, <1>5 DEF Next

LEMMA BlobInit ==
  ASSUME Init
  PROVE  BlobInv
<1>1. /\ dedup = {} /\ arts = {} /\ manifests = {} /\ clean.got = None
      /\ \E active : req = [r \in active |-> NewRequest("start")]
      /\ \E active : ops = [o \in active |-> NewOp("start")]
  BY DEF Init, UploadInit, RegistryInit
<1>2. NewRequest("start").pc = "start"
  BY DEF NewRequest
<1>3. NewOp("start").pc = "start" /\ NewOp("start").answer = None
  BY DEF NewOp
<1>4. DedupFits /\ LayersFit /\ ManifestsFit /\ TargetKept
  BY <1>1 DEF DedupFits, LayersFit, ManifestsFit, TargetKept, Named
<1>5. MonosFit /\ FinalsFit
  BY <1>1, <1>2 DEF MonosFit, FinalsFit
<1>6. OneFinal
  BY <1>1, <1>2 DEF OneFinal, Running
<1>7. OpsFit
  BY <1>1, <1>3 DEF OpsFit, OpFits, Kind, Passes, Route
<1>8. AnswersFit
  BY <1>1, <1>3 DEF AnswersFit, AnswerFits
<1> QED
  BY <1>4, <1>5, <1>6, <1>7, <1>8 DEF BlobInv

\* Without the three ways to lose a session's blob, and without a digest a cache
\* stored unverified, no committed layer loses its content: not to another claim
\* of the same content, nor to the deletion of a duplicate, the cleanup worker, a
\* mount, a promotion or the collector.  Accepted chunks are kept in any case.
THEOREM LayersKept == Spec => []UploadsSafe
<1>1. Init => DockerInv
  BY TypedInit, SessionInit, BlobInit DEF DockerInv
<1>2. DockerInv /\ [Next]_all => DockerInv'
  BY TypedStep, SessionStep, BlobStep DEF DockerInv
<1>3. DockerInv => UploadsSafe
  <2> SUFFICES ASSUME DockerInv PROVE UploadsSafe
    OBVIOUS
  <2>1. AcceptedKept
    BY DEF DockerInv, SessionInv
  <2>2. Safe => CommittedReadable
    BY BackedHolds DEF DockerInv, BlobInv, LayersFit, CommittedReadable
  <2> QED
    BY <2>1, <2>2 DEF UploadsSafe, LostOnlyAtRisk, Safe
<1> QED
  BY <1>1, <1>2, <1>3, PTL DEF Spec

\* Under the same conditions what a pull by digest is answered with has this
\* digest, by whichever repository it is served, unless it is a manifest that
\* upstream sent in place of another; and none is kept under another digest.
THEOREM AnswersRight == Spec => []AnswersMatch
<1>1. Init => DockerInv
  BY TypedInit, SessionInit, BlobInit DEF DockerInv
<1>2. DockerInv /\ [Next]_all => DockerInv'
  BY TypedStep, SessionStep, BlobStep DEF DockerInv
<1>3. DockerInv => AnswersMatch
  <2> SUFFICES ASSUME DockerInv, Safe
               PROVE  (\A o \in DOMAIN ops : AnswerFits(o)) /\ \A m \in manifests : objs[m.blob] = <<m.digest>>
    BY DEF AnswersMatch, Safe
  <2>1. BlobInv
    BY DEF DockerInv
  <2>2. \A m \in manifests : objs[m.blob] = <<m.digest>>
    BY <2>1, BackedHolds DEF BlobInv, ManifestsFit
  <2> QED
    BY <2>1, <2>2 DEF BlobInv, AnswersFit
<1> QED
  BY <1>1, <1>2, <1>3, PTL DEF Spec

=============================================================================
