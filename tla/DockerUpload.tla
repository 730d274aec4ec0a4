---------------------------- MODULE DockerUpload ----------------------------
(***************************************************************************)
(* Blob uploads of the Docker registry (format/docker/api/uploads.rs) and  *)
(* the cleanup of abandoned sessions (core/service/upload.rs): one upload  *)
(* session to which PATCH requests add chunks and which a final PUT turns  *)
(* into a blob, and monolithic POSTs of other blobs, all concurrent.       *)
(*                                                                         *)
(* A content is the sequence of the pieces it was sent in, and stands for  *)
(* its own SHA-256 and BLAKE3 digests.  The id a request gives to the blob *)
(* it writes is the request itself; the session has a blob id, Target.     *)
(***************************************************************************)
EXTENDS Integers, Sequences

CONSTANTS
    Patches, Finals, \* PATCH and final PUT requests of the session
    Monos,           \* monolithic uploads, with what they send
    MonoContent,
    Post, Target,    \* the POST that opens the session; session.blob_id
    Repo,            \* the hosted repository the uploads resolve to
    Ops,             \* other requests, which write blobs under ids of their own
    OtherIds,
    MaxChunks,       \* max_docker_chunk_count
    MaxRetries,      \* MAX_RETRIES of the PATCH loop
    MaxFaults,       \* bound: failing calls and dropped requests
    Absent, None

Uploads == Patches \cup Finals \cup Monos \cup {Post}
BlobIds == Uploads \cup {Target} \cup Ops \cup OtherIds

\* Every final PUT sends the same last piece: a repeated PUT is the same request.
Piece(r) == IF r \in Finals THEN "tail" ELSE r

Blobs == INSTANCE BlobStores

ASSUME UploadAssumption ==
    /\ Post \notin Patches \cup Finals \cup Monos /\ Target \notin Uploads \cup Ops
    /\ Uploads \cap Ops = {} /\ (Uploads \cup Ops \cup {Target}) \cap OtherIds = {}
    /\ Patches \cap Finals = {} /\ Patches \cap Monos = {} /\ Finals \cap Monos = {}
    /\ MaxChunks \in Nat /\ MaxRetries \in Nat /\ MaxFaults \in Nat
    /\ None \notin BlobIds

VARIABLES
    backend,  \* kind of the blob store, fixed
    objs,     \* the blob store: content per blob id, or Absent
    session,  \* the session record with its KV version, or None
    dedup,    \* BlobRecords: [store, digest, blob]; Repo names its store
    arts,     \* ArtifactRecords under _blobs/: [repo, digest, blob, old]
    req,      \* the requests
    clean,    \* the cleanup worker: [pc, got]
    acked,    \* pieces whose PATCH or POST was accepted, in order
    risk,     \* what happened that may cost a committed blob (history)
    faults

upload == <<backend, objs, session, dedup, arts, req, clean, acked, risk, faults>>

Steps == {"start", "write", "cas", "reread", "create", "assemble", "verify",
          "claim", "record", "end", "drop", "chunks", "done"}

Chunks == Patches \cup Finals \cup {Post}
Session == [chunks: Seq(Chunks), ver: Nat, fresh: BOOLEAN]

UploadTypeOK ==
    /\ backend \in Blobs!Backends
    /\ DOMAIN objs \subseteq BlobIds /\ DOMAIN req \subseteq Uploads
    /\ session = None \/ session \in Session
    /\ \A d \in dedup : d.blob \in BlobIds
    /\ \A a \in arts : a.blob \in BlobIds /\ a.old \in BOOLEAN
    /\ \A r \in DOMAIN req : req[r].pc \in Steps
    /\ clean.pc \in {"idle", "chunks", "blob", "session"}
    /\ faults \in 0..MaxFaults

NewRequest(pc) ==
    [pc |-> pc, snap |-> None, tries |-> 0, body |-> FALSE, want |-> <<>>,
     w |-> Blobs!NewWriter(FALSE), hit |-> None]

\* The requests that are sent, and the blob ids that they and others may use.
UploadInit(kind, active, ids) ==
    /\ backend = kind
    /\ objs = [b \in active \cup {Target} \cup ids |-> Absent]
    /\ session = None /\ dedup = {} /\ arts = {} /\ acked = <<>>
    /\ req = [r \in active |-> NewRequest("start")]
    /\ clean = [pc |-> "idle", got |-> None]
    /\ risk = {} /\ faults = 0

At(r, step) == r \in DOMAIN req /\ req[r].pc = step
Goto(r, step) == req' = [req EXCEPT ![r].pc = step]
\* The reply leaves nothing behind; its status is there for the reader.
Answer(r, status) == req' = [req EXCEPT ![r] = NewRequest("done")]
Fails == faults < MaxFaults /\ faults' = faults + 1

\* A final PUT that has read the session and not yet ended.
Running(q) == q \in DOMAIN req /\ req[q].pc \notin {"start", "done"}

kvs == <<session, dedup, arts>>

\* put_dedup_record: the blob id already registered for the content in the store,
\* or None when this call has registered the blob.
BlobRecord(store, digest, blob) == [store |-> store, digest |-> digest, blob |-> blob]
Registered(store, digest) == {d \in dedup : d.store = store /\ d.digest = digest}

Claim(r, digest, blob) ==
    IF Registered(Repo, digest) = {}
    THEN /\ dedup' = dedup \cup {BlobRecord(Repo, digest, blob)}
         /\ req' = [req EXCEPT ![r].pc = "record", ![r].hit = None]
    ELSE /\ \E d \in Registered(Repo, digest) :
              req' = [req EXCEPT ![r].pc = "record", ![r].hit = d.blob]
         /\ UNCHANGED dedup

\* put_artifact at _blobs/<digest>: the record, with a new creation time.  A
\* collection that has seen the old record still deletes it by its path.
Commit(digest, blob) ==
    LET before == {a \in arts : a.repo = Repo /\ a.digest = digest} IN
    /\ arts' = (arts \ before)
                 \cup {[repo |-> Repo, digest |-> digest, blob |-> blob, old |-> FALSE]}
    /\ risk' = IF \E a \in before : a.old THEN risk \cup {"refreshed"} ELSE risk

Chosen(r, own) == IF req[r].hit = None THEN own ELSE req[r].hit

-----------------------------------------------------------------------------
(* do_start_upload                                                         *)

\* Permission, format and kind of the repository, write target of a proxy and
\* blob store are checked before anything is written.
check_docker_permission(r) ==
    /\ At(r, "start")
    /\ Answer(r, "refused")
    /\ UNCHANGED <<backend, objs, kvs, clean, acked, risk, faults>>

\* POST without digest: what the body holds becomes the first chunk, and the
\* session is put under a new uuid.
start_session ==
    /\ At(Post, "start")
    /\ \E body \in BOOLEAN :
         /\ objs' = IF body THEN Blobs!put(backend, objs, Post, <<Piece(Post)>>) ELSE objs
         /\ session' = [chunks |-> IF body THEN <<Post>> ELSE <<>>, ver |-> 1, fresh |-> TRUE]
         /\ acked' = IF body THEN <<Post>> ELSE <<>>
    /\ Answer(Post, "accepted")
    /\ UNCHANGED <<backend, dedup, arts, clean, risk, faults>>

\* POST with digest: the body goes through a writer of its own.
mono_write(m) ==
    /\ At(m, "start")
    /\ objs' = Blobs!put(backend, objs, m, MonoContent[m])
    /\ Goto(m, "claim")
    /\ UNCHANGED <<backend, kvs, clean, acked, risk, faults>>

\* A broken body, a failing write and a digest that does not match abort it.
mono_abort(m) ==
    /\ At(m, "start") /\ Fails
    /\ objs' = Blobs!abort(backend, Blobs!create_writer(backend, objs, m), m)
    /\ Answer(m, "error")
    /\ UNCHANGED <<backend, kvs, clean, acked, risk>>

mono_claim(m) ==
    /\ At(m, "claim")
    /\ Claim(m, MonoContent[m], m)
    /\ UNCHANGED <<backend, objs, session, arts, clean, acked, risk, faults>>

mono_record(m) ==
    /\ At(m, "record")
    /\ Commit(MonoContent[m], Chosen(m, m))
    /\ Goto(m, "drop")
    /\ UNCHANGED <<backend, objs, session, dedup, clean, acked, faults>>

\* Only on a dedup hit; the duplicate was written under a new id.
mono_drop(m) ==
    /\ At(m, "drop")
    /\ objs' = IF req[m].hit # None THEN Blobs!delete(backend, objs, m) ELSE objs
    /\ Answer(m, "created")
    /\ UNCHANGED <<backend, kvs, clean, acked, risk, faults>>

-----------------------------------------------------------------------------
(* do_patch_upload                                                         *)

\* The session is read with its version.
patch_read(p) ==
    /\ At(p, "start")
    /\ IF session = None THEN Answer(p, "unknown")
       ELSE req' = [req EXCEPT ![p].pc = "write", ![p].snap = session]
    /\ UNCHANGED <<backend, objs, kvs, clean, acked, risk, faults>>

\* The body becomes a chunk blob; a broken body or write aborts it.
patch_write(p) ==
    /\ At(p, "write")
    /\ \/ /\ objs' = Blobs!put(backend, objs, p, <<Piece(p)>>)
          /\ Goto(p, "cas")
          /\ UNCHANGED faults
       \/ /\ Fails
          /\ objs' = Blobs!abort(backend, Blobs!create_writer(backend, objs, p), p)
          /\ Answer(p, "error")
    /\ UNCHANGED <<backend, kvs, clean, acked, risk>>

\* Mutant: the write is unconditional.
PutUploadSession(p) ==
    /\ At(p, "cas") /\ session # None
    /\ session' = [chunks |-> Append(req[p].snap.chunks, p), ver |-> session.ver + 1, fresh |-> TRUE]
    /\ acked' = Append(acked, Piece(p))
    /\ Answer(p, "accepted")
    /\ UNCHANGED <<backend, objs, dedup, arts, clean, risk, faults>>

\* One attempt: the chunk is added to the session as it was read, if the
\* version is still the one read.
put_upload_session_if_version(p) ==
    LET snap == req[p].snap IN
    /\ At(p, "cas")
    /\ IF Len(snap.chunks) >= MaxChunks
       THEN Answer(p, "too many") /\ UNCHANGED <<session, acked>>
       ELSE IF session # None /\ session.ver = snap.ver
       THEN /\ session' = [chunks |-> Append(snap.chunks, p), ver |-> snap.ver + 1, fresh |-> TRUE]
            /\ acked' = Append(acked, Piece(p))
            /\ Answer(p, "accepted")
       ELSE /\ IF req[p].tries + 1 = MaxRetries THEN Answer(p, "conflict")
               ELSE req' = [req EXCEPT ![p].pc = "reread", ![p].tries = @ + 1]
            /\ UNCHANGED <<session, acked>>
    /\ UNCHANGED <<backend, objs, dedup, arts, clean, risk, faults>>

patch_reread(p) ==
    /\ At(p, "reread")
    /\ IF session = None THEN Answer(p, "unknown")
       ELSE req' = [req EXCEPT ![p].pc = "cas", ![p].snap = session]
    /\ UNCHANGED <<backend, objs, kvs, clean, acked, risk, faults>>

-----------------------------------------------------------------------------
(* do_complete_upload                                                      *)

\* The session is read without its version.  The client asks for the digest of
\* what it has sent, or for a wrong one.
complete_read(q) ==
    /\ At(q, "start")
    /\ IF session = None THEN Answer(q, "unknown") /\ UNCHANGED risk
       ELSE /\ \E body \in BOOLEAN, right \in BOOLEAN :
                 req' = [req EXCEPT ![q].pc = "write", ![q].snap = session, ![q].body = body,
                            ![q].want = IF right
                                        THEN acked \o (IF body THEN <<Piece(q)>> ELSE <<>>)
                                        ELSE <<"other">>]
            /\ risk' = risk \cup (IF \E o \in Finals \ {q} : Running(o) THEN {"repeated"} ELSE {})
                            \cup (IF clean.got # None THEN {"late"} ELSE {})
    /\ UNCHANGED <<backend, objs, kvs, clean, acked, faults>>

\* What the body holds becomes one more chunk blob.
complete_body(q) ==
    /\ At(q, "write")
    /\ \/ /\ objs' = IF req[q].body THEN Blobs!put(backend, objs, q, <<Piece(q)>>) ELSE objs
          /\ req' = [req EXCEPT ![q].pc = "create",
                        ![q].snap.chunks = IF req[q].body THEN Append(@, q) ELSE @]
          /\ UNCHANGED faults
       \/ /\ Fails
          /\ objs' = Blobs!abort(backend, Blobs!create_writer(backend, objs, q), q)
          /\ Answer(q, "error")
    /\ UNCHANGED <<backend, kvs, clean, acked, risk>>

\* A writer for session.blob_id, of known length.
complete_create(q) ==
    /\ At(q, "create")
    /\ objs' = Blobs!create_writer(backend, objs, Target)
    /\ req' = [req EXCEPT ![q].pc = "assemble", ![q].w = Blobs!NewWriter(TRUE)]
    /\ UNCHANGED <<backend, kvs, clean, acked, risk, faults>>

\* The chunks are read and written one after the other; a missing one aborts.
Assembled(w, ids) ==
    Blobs!write_chunk(backend, w, [i \in DOMAIN ids |-> Blobs!open_read(backend, objs, ids[i])[1]])

complete_assemble(q) ==
    LET chunks == req[q].snap.chunks
        whole  == Assembled(req[q].w, chunks)
        lost   == \E i \in DOMAIN chunks : objs[chunks[i]] \in {Absent, <<>>}
    IN
    /\ At(q, "assemble")
    /\ IF lost THEN /\ objs' = Blobs!abort(backend, objs, Target)
                    /\ req' = [f \in DOMAIN req |->
                                 IF f = q THEN NewRequest("done")
                                 ELSE [req[f] EXCEPT !.w.linked = ~Blobs!InPlace(backend)]]
       ELSE /\ objs' = Blobs!finish(backend, objs, Target, whole)
            /\ req' = [req EXCEPT ![q].pc = "verify", ![q].w = whole]
    /\ UNCHANGED <<backend, kvs, clean, acked, risk, faults>>

\* Deleting session.blob_id unlinks the file other writers have open.
DeleteTarget == objs' = Blobs!delete(backend, objs, Target)
Unlink(f) == [f EXCEPT !.w.linked = ~Blobs!InPlace(backend)]

complete_verify(q) ==
    /\ At(q, "verify")
    /\ IF req[q].w.buf = req[q].want THEN Goto(q, "claim") /\ UNCHANGED objs
       ELSE /\ DeleteTarget
            /\ req' = [f \in DOMAIN req |->
                         IF f = q THEN NewRequest("done")
                         ELSE Unlink(req[f])]
    /\ UNCHANGED <<backend, kvs, clean, acked, risk, faults>>

complete_claim(q) ==
    /\ At(q, "claim")
    /\ Claim(q, req[q].w.buf, Target)
    /\ UNCHANGED <<backend, objs, session, arts, clean, acked, risk, faults>>

complete_record(q) ==
    /\ At(q, "record")
    /\ Commit(req[q].w.buf, Chosen(q, Target))
    /\ Goto(q, "end")
    /\ UNCHANGED <<backend, objs, session, dedup, clean, acked, faults>>

delete_upload_session(q) ==
    /\ At(q, "end")
    /\ session' = None
    /\ Goto(q, "drop")
    /\ UNCHANGED <<backend, objs, dedup, arts, clean, acked, risk, faults>>

\* Mutant: the assembled blob is deleted with the session.
DropAlways(q) ==
    /\ At(q, "drop")
    /\ DeleteTarget
    /\ req' = [f \in DOMAIN req |-> IF f = q THEN [req[q] EXCEPT !.pc = "chunks"] ELSE Unlink(req[f])]
    /\ UNCHANGED <<backend, kvs, clean, acked, risk, faults>>

\* On any dedup hit session.blob_id is deleted.
complete_drop(q) ==
    /\ At(q, "drop")
    /\ IF req[q].hit # None
       THEN /\ DeleteTarget
            /\ req' = [f \in DOMAIN req |-> IF f = q THEN [req[q] EXCEPT !.pc = "chunks"]
                                         ELSE Unlink(req[f])]
       ELSE Goto(q, "chunks") /\ UNCHANGED objs
    /\ UNCHANGED <<backend, kvs, clean, acked, risk, faults>>

complete_chunks(q) ==
    /\ At(q, "chunks")
    /\ objs' = [b \in DOMAIN objs |->
                  IF \E i \in DOMAIN req[q].snap.chunks : req[q].snap.chunks[i] = b
                  THEN Absent ELSE objs[b]]
    /\ Answer(q, "created")
    /\ UNCHANGED <<backend, kvs, clean, acked, risk, faults>>

\* A KV call fails, or the request is dropped (the client hangs up, the
\* instance dies).  After the claim the session outlives the commit.
give_up(r) ==
    /\ r \in DOMAIN req /\ req[r].pc \notin {"start", "done"} /\ Fails
    /\ objs' = IF At(r, "assemble") THEN Blobs!drop(backend, objs, Target) ELSE objs
    /\ risk' = IF r \in Finals /\ req[r].pc \in {"record", "end"}
               THEN risk \cup {"unfinished"} ELSE risk
    /\ Answer(r, "error")
    /\ UNCHANGED <<backend, kvs, clean, acked>>

-----------------------------------------------------------------------------
(* cleanup_upload_sessions                                                 *)

\* An hour passes since updated_at.
Age ==
    /\ session # None /\ session.fresh
    /\ session' = [session EXCEPT !.fresh = FALSE]
    /\ UNCHANGED <<backend, objs, dedup, arts, req, clean, acked, risk, faults>>

list_upload_sessions ==
    /\ clean.pc = "idle" /\ session # None /\ ~session.fresh
    /\ clean' = [pc |-> "chunks", got |-> session]
    /\ risk' = IF \E q \in Finals : Running(q) THEN risk \cup {"late"} ELSE risk
    /\ UNCHANGED <<backend, objs, kvs, req, acked, faults>>

\* The chunks, then the blob, of the record as it was listed.
cleanup_delete ==
    /\ \/ /\ clean.pc = "chunks"
          /\ clean' = [clean EXCEPT !.pc = "blob"]
          /\ objs' = [b \in DOMAIN objs |->
                        IF \E i \in DOMAIN clean.got.chunks : clean.got.chunks[i] = b
                        THEN Absent ELSE objs[b]]
          /\ UNCHANGED req
       \/ /\ clean.pc = "blob"
          /\ clean' = [clean EXCEPT !.pc = "session"]
          /\ DeleteTarget
          /\ req' = [f \in DOMAIN req |-> Unlink(req[f])]
    /\ UNCHANGED <<backend, kvs, acked, risk, faults>>

\* Mutant: only the blobs are deleted.
KeepSession ==
    /\ clean.pc = "session"
    /\ clean' = [pc |-> "idle", got |-> None]
    /\ UNCHANGED <<backend, objs, kvs, req, acked, risk, faults>>

\* delete_batch, by key; a failure leaves the record to the next tick.
cleanup_session ==
    /\ clean.pc = "session"
    /\ clean' = [pc |-> "idle", got |-> None]
    /\ \/ session' = None /\ UNCHANGED faults
       \/ Fails /\ UNCHANGED session
    /\ UNCHANGED <<backend, objs, dedup, arts, req, acked, risk>>

-----------------------------------------------------------------------------
PatchStep(p) ==
    patch_read(p) \/ patch_write(p) \/ put_upload_session_if_version(p) \/ patch_reread(p)

CompleteStep(q) ==
    \/ complete_read(q) \/ complete_body(q) \/ complete_create(q) \/ complete_assemble(q)
    \/ complete_verify(q) \/ complete_claim(q) \/ complete_record(q)
    \/ delete_upload_session(q) \/ complete_drop(q) \/ complete_chunks(q)

MonoStep(m) ==
    mono_write(m) \/ mono_abort(m) \/ mono_claim(m) \/ mono_record(m) \/ mono_drop(m)

CleanStep == list_upload_sessions \/ cleanup_delete \/ cleanup_session

UploadNext ==
    \/ \E r \in DOMAIN req : check_docker_permission(r) \/ give_up(r)
    \/ start_session
    \/ \E p \in Patches \cap DOMAIN req : PatchStep(p)
    \/ \E q \in Finals \cap DOMAIN req : CompleteStep(q)
    \/ \E m \in Monos \cap DOMAIN req : MonoStep(m)
    \/ Age \/ CleanStep

-----------------------------------------------------------------------------
(* Properties.                                                             *)

\* Concurrent PATCHes lose no update: while the session exists its chunks are
\* the accepted ones in the order they were accepted (the compare-and-swap of
\* do_patch_upload).
AcceptedKept ==
    session # None =>
      acked = [i \in DOMAIN session.chunks |-> Piece(session.chunks[i])]

\* A blob committed under _blobs/<digest> can be read and has that digest.
CommittedReadable == \A a \in arts : objs[a.blob] = a.digest

\* There are three ways to lose a committed blob: the final PUT is repeated
\* while one runs, the session expires under its final PUT, or a final PUT
\* ends between its claim and the deletion of its session.  Without them the
\* claim, the deletions of duplicates and the cleanup never meet badly.  One
\* that a cache recorded unverified has another digest from the beginning.
UploadRisks == {"repeated", "late", "unfinished"}
LostOnlyAtRisk == risk \cap (UploadRisks \cup {"unverified"}) = {} => CommittedReadable

\* Accepted chunks stay in the session and committed blobs in the store, however
\* the PATCHes, PUTs, monolithic uploads and the cleanup interleave.
UploadsSafe == AcceptedKept /\ LostOnlyAtRisk

\* Whatever becomes of the clients, the session does not stay for ever
\* (cleanup_upload_sessions).
SessionEnds == [](session # None => <>(session = None))
=============================================================================
