----------------------------- MODULE BlobStores -----------------------------
(***************************************************************************)
(* What the operations of a blob store do to its objects, for the three    *)
(* kinds of store: files written through a buffer (blob/file/file_blob.rs) *)
(* files written with O_DIRECT (blob/file/direct_io.rs), and S3            *)
(* (blob/s3/lib.rs).                                                       *)
(*                                                                         *)
(* objs maps a blob id to the content found under it, or Absent.  A writer *)
(* is [buf, linked, multipart]: what it was given so far, whether the file *)
(* it has open is still the one under its path, and how S3 receives it.    *)
(* Contents are sequences of pieces.  An operation yields the new objs.    *)
(***************************************************************************)
EXTENDS Integers, Sequences

CONSTANT Absent

Backends == {"file", "direct", "s3"}

\* What is visible under a blob id changes while a file is written, but only
\* at the end of the upload of an S3 object.
InPlace(backend) == backend \in {"file", "direct"}

Object(objs, id, content) == [objs EXCEPT ![id] = content]

-----------------------------------------------------------------------------
(* BlobStore                                                               *)

\* create_dir_all, then File::create or open_direct_write: both truncate.
file_create_writer(objs, id) == Object(objs, id, <<>>)

\* A known length up to S3_SINGLE_PUT_MAX starts one PutObject, anything else
\* buffers parts; the key keeps what it has.
s3_create_writer(objs, id) == objs

create_writer(backend, objs, id) ==
    IF InPlace(backend) THEN file_create_writer(objs, id) ELSE s3_create_writer(objs, id)

NewWriter(hint) == [buf |-> <<>>, linked |-> TRUE, multipart |-> ~hint]

\* put writes and closes in one call.
file_put(objs, id, content) == Object(objs, id, content)
s3_put(objs, id, content) == Object(objs, id, content)

put(backend, objs, id, content) ==
    IF InPlace(backend) THEN file_put(objs, id, content) ELSE s3_put(objs, id, content)

\* A missing object is None, not an error.
file_get(objs, id) == objs[id]
s3_get(objs, id) == objs[id]

file_open_read(objs, id) == objs[id]
s3_open_read(objs, id) == objs[id]

open_read(backend, objs, id) ==
    IF InPlace(backend) THEN file_open_read(objs, id) ELSE s3_open_read(objs, id)

\* Deleting what is not there succeeds.
file_delete(objs, id) == Object(objs, id, Absent)
s3_delete(objs, id) == Object(objs, id, Absent)

delete(backend, objs, id) ==
    IF InPlace(backend) THEN file_delete(objs, id) ELSE s3_delete(objs, id)

-----------------------------------------------------------------------------
(* BlobWriter                                                              *)

\* One call for each of the pieces.  They are buffered, and flushed when the
\* buffer is full; how far the flushing got is not observable before finish here.
direct_write_chunk(w, pieces) == [w EXCEPT !.buf = @ \o pieces]
s3_write_chunk(w, pieces) == [w EXCEPT !.buf = @ \o pieces]

write_chunk(backend, w, pieces) ==
    IF backend = "s3" THEN s3_write_chunk(w, pieces) ELSE direct_write_chunk(w, pieces)

\* The rest of the buffer goes to the file the writer has open, which may no
\* longer be the one under the path.
file_finish(objs, id, w) == IF w.linked THEN Object(objs, id, w.buf) ELSE objs

\* The last block is padded, written at its offset and cut to the length.
direct_finish(objs, id, w) == IF w.linked THEN Object(objs, id, w.buf) ELSE objs

\* The object appears when PutObject or CompleteMultipartUpload returns.
s3_finish(objs, id, w) == Object(objs, id, w.buf)

finish(backend, objs, id, w) ==
    CASE backend = "file"   -> file_finish(objs, id, w)
      [] backend = "direct" -> direct_finish(objs, id, w)
      [] backend = "s3"     -> s3_finish(objs, id, w)

\* abort removes the path, whatever file is under it by now.
file_abort(objs, id) == Object(objs, id, Absent)
direct_abort(objs, id) == Object(objs, id, Absent)

\* The PutObject fails for an incomplete body, or the parts are given up.
s3_abort(objs, id) == objs

abort(backend, objs, id) ==
    CASE backend = "file"   -> file_abort(objs, id)
      [] backend = "direct" -> direct_abort(objs, id)
      [] backend = "s3"     -> s3_abort(objs, id)

\* A writer whose request is dropped: files stay as they are, S3 gives up.
s3_drop(objs, id) == objs

drop(backend, objs, id) == IF backend = "s3" THEN s3_drop(objs, id) ELSE objs
=============================================================================
