--------------------------- MODULE DockerRegistry ---------------------------
(***************************************************************************)
(* Manifests, tags and layers of Docker repositories: pushes, pulls by way *)
(* of hosted, cache and proxy repositories, mounts, promotion of tags      *)
(* between repositories (format/docker), and the collection of unreferenced*)
(* records (server/worker/blob_reaper/docker_gc.rs), concurrent with each  *)
(* other and with the uploads of DockerUpload, whose records and blobs     *)
(* they share.                                                             *)
(*                                                                         *)
(* The digest of a manifest is the manifest; the digest of a layer is its  *)
(* content.  Repositories: Repo (hosted), Dest (hosted, promotion target), *)
(* Cache, Proxy.  An op is [kind, repo, tag, digest]; tag None is a        *)
(* reference by digest.                                                    *)
(***************************************************************************)
EXTENDS DockerUpload, FiniteSets

CONSTANTS
    Dest, Cache, Proxy, Members, \* repositories; the members of Proxy, in order
    Ask,                         \* what each op asks for
    Lists, Images, Refs,         \* manifests; config and layers, or children
    Layers,                      \* what the `layers' of an image name, its config left out
    Tags, PageSize,              \* tags in their lexical order; n of a listing
    Altered,                     \* content that differs from what was asked for
    Workloads                    \* [backend, uploads, ops, untagged, collect, foreign]

\* What roots reach by way of the manifests whose references are known.
Closure(roots, refs) ==
    LET reached[n \in 0 .. Cardinality(Lists \cup Images)] ==
          IF n = 0 THEN roots
          ELSE reached[n - 1] \cup UNION {refs[m] : m \in reached[n - 1] \cap DOMAIN refs}
    IN reached[Cardinality(Lists \cup Images)]

Manifests == Lists \cup Images
Hosted == {Repo, Dest}
CopyId(d) == <<"copy", d>>

ASSUME RegistryAssumption ==
    /\ Lists \cap Images = {} /\ DOMAIN Refs = Manifests
    /\ \A m \in Lists : Refs[m] \subseteq Manifests
    /\ \A m \in Images : Layers[m] \subseteq Refs[m]
    /\ DOMAIN Ask = Ops /\ Tags \subseteq Nat /\ PageSize \in Nat \ {0}
    /\ Images # {} /\ Dest \notin {Repo, Cache} /\ Repo # Cache
    /\ \A o \in Ops :
         /\ Ask[o].tag \in Tags \cup {None}
         /\ Ask[o].kind \in {"push", "get manifest", "head manifest"} =>
              Ask[o].digest \in Manifests \/ (Ask[o].digest = None /\ Ask[o].tag # None)
         /\ Ask[o].kind \in {"push", "delete"} => Ask[o].digest \in Manifests
    /\ Members \in Seq({Repo, Dest, Cache})
    /\ \A load \in Workloads :
         /\ load.backend \in Blobs!Backends
         /\ load.uploads \subseteq Uploads /\ load.ops \subseteq Ops
         /\ load.untagged \in BOOLEAN /\ load.foreign \in BOOLEAN
         /\ load.collect \in Seq({Repo, Dest, Cache})

VARIABLES
    manifests, \* records under _manifests/: [repo, digest, blob, old]
    tags,      \* records under _tags/: [repo, tag, digest, old]
    ops,       \* the requests
    gc,        \* docker_gc
    untagged,  \* cleanup_untagged_manifests, fixed
    collect,   \* the repositories the collector goes through, fixed
    foreign,   \* does Dest keep its blobs in another store? fixed
    upstream   \* the manifest the tags name upstream of Cache

fixed == <<untagged, collect, foreign, upstream>>
registry == <<manifests, tags, ops, gc, fixed>>
all == <<upload, registry>>
sessions == <<backend, session, req, clean, acked>>

OpSteps == {"start", "blob", "claim", "tag", "manifest", "layer claim", "layer record",
            "layers", "manifests", "copy tag", "drop tag", "done"}
GcIdle(turn) ==
    [pc |-> "idle", turn |-> turn, todo |-> {}, arts |-> {}, manifests |-> {}, tags |-> {}]
NewOp(pc) == [pc |-> pc, at |-> 1, digest |-> None, blob |-> None, todo |-> {},
              last |-> 0, answer |-> None]

\* The ways to lose a blob or an image that the code leaves open (history).
Risks == {"repeated", "late", "unfinished",     \* of uploads: see LostOnlyAtRisk
          "elsewhere", "old", "slow", "refreshed",  \* of pushes
          "deleted", "copied", "retagged", "foreign", "unread", "unverified",
          "uncompared"}

RegistryTypeOK ==
    /\ UploadTypeOK
    /\ risk \subseteq Risks
    /\ \A m \in manifests : m.digest \in Manifests /\ m.blob \in BlobIds /\ m.old \in BOOLEAN
    /\ \A t \in tags : t.tag \in Tags /\ t.digest \in Manifests /\ t.old \in BOOLEAN
    /\ DOMAIN ops \subseteq Ops /\ \A o \in DOMAIN ops : ops[o].pc \in OpSteps
    /\ gc.pc \in {"idle", "scan", "sweep", "untagged"}
    /\ untagged \in BOOLEAN /\ foreign \in BOOLEAN /\ upstream \in Images

RegistryInit(load) ==
    /\ untagged = load.untagged /\ collect = load.collect /\ foreign = load.foreign
    /\ manifests = {} /\ tags = {} /\ gc = GcIdle(1)
    /\ ops = [o \in load.ops |-> NewOp("start")]
    /\ upstream = CHOOSE m \in Images : TRUE

-----------------------------------------------------------------------------
(* DockerStore                                                             *)

Kind(o) == Ask[o].kind
OpAt(o, pc) == o \in DOMAIN ops /\ ops[o].pc = pc
OpGoto(o, pc) == ops' = [ops EXCEPT ![o].pc = pc]
Reply(o, what) == ops' = [ops EXCEPT ![o] = [NewOp("done") EXCEPT !.answer = what]]

\* Blobs are looked up in the store of the repository that is read.
Holds(repo, blob) ==
    IF foreign /\ (repo = Dest) # (blob \in OtherIds) THEN Absent ELSE objs[blob]

\* Dest has the store of Repo or one of its own.
DestStore == IF foreign THEN Dest ELSE Repo

LayerOf(repo, digest) == {a \in arts : a.repo = repo /\ a.digest = digest}
ManifestOf(repo, digest) == {m \in manifests : m.repo = repo /\ m.digest = digest}
TagOf(repo, tag) == {t \in tags : t.repo = repo /\ t.tag = tag}

\* The record alone decides.
blob_exists(repo, digest) == LayerOf(repo, digest) # {}

\* The content under the recorded blob id, or None.
open_blob(repo, digest) ==
    IF \E a \in LayerOf(repo, digest) : Holds(repo, a.blob) # Absent
    THEN Holds(repo, (CHOOSE a \in LayerOf(repo, digest) : TRUE).blob) ELSE None

\* A missing record, a missing blob and a dangling tag are all a miss.
get_manifest_by_digest(repo, digest) ==
    IF \E m \in ManifestOf(repo, digest) : Holds(repo, m.blob) # Absent THEN digest ELSE None

get_manifest_by_tag(repo, tag) ==
    IF TagOf(repo, tag) = {} THEN None
    ELSE get_manifest_by_digest(repo, (CHOOSE t \in TagOf(repo, tag) : TRUE).digest)

get_manifest(repo, o) ==
    IF Ask[o].tag = None THEN get_manifest_by_digest(repo, Ask[o].digest)
    ELSE get_manifest_by_tag(repo, Ask[o].tag)

\* put_artifact of a record: it replaces the one under the same path.
SetLayer(repo, digest, blob, old) ==
    arts' = (arts \ LayerOf(repo, digest))
              \cup {[repo |-> repo, digest |-> digest, blob |-> blob, old |-> old]}
SetManifest(repo, digest, blob, old) ==
    manifests' = (manifests \ ManifestOf(repo, digest))
                   \cup {[repo |-> repo, digest |-> digest, blob |-> blob, old |-> old]}
SetTag(repo, tag, digest, old) ==
    tags' = (tags \ TagOf(repo, tag))
              \cup {[repo |-> repo, tag |-> tag, digest |-> digest, old |-> old]}

\* put_manifest writes the manifest as a blob, claims or reuses it (deleting a
\* duplicate), then writes the tag, and last the manifest record.  It works on
\* ops[o].digest in the repository the push or the cache fetch resolved to.
PutRepo(o) == IF Ask[o].repo = Cache \/ Kind(o) # "push" THEN Cache ELSE Repo

put_manifest(o) ==
    LET content == <<ops[o].digest>> IN
    /\ UNCHANGED <<arts, risk, faults, gc, fixed, sessions>>
    /\ \/ /\ OpAt(o, "blob")
          /\ objs' = Blobs!put(backend, objs, o, content)
          /\ OpGoto(o, "claim")
          /\ UNCHANGED <<dedup, manifests, tags>>
       \/ /\ OpAt(o, "claim")
          /\ IF Registered(Repo, content) = {}
             THEN /\ dedup' = dedup \cup {BlobRecord(Repo, content, o)}
                  /\ ops' = [ops EXCEPT ![o].pc = "tag", ![o].blob = o]
                  /\ UNCHANGED objs
             ELSE /\ \E d \in Registered(Repo, content) :
                       ops' = [ops EXCEPT ![o].pc = "tag", ![o].blob = d.blob]
                  /\ objs' = Blobs!delete(backend, objs, o)
                  /\ UNCHANGED dedup
          /\ UNCHANGED <<manifests, tags>>
       \/ /\ OpAt(o, "tag")
          /\ IF Ask[o].tag = None THEN UNCHANGED tags
             ELSE SetTag(PutRepo(o), Ask[o].tag, ops[o].digest, FALSE)
          /\ OpGoto(o, "manifest")
          /\ UNCHANGED <<objs, dedup, manifests>>
       \/ /\ OpAt(o, "manifest")
          /\ SetManifest(PutRepo(o), ops[o].digest, ops[o].blob, FALSE)
          /\ Reply(o, ops[o].digest)
          /\ UNCHANGED <<objs, dedup, tags>>

-----------------------------------------------------------------------------
(* Pushes                                                                  *)

\* Every layer of an image is found in the target or in a member of the proxy
\* pushed to; its config and the children of a list are not looked at.  risk
\* notes a push that relies on records the grace period does not protect, or
\* that are not in the target at all.
LayersFound(o) ==
    \A l \in Layers[Ask[o].digest] :
      \/ blob_exists(Repo, l)
      \/ Ask[o].repo = Proxy /\ \E i \in DOMAIN Members : blob_exists(Members[i], l)

Unprotected(repo, digest) ==
    (IF \E l \in Refs[digest] : ~blob_exists(repo, l) /\ ManifestOf(repo, l) = {}
     THEN {"elsewhere"} ELSE {})
    \cup (IF \/ \E a \in arts : a.repo = repo /\ a.digest \in Refs[digest] /\ a.old
             \/ \E m \in manifests : /\ m.repo = repo /\ m.old
                                     /\ m.digest \in Refs[digest] \cup {digest}
          THEN {"old"} ELSE {})

do_put_manifest(o) ==
    /\ OpAt(o, "start") /\ Kind(o) = "push"
    /\ IF Ask[o].digest \in Images /\ ~LayersFound(o)
       THEN Reply(o, "unknown") /\ UNCHANGED risk
       ELSE /\ ops' = [ops EXCEPT ![o].pc = "blob", ![o].digest = Ask[o].digest]
            /\ risk' = risk \cup Unprotected(Repo, Ask[o].digest)
    /\ UNCHANGED <<objs, dedup, arts, faults, manifests, tags, gc, fixed, sessions>>

\* By digest only, and not through a proxy.  The tags that name it stay.
do_delete_manifest(o) ==
    /\ OpAt(o, "start") /\ Kind(o) = "delete"
    /\ IF Ask[o].repo = Proxy \/ Ask[o].tag # None
       THEN Reply(o, "unsupported") /\ UNCHANGED <<manifests, risk>>
       ELSE /\ manifests' = manifests \ ManifestOf(Ask[o].repo, Ask[o].digest)
            /\ risk' = risk \cup {"deleted"}
            /\ Reply(o, "accepted")
    /\ UNCHANGED <<objs, dedup, arts, faults, tags, gc, fixed, sessions>>

\* mount_blob: the blob id recorded in the source repository is recorded in the
\* target, in whatever store it is; the result of put_dedup_record is ignored.
\* A missing source leaves an ordinary upload session, which is never used here.
mount_blob(o) ==
    /\ OpAt(o, "start") /\ Kind(o) = "mount"
    /\ IF blob_exists(Dest, Ask[o].digest) \/ ~blob_exists(Repo, Ask[o].digest)
       THEN UNCHANGED <<arts, dedup, risk>>
       ELSE \E a \in LayerOf(Repo, Ask[o].digest) :
              /\ SetLayer(Dest, a.digest, a.blob, FALSE)
              /\ dedup' = IF Registered(DestStore, a.digest) # {} THEN dedup
                          ELSE dedup \cup {BlobRecord(DestStore, a.digest, a.blob)}
              /\ risk' = risk \cup (IF foreign THEN {"foreign"} ELSE {})
    /\ Reply(o, "created")
    /\ UNCHANGED <<objs, faults, manifests, tags, gc, fixed, sessions>>

-----------------------------------------------------------------------------
(* Pulls: the repositories a read looks at, one after the other.           *)

Route(o) == IF Ask[o].repo = Proxy THEN Members ELSE <<Ask[o].repo>>
Member(o) == Route(o)[ops[o].at]
Passes(o) == \E i \in DOMAIN Route(o) : Route(o)[i] = Cache
Reading(o, kind, repos) ==
    OpAt(o, "start") /\ Kind(o) = kind /\ ops[o].at \in DOMAIN Route(o) /\ Member(o) \in repos
NextMember(o) == ops' = [ops EXCEPT ![o].at = @ + 1]
reads == <<upload, manifests, tags, gc, fixed>>

\* No member has it.
not_found(o) ==
    /\ OpAt(o, "start") /\ ops[o].at \notin DOMAIN Route(o)
    /\ Reply(o, "not found")
    /\ UNCHANGED reads

\* What a hosted repository has is served, otherwise the next one is asked.
ServeManifest(o) ==
    /\ IF get_manifest(Member(o), o) # None THEN Reply(o, get_manifest(Member(o), o))
       ELSE NextMember(o)
    /\ UNCHANGED reads

do_get_manifest(o) ==
    Ask[o].repo \in Hosted /\ Reading(o, "get manifest", Hosted) /\ ServeManifest(o)
do_head_manifest(o) ==
    Ask[o].repo \in Hosted /\ Reading(o, "head manifest", Hosted) /\ ServeManifest(o)
proxy_get_manifest(o) ==
    Ask[o].repo = Proxy /\ Reading(o, "get manifest", Hosted) /\ ServeManifest(o)
proxy_head_manifest(o) ==
    Ask[o].repo = Proxy /\ Reading(o, "head manifest", Hosted) /\ ServeManifest(o)

\* HEAD looks at the record only; GET opens the blob, which may be missing.
ServeBlob(o, what) ==
    /\ IF blob_exists(Member(o), Ask[o].digest) THEN Reply(o, what) ELSE NextMember(o)
    /\ UNCHANGED reads

do_get_blob(o) ==
    /\ Ask[o].repo \in Hosted /\ Reading(o, "get blob", Hosted)
    /\ ServeBlob(o, open_blob(Member(o), Ask[o].digest))
do_head_blob(o) ==
    /\ Ask[o].repo \in Hosted /\ Reading(o, "head blob", Hosted)
    /\ ServeBlob(o, Ask[o].digest)
proxy_get_blob(o) ==
    /\ Ask[o].repo = Proxy /\ Reading(o, "get blob", Hosted)
    /\ ServeBlob(o, open_blob(Member(o), Ask[o].digest))
proxy_head_blob(o) ==
    /\ Ask[o].repo = Proxy /\ Reading(o, "head blob", Hosted)
    /\ ServeBlob(o, Ask[o].digest)

\* Mutant: a tag is cached under the digest of the request, which has none.
FetchUnresolved(o, stale) ==
    /\ ops' = [ops EXCEPT ![o].pc = "blob", ![o].digest = Ask[o].digest]
    /\ UNCHANGED <<faults, risk>>

\* Upstream has the manifest a tag names now; what it sends for a digest is not
\* compared with the digest and may be another manifest.  It may know nothing of
\* it (the next member is asked), or fail (stale is the copy to serve instead).
fetch_upstream_manifest(o, stale) ==
    \/ \E sent \in IF Ask[o].tag = None THEN Images \cup {Ask[o].digest} ELSE {upstream} :
         /\ ops' = [ops EXCEPT ![o].pc = "blob", ![o].digest = sent]
         /\ risk' = risk \cup (IF Ask[o].tag = None /\ sent # Ask[o].digest THEN {"uncompared"} ELSE {})
         /\ UNCHANGED faults
    \/ Fails /\ NextMember(o) /\ UNCHANGED risk
    \/ Fails /\ Reply(o, IF stale # None THEN stale ELSE "error") /\ UNCHANGED risk

\* A tag past its time to live is fetched again; a digest never is.
cache_get_manifest(o) ==
    LET cached  == get_manifest(Cache, o)
        expired == Ask[o].tag # None /\ \E t \in TagOf(Cache, Ask[o].tag) : t.old
    IN
    /\ Reading(o, "get manifest", {Cache})
    /\ IF cached # None /\ ~expired THEN Reply(o, cached) /\ UNCHANGED <<faults, risk>>
       ELSE fetch_upstream_manifest(o, cached)
    /\ UNCHANGED <<objs, dedup, arts, manifests, tags, gc, fixed, sessions>>

\* HEAD is answered with a copy of any age.
cache_head_manifest(o) ==
    /\ Reading(o, "head manifest", {Cache})
    /\ IF get_manifest(Cache, o) # None
       THEN Reply(o, get_manifest(Cache, o)) /\ UNCHANGED <<faults, risk>>
       ELSE fetch_upstream_manifest(o, None)
    /\ UNCHANGED <<objs, dedup, arts, manifests, tags, gc, fixed, sessions>>

\* A blob comes whole or altered through a writer of the request's own id; the
\* writer is aborted when upstream does not have it or fails.
fetch_upstream_blob_to_writer(o, altered) ==
    \/ /\ objs' = Blobs!put(backend, objs, o, Ask[o].digest)
       /\ OpGoto(o, "layer claim")
       /\ UNCHANGED <<faults, risk>>
    \/ Fails /\ NextMember(o) /\ UNCHANGED <<objs, risk>>
    \/ Fails /\ Reply(o, "error") /\ UNCHANGED <<objs, risk>>
    \/ Fails /\ altered

\* Mutant: the digest is not compared.
CacheUnverified(o) ==
    /\ Reading(o, "get blob", {Cache})
    /\ IF blob_exists(Cache, Ask[o].digest)
       THEN Reply(o, open_blob(Cache, Ask[o].digest)) /\ UNCHANGED <<objs, faults, risk>>
       ELSE fetch_upstream_blob_to_writer(o,
              /\ objs' = Blobs!put(backend, objs, o, Altered)
              /\ OpGoto(o, "layer claim") /\ UNCHANGED risk)
    /\ UNCHANGED <<dedup, arts, manifests, tags, gc, fixed, sessions>>

\* GET compares the digest computed on the way and aborts.
cache_get_blob(o) ==
    /\ Reading(o, "get blob", {Cache})
    /\ IF blob_exists(Cache, Ask[o].digest)
       THEN Reply(o, open_blob(Cache, Ask[o].digest)) /\ UNCHANGED <<objs, faults, risk>>
       ELSE fetch_upstream_blob_to_writer(o, Reply(o, "error") /\ UNCHANGED <<objs, risk>>)
    /\ UNCHANGED <<dedup, arts, manifests, tags, gc, fixed, sessions>>

\* The digest computed on the way is not compared.
cache_head_blob(o) ==
    /\ Reading(o, "head blob", {Cache})
    /\ IF blob_exists(Cache, Ask[o].digest)
       THEN Reply(o, Ask[o].digest) /\ UNCHANGED <<objs, faults, risk>>
       ELSE fetch_upstream_blob_to_writer(o,
              /\ objs' = Blobs!put(backend, objs, o, Altered)
              /\ OpGoto(o, "layer claim")
              /\ risk' = risk \cup {"unverified"})
    /\ UNCHANGED <<dedup, arts, manifests, tags, gc, fixed, sessions>>

\* The blob is claimed by its content and recorded under the digest asked for;
\* a duplicate is deleted.
put_cached_blob(o) ==
    /\ \/ /\ OpAt(o, "layer claim")
          /\ IF Registered(Repo, objs[o]) = {}
             THEN /\ dedup' = dedup \cup {BlobRecord(Repo, objs[o], o)}
                  /\ ops' = [ops EXCEPT ![o].pc = "layer record", ![o].blob = o]
             ELSE /\ \E d \in Registered(Repo, objs[o]) :
                       ops' = [ops EXCEPT ![o].pc = "layer record", ![o].blob = d.blob]
                  /\ UNCHANGED dedup
          /\ UNCHANGED <<arts, objs>>
       \/ /\ OpAt(o, "layer record")
          /\ SetLayer(Cache, Ask[o].digest, ops[o].blob, FALSE)
          /\ objs' = IF ops[o].blob # o THEN Blobs!delete(backend, objs, o) ELSE objs
          /\ Reply(o, IF Kind(o) = "get blob" THEN objs[ops[o].blob] ELSE Ask[o].digest)
          /\ UNCHANGED dedup
    /\ UNCHANGED <<risk, faults, manifests, tags, gc, fixed, sessions>>

-----------------------------------------------------------------------------
(* Listings                                                                *)

\* The shards of a repository are folded as their scans end: its tags come in
\* any order.  The tags of the members of a proxy are merged in order.
Orders(S) == {q \in [1 .. Cardinality(S) -> S] : \A t \in S : \E i \in DOMAIN q : q[i] = t}
list_tags(repo) == Orders({t.tag : t \in {r \in tags : r.repo = repo}})

\* Mutant: the tags of the members are appended.
ListedAppended(repo) == Orders({t.tag : t \in tags})

ListedTags(repo) ==
    IF repo # Proxy THEN list_tags(repo)
    ELSE {q \in Orders({t.tag : t \in {r \in tags : \E i \in DOMAIN Members : Members[i] = r.repo}}) :
            \A i, j \in DOMAIN q : i < j => q[i] < q[j]}

\* One page: the tags after the cursor, in the order they came, PageSize of
\* them; the last one is the next cursor.  todo collects what was listed, and
\* digest the tags that were there all the while.
ListPage(o, order) ==
    LET after(t) == t > ops[o].last
        filtered == SelectSeq(order, after)
        n        == IF Len(filtered) > PageSize THEN PageSize ELSE Len(filtered)
        page     == SubSeq(filtered, 1, n)
        seen     == ops[o].todo \cup {page[i] : i \in 1 .. n}
        there    == {order[i] : i \in DOMAIN order}
        stayed   == IF ops[o].digest = None THEN there ELSE ops[o].digest \cap there
    IN IF Len(filtered) > n
       THEN ops' = [ops EXCEPT ![o].last = page[n], ![o].todo = seen, ![o].digest = stayed]
       ELSE ops' = [ops EXCEPT ![o].pc = "done", ![o].todo = seen, ![o].digest = stayed]

do_list_tags(o) ==
    /\ OpAt(o, "start") /\ Kind(o) = "list"
    /\ \E order \in ListedTags(Ask[o].repo) : ListPage(o, order)
    /\ UNCHANGED reads

\* The tag is pushed again upstream while a pull may still look there.
upstream_moves ==
    /\ \E o \in DOMAIN ops : OpAt(o, "start") /\ Kind(o) = "get manifest" /\ Passes(o)
    /\ upstream' \in Images \ {upstream}
    /\ UNCHANGED <<upload, manifests, tags, ops, gc, untagged, collect, foreign>>

-----------------------------------------------------------------------------
(* copy_tag, from Repo to Dest                                             *)

\* The closure of the tag is walked in Repo; a manifest that cannot be read
\* there ends the copy.  Ask[o].overwrite allows the tag to be in Dest already.
copy_tag(o) ==
    /\ OpAt(o, "start") /\ Kind(o) = "copy"
    /\ \/ /\ TagOf(Repo, Ask[o].tag) = {} \/ (~Ask[o].overwrite /\ TagOf(Dest, Ask[o].tag) # {})
          /\ Reply(o, "refused")
       \/ /\ Ask[o].overwrite \/ TagOf(Dest, Ask[o].tag) = {}
          /\ \E t \in TagOf(Repo, Ask[o].tag) :
               LET closure == Closure({t.digest}, [m \in Lists |-> Refs[m]]) IN
               IF \A m \in closure : get_manifest_by_digest(Repo, m) # None
               THEN ops' = [ops EXCEPT ![o].pc = "layers", ![o].digest = closure,
                               ![o].todo = UNION {Refs[m] : m \in closure \cap Images}]
               ELSE Reply(o, "error")
    /\ UNCHANGED reads

\* rehome_blob: into another store the bytes are copied and deduplicated there.
rehome_blob(content, id, blob) ==
    IF ~foreign THEN id = blob /\ UNCHANGED <<objs, dedup>>
    ELSE IF Registered(Dest, content) # {}
    THEN /\ \E d \in Registered(Dest, content) : id = d.blob
         /\ UNCHANGED <<objs, dedup>>
    ELSE /\ id = CopyId(content) /\ id \in OtherIds
         /\ objs' = Blobs!put(backend, objs, id, content)
         /\ dedup' = dedup \cup {BlobRecord(Dest, content, id)}

\* copy_record keeps the creation time; a record that is gone is passed over, a
\* blob that is gone ends the copy.  The layers go first, then the manifests.
CopyRisk(rec, there) ==
    risk' = risk \cup (IF \E r \in there \cup {rec} : r.old THEN {"copied"} ELSE {})

copy_layer(o) ==
    /\ OpAt(o, "layers")
    /\ IF ops[o].todo = {}
       THEN /\ ops' = [ops EXCEPT ![o].pc = "manifests", ![o].todo = ops[o].digest]
            /\ UNCHANGED <<objs, dedup, arts, risk>>
       ELSE LET l == CHOOSE x \in ops[o].todo : TRUE IN
            IF ~blob_exists(Repo, l)
            THEN /\ ops' = [ops EXCEPT ![o].todo = @ \ {l}]
                 /\ risk' = risk \cup {"elsewhere"} /\ UNCHANGED <<objs, dedup, arts>>
            ELSE \E a \in LayerOf(Repo, l) :
              IF foreign /\ objs[a.blob] = Absent
              THEN Reply(o, "error") /\ UNCHANGED <<objs, dedup, arts, risk>>
              ELSE \E id \in DOMAIN objs :
                     /\ rehome_blob(objs[a.blob], id, a.blob)
                     /\ SetLayer(Dest, l, id, a.old) /\ CopyRisk(a, LayerOf(Dest, l))
                     /\ ops' = [ops EXCEPT ![o].todo = @ \ {l}]
    /\ UNCHANGED <<faults, manifests, tags, gc, fixed, sessions>>

copy_manifest(o) ==
    /\ OpAt(o, "manifests")
    /\ IF ops[o].todo = {}
       THEN /\ OpGoto(o, "copy tag")
            /\ UNCHANGED <<objs, dedup, manifests, risk>>
       ELSE LET m == CHOOSE x \in ops[o].todo : TRUE IN
            IF ManifestOf(Repo, m) = {}
            THEN /\ ops' = [ops EXCEPT ![o].todo = @ \ {m}]
                 /\ risk' = risk \cup {"elsewhere"} /\ UNCHANGED <<objs, dedup, manifests>>
            ELSE \E r \in ManifestOf(Repo, m) :
              IF foreign /\ objs[r.blob] = Absent
              THEN Reply(o, "error") /\ UNCHANGED <<objs, dedup, manifests, risk>>
              ELSE \E id \in DOMAIN objs :
                     /\ rehome_blob(objs[r.blob], id, r.blob)
                     /\ SetManifest(Dest, m, id, r.old) /\ CopyRisk(r, ManifestOf(Dest, m))
                     /\ ops' = [ops EXCEPT ![o].todo = @ \ {m}]
    /\ UNCHANGED <<arts, faults, tags, gc, fixed, sessions>>

\* Mutant: a move deletes the tag before it is copied.
DropFirst(o) ==
    /\ OpAt(o, "copy tag")
    /\ tags' = tags \ TagOf(Repo, Ask[o].tag)
    /\ Reply(o, "moved")
    /\ UNCHANGED <<objs, dedup, arts, risk, faults, manifests, gc, fixed, sessions>>

\* The tag as it is by now, then, for a move, delete_tag in Repo, whatever the
\* tag names by then.
Retagged(o, now) == risk' = risk \cup (IF now \subseteq ops[o].digest THEN {} ELSE {"retagged"})
copy_last(o) ==
    /\ \/ /\ OpAt(o, "copy tag")
          /\ LET now == {t.digest : t \in TagOf(Repo, Ask[o].tag)}
             IN ops' = [ops EXCEPT ![o].pc = "drop tag", ![o].digest = now] /\ Retagged(o, now)
          /\ IF TagOf(Repo, Ask[o].tag) = {} THEN UNCHANGED tags
             ELSE \E t \in TagOf(Repo, Ask[o].tag) : SetTag(Dest, t.tag, t.digest, t.old)
       \/ /\ OpAt(o, "drop tag")
          /\ IF Ask[o].move
             THEN /\ tags' = tags \ TagOf(Repo, Ask[o].tag)
                  /\ Retagged(o, {t.digest : t \in TagOf(Repo, Ask[o].tag)})
             ELSE UNCHANGED <<tags, risk>>
          /\ Reply(o, "moved")
    /\ UNCHANGED <<objs, dedup, arts, faults, manifests, gc, fixed, sessions>>

\* delete_tag of the administration interface.
delete_tag(o) ==
    /\ OpAt(o, "start") /\ Kind(o) = "untag"
    /\ tags' = tags \ TagOf(Ask[o].repo, Ask[o].tag)
    /\ Reply(o, "deleted")
    /\ UNCHANGED <<upload, manifests, gc, fixed>>

-----------------------------------------------------------------------------
(* docker_gc                                                               *)

GcRepo == collect[gc.turn]
GcDone == gc' = GcIdle((gc.turn % Len(collect)) + 1)
frame == <<backend, objs, session, dedup, req, clean, acked, ops, tags, fixed>>

\* The grace cutoff is taken when the pass starts.
gc_start ==
    /\ gc.pc = "idle" /\ collect # <<>>
    /\ gc' = [gc EXCEPT !.pc = "scan", !.todo = {"blobs", "manifests", "tags"}]
    /\ UNCHANGED <<arts, manifests, risk, faults, frame>>

\* The shards are scanned at their own pace: records of the three kinds are
\* read at different times.
gc_scan(kind) ==
    /\ gc.pc = "scan" /\ kind \in gc.todo
    /\ gc' = [gc EXCEPT
                !.todo = @ \ {kind}, !.pc = IF gc.todo = {kind} THEN "sweep" ELSE "scan",
                !.arts = IF kind = "blobs" THEN {a \in arts : a.repo = GcRepo} ELSE @,
                !.manifests = IF kind = "manifests" THEN {m \in manifests : m.repo = GcRepo} ELSE @,
                !.tags = IF kind = "tags" THEN {t \in tags : t.repo = GcRepo} ELSE @]
    /\ UNCHANGED <<arts, manifests, risk, faults, frame>>

\* read_manifest_json: a manifest that cannot be read now counts as empty.
Unread(lost) ==
    IF lost = {} THEN UNCHANGED <<faults, risk>>
    ELSE Fails /\ risk' = risk \cup {"unread"}

read_manifest_json(lost) ==
    {m.digest : m \in {r \in gc.manifests : Holds(GcRepo, r.blob) # Absent}} \ lost

\* Mutants: no grace period; only young records are collected.
DoomedAtOnce(live) == {a.digest : a \in {r \in gc.arts : r.digest \notin live}}
DoomedYoung(live) == {a.digest : a \in {r \in gc.arts : ~r.old /\ r.digest \notin live}}

\* The scanned references are held in a Bloom filter with fresh seeds each pass;
\* its false positives (1 %) spare a record until a later pass and are left out.
Doomed(live) == {a.digest : a \in {r \in gc.arts : r.old /\ r.digest \notin live}}

\* Phase A: old layer records no scanned manifest refers to.
gc_sweep ==
    /\ gc.pc = "sweep"
    /\ \E lost \in {{}} \cup {{m} : m \in Manifests} :
         LET doomed == Doomed(UNION {Refs[m] : m \in read_manifest_json(lost)})
         IN /\ arts' = {a \in arts : a.repo # GcRepo \/ a.digest \notin doomed}
            /\ lost \subseteq read_manifest_json({}) /\ Unread(lost)
    /\ IF untagged THEN gc' = [gc EXCEPT !.pc = "untagged", !.arts = {}] ELSE GcDone
    /\ UNCHANGED <<manifests, frame>>

\* Phase B: old manifests no scanned tag reaches.
gc_untagged ==
    /\ gc.pc = "untagged"
    /\ \E lost \in {{}} \cup {{m} : m \in Lists} :
         LET known  == read_manifest_json(lost) \cap Lists
             live   == Closure({t.digest : t \in gc.tags}, [m \in known |-> Refs[m]])
             doomed == {m.digest : m \in {r \in gc.manifests : r.old /\ r.digest \notin live}}
         IN /\ manifests' = {m \in manifests : m.repo # GcRepo \/ m.digest \notin doomed}
            /\ lost \subseteq read_manifest_json({}) /\ Unread(lost)
    /\ GcDone
    /\ UNCHANGED <<arts, frame>>

\* DOCKER_GC_GRACE_SECS, or the time to live of a cached tag, goes by.
InFlight == \/ \E o \in DOMAIN ops : ops[o].pc \notin {"start", "done"}
            \/ \E r \in Uploads : Running(r)

RecordsAge(repo) ==
    LET aged(r) == IF r.repo = repo THEN [r EXCEPT !.old = TRUE] ELSE r IN
    /\ gc.pc = "idle" /\ \E i \in DOMAIN collect : collect[i] = repo
    /\ \E r \in arts \cup manifests \cup tags : r.repo = repo /\ ~r.old
    /\ arts' = {aged(a) : a \in arts}
    /\ manifests' = {aged(m) : m \in manifests}
    /\ tags' = {aged(t) : t \in tags}
    /\ risk' = risk \cup (IF InFlight THEN {"slow"} ELSE {})
    /\ UNCHANGED <<backend, objs, session, dedup, req, clean, acked, faults, ops, gc, fixed>>

-----------------------------------------------------------------------------
PullStep(o) ==
    \/ do_get_manifest(o) \/ do_head_manifest(o) \/ do_get_blob(o) \/ do_head_blob(o)
    \/ proxy_get_manifest(o) \/ proxy_head_manifest(o) \/ proxy_get_blob(o) \/ proxy_head_blob(o)
    \/ cache_get_manifest(o) \/ cache_head_manifest(o) \/ cache_get_blob(o) \/ cache_head_blob(o)
    \/ put_cached_blob(o) \/ not_found(o) \/ do_list_tags(o)

PushStep(o) ==
    do_put_manifest(o) \/ put_manifest(o) \/ do_delete_manifest(o) \/ mount_blob(o) \/ delete_tag(o)

CopyStep(o) == copy_tag(o) \/ copy_layer(o) \/ copy_manifest(o) \/ copy_last(o)

GcStep == gc_start \/ (\E kind \in {"blobs", "manifests", "tags"} : gc_scan(kind))
          \/ gc_sweep \/ gc_untagged

Next ==
    \/ UploadNext /\ UNCHANGED registry
    \/ \E o \in DOMAIN ops : PullStep(o) \/ PushStep(o) \/ CopyStep(o)
    \/ GcStep \/ upstream_moves
    \/ \E repo \in {Repo, Dest, Cache} : RecordsAge(repo)

Init == \E load \in Workloads : 
    /\ UploadInit(load.backend, load.uploads,
                  load.ops \cup (IF load.foreign THEN OtherIds ELSE {}))
    /\ RegistryInit(load)

\* The cleanup worker and the collector go on; clients may do nothing.
Fairness ==
    /\ WF_all(Age /\ UNCHANGED registry) /\ WF_all(CleanStep /\ UNCHANGED registry)
    /\ WF_all(GcStep)

Spec == Init /\ [][Next]_all /\ Fairness

-----------------------------------------------------------------------------
(* Properties.                                                             *)

\* An image can be pulled: its manifests are readable, and every layer has its
\* record and its content.
Complete(repo, digest) ==
    \A m \in Closure({digest}, [l \in Lists |-> Refs[l]]) :
      /\ get_manifest_by_digest(repo, m) = m
      /\ m \in Images => \A l \in Refs[m] : open_blob(repo, l) = l

\* A tag of a hosted repository names an image that can be pulled, or one whose
\* push is about to write its manifest, unless the image was deleted by its
\* digest, or a push, a promotion or a collection met one of the circumstances
\* in Risks that the grace period does not cover.
TaggedPullable ==
    risk = {} =>
      \A t \in tags :
        t.repo \in Hosted =>
          \/ Complete(t.repo, t.digest)
          \/ \E o \in DOMAIN ops : OpAt(o, "manifest") /\ ops[o].digest = t.digest

\* A move leaves the image in one of the two repositories at every moment: the
\* tag is copied after what it refers to and deleted after it was copied.  Not
\* if the tag was pushed again in between: what it names then is not looked at,
\* and goes with it ("retagged").
MoveKeepsImage ==
    [][risk' = {} =>
         \A t \in tags :
           (t.repo = Repo /\ Complete(Repo, t.digest) /\ TagOf(Repo, t.tag)' = {})
           => \/ \E o \in DOMAIN ops : Kind(o) = "untag" /\ ops[o] # ops'[o]
              \/ \E u \in TagOf(Dest, t.tag)' : u.digest = t.digest /\ Complete(Dest, u.digest)']_all

\* What a digest is answered with has this digest, except after a HEAD stored
\* what upstream sent without comparing (cache_head_blob), or an upload met one of
\* the three circumstances of LostOnlyAtRisk.  A manifest that upstream sent is
\* not compared either (cache_get_manifest): it is passed on to the client that
\* asked, but kept under its own digest, where nobody else takes it for another.
AnswerFits(o) ==
    (Kind(o) \in {"get blob", "get manifest"} /\ Ask[o].tag = None)
    => \/ ops[o].answer \in {None, Ask[o].digest, "not found", "error"}
       \/ "uncompared" \in risk /\ Kind(o) = "get manifest" /\ Passes(o)
AnswersMatch ==
    risk \cap (UploadRisks \cup {"unverified"}) = {} =>
      /\ \A o \in DOMAIN ops : AnswerFits(o)
      /\ \A m \in manifests : objs[m.blob] = <<m.digest>>

\* Following the pages of a proxy's listing to the end shows every tag that was
\* there all the while (the cursor of do_list_tags).
ProxyListsAll ==
    \A o \in DOMAIN ops :
      (Kind(o) = "list" /\ Ask[o].repo = Proxy /\ OpAt(o, "done"))
      => ops[o].digest \subseteq ops[o].todo

\* What clients are shown is right: tags name images that can be pulled, answers
\* have the digest that was asked for, listings skip nothing.
RegistrySafe == TaggedPullable /\ AnswersMatch /\ ProxyListsAll

\* An old layer record that no manifest of its repository refers to does not
\* stay in a repository that is collected (phase A of docker_gc).
Garbage == {a \in arts : /\ a.old /\ \E i \in DOMAIN collect : collect[i] = a.repo
                         /\ \A m \in manifests : m.repo = a.repo => a.digest \notin Refs[m.digest]}
LayersCollected == []<>(Garbage = {})

\* Abandoned sessions and unreferenced layer records do not stay, whatever
\* clients do and wherever they stop.
Reclaimed == SessionEnds /\ LayersCollected
=============================================================================
