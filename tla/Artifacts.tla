----------------------------- MODULE Artifacts ------------------------------
(***************************************************************************)
(* Files of raw repositories: upload, download, listing, deletion of one   *)
(* and of all under a directory (server/api/artifacts.rs,                  *)
(* server/worker/bulk_delete.rs, core/src/repo, core/src/service/artifact). *)
(* A record is [repo, path, by, in, id]: the upload that wrote it, the     *)
(* creation of the repository it was meant for and its blob, None for a    *)
(* Docker tag.  The browse tree has an entry for each record, written and  *)
(* deleted after it.  Blobs and their records are [store, id].             *)
(***************************************************************************)
EXTENDS Server, FiniteSetsExt

CONSTANTS
    ProxyRepo,  \* a proxy
    Members,    \* its members in order of priority
    WriteMember,\* and the one that takes uploads
    Siblings,   \* the paths under a directory whose name begins with that of the one deleted in bulk
    PageLimit   \* how many files are on a page


\* An admin's role grants everything, the other what its record says.
check_grants(who) == is_admin(who.user) \/ who.role = "grants"
check_permission(r) == check_grants(Who(r))

\* The repositories a request is about: members that are not there are skipped.
Targets(n) == SelectSeq(IF n = ProxyRepo /\ n \in list_repos THEN Members ELSE <<n>>, LAMBDA m : m \in list_repos)

\* One of them has the file.
Holds(r, p) == \E k \in DOMAIN Targets(On(r)) : Of(kv.arts, Targets(On(r))[k], p) # {}

-----------------------------------------------------------------------------
(* Upload.                                                                 *)

\* The repository and the instance's copy of its store are looked up, and the
\* body streamed to a blob.  A proxy writes to the member it is configured with.
\* A Docker tag, which has no blob, is pushed after its manifest.
resolve_write_target(n) == IF n = ProxyRepo THEN SelectSeq(Targets(n), LAMBDA m : m = WriteMember) ELSE Targets(n)
put_artifact(r) ==
    /\ Asks(r, "put") /\ check_permission(r)
    /\ To(r) \in Tags => Holds(r, ManifestOf[To(r)])
    /\ IF resolve_write_target(On(r)) = <<>> THEN Reply(r, "not_found")
       ELSE LET n == Head(resolve_write_target(On(r)))
            IN IF kv.repos[n].store \notin Inst(r).stores THEN Reply(r, "no_store")
               ELSE Keep(r, "stream", [repo |-> n, in |-> kv.repos[n].made, store |-> kv.repos[n].store])
    /\ Risk(Overlap(r)) /\ UNCHANGED kv /\ Kept

\* The blob and its record, the artifact's, the tree entry: without looking at
\* the repository or the store again.
BlobId(n, p, by) == IF p \in Tags THEN None ELSE <<n, p, by>>
Blob(s, id) == [store |-> s, id |-> id]
commit_ingestion(r) ==
    /\ At(r, "stream")
    /\ LET b == {Blob(reqs[r].got.store, BlobId(reqs[r].got.repo, To(r), r))} \ {Blob(reqs[r].got.store, None)}
       IN kv' = [kv EXCEPT !.blobs = @ \cup b, !.recs = @ \cup b]
    /\ Keep(r, "record", reqs[r].got)
    /\ Risk(Overlap(r) \cup During) /\ Kept
put_record(r) ==
    /\ At(r, "record")
    /\ LET g == reqs[r].got
       IN /\ kv' = [kv EXCEPT !.arts = (@ \ Of(@, g.repo, To(r))) \cup {[repo |-> g.repo, path |-> To(r), by |-> r, in |-> g.in, id |-> BlobId(g.repo, To(r), r)]}]
          /\ Risk(Overlap(r) \cup During \cup IF Meant(g) THEN {} ELSE {"late"})
    /\ Keep(r, "entry", reqs[r].got)
    /\ Kept
upsert_tree_file(r) ==
    /\ At(r, "entry") /\ Kind(r) = "put"
    /\ LET g == reqs[r].got
       IN /\ kv' = [kv EXCEPT !.tree = (@ \ Of(@, g.repo, To(r))) \cup {[repo |-> g.repo, path |-> To(r), in |-> g.in]}]
          /\ Risk(Overlap(r) \cup IF Meant(g) THEN {} ELSE {"late"})
    /\ Reply(r, "ok")
    /\ Kept

-----------------------------------------------------------------------------
(* Deletion, from every member of a proxy.                                 *)

delete_artifact(r) ==
    /\ Asks(r, "delete") /\ check_permission(r)
    /\ IF Targets(On(r)) = <<>> THEN Reply(r, "not_found")
       ELSE reqs' = [reqs EXCEPT ![r].pc = "delete", ![r].todo = Targets(On(r))]
    /\ Risk(Overlap(r)) /\ UNCHANGED kv /\ Kept
delete_record(r) ==
    /\ At(r, "delete")
    /\ IF reqs[r].todo = <<>> THEN Reply(r, IF reqs[r].got = None THEN "not_found" ELSE "ok") /\ UNCHANGED kv
       ELSE LET n == Head(reqs[r].todo)
            IN IF Of(kv.arts, n, To(r)) = {}
               THEN reqs' = [reqs EXCEPT ![r].todo = Tail(@)] /\ UNCHANGED kv
               ELSE Keep(r, "entry", n) /\ kv' = [kv EXCEPT !.arts = @ \ Of(@, n, To(r))]
    /\ Risk(Overlap(r)) /\ Kept
delete_tree_file(r) ==
    /\ At(r, "entry") /\ Kind(r) = "delete"
    /\ kv' = [kv EXCEPT !.tree = @ \ Of(@, Head(reqs[r].todo), To(r))]
    /\ reqs' = [reqs EXCEPT ![r].pc = "delete", ![r].todo = Tail(@)]
    /\ Risk(Overlap(r)) /\ Kept

\* A task is made unless one for the same directory is known to run.
start_bulk_delete(r) ==
    /\ \/ /\ Asks(r, "bulk_delete") /\ check_permission(r)
          /\ IF Targets(On(r)) = <<>> THEN Reply(r, "not_found")
             ELSE IF \E q \in DOMAIN reqs \ {r} : Kind(q) = "bulk_delete" /\ On(q) = On(r) /\ kv.tasks[q] = "running"
             THEN Reply(r, "conflict")
             ELSE reqs' = [reqs EXCEPT ![r].pc = "bulk_create", ![r].todo = Targets(On(r))]
          /\ UNCHANGED kv
       \/ /\ At(r, "bulk_create")
          /\ kv' = [kv EXCEPT !.tasks[r] = "running"]
          /\ Goto(r, "bulk_tree")
    /\ Risk(Overlap(r)) /\ Kept

\* A repository at a time: the entries of the directory, so that it disappears
\* from the listing at once, then the records whose path begins with its name
\* and a slash.
\* Mutant: without the slash.
BeginsWith(p) == p \in Under \cup Siblings
HasPrefix(p) == p \in Under
delete_tree_recursive(r) ==
    /\ At(r, "bulk_tree")
    /\ kv' = [kv EXCEPT !.tree = {x \in @ : x.repo # Head(reqs[r].todo) \/ x.path \notin Under}]
    /\ Goto(r, "bulk_arts")
    /\ Risk(Overlap(r)) /\ Kept
delete_prefix_artifacts(r) ==
    /\ At(r, "bulk_arts")
    /\ kv' = [kv EXCEPT !.arts = {x \in @ : x.repo # Head(reqs[r].todo) \/ ~HasPrefix(x.path)}]
    /\ reqs' = [reqs EXCEPT ![r].pc = "bulk_next", ![r].todo = Tail(@)]
    /\ Risk(Overlap(r)) /\ Kept
\* Mutant: the task ends with the first repository.
bulk_delete_first(r) ==
    /\ At(r, "bulk_next")
    /\ Reply(r, "ok") /\ kv' = [kv EXCEPT !.tasks[r] = "completed"]
    /\ Risk(Overlap(r)) /\ Kept
bulk_delete(r) ==
    /\ At(r, "bulk_next")
    /\ IF reqs[r].todo # <<>> THEN Goto(r, "bulk_tree") /\ UNCHANGED kv
       ELSE Reply(r, "ok") /\ kv' = [kv EXCEPT !.tasks[r] = "completed"]
    /\ Risk(Overlap(r)) /\ Kept

-----------------------------------------------------------------------------
(* Expiry by the policy of a repository: what was there at first is old.   *)

clean_repo(r) ==
    /\ \/ /\ Asks(r, "clean") /\ require_admin(r)
          /\ IF get_repo(On(r)) = None THEN Reply(r, "not_found")
             ELSE IF \E q \in DOMAIN reqs \ {r} : Kind(q) = "clean" /\ On(q) = On(r) /\ kv.tasks[q] = "running"
             THEN Reply(r, "conflict")
             ELSE Goto(r, "clean_create")
          /\ UNCHANGED kv
       \/ /\ At(r, "clean_create")
          /\ kv' = [kv EXCEPT !.tasks[r] = "running"]
          /\ Goto(r, "expire")
    /\ Risk(Overlap(r)) /\ Kept

\* Mutant: whatever its age.
record_any(x) == TRUE
record_expired(x) == x.by = "init"

\* A page is read, its old records picked,
expire_repo_artifacts(r) ==
    /\ At(r, "expire")
    /\ Keep(r, "expire_records", {x.path : x \in {y \in kv.arts : y.repo = On(r) /\ record_expired(y)}})
    /\ Risk(Overlap(r)) /\ UNCHANGED kv /\ Kept

\* and what is by then at their paths deleted, records before entries.
AtPaths(set, r) == {x \in set : x.repo = On(r) /\ x.path \in reqs[r].got}
delete_artifacts_paired_batch(r) ==
    \/ /\ At(r, "expire_records")
       /\ kv' = [kv EXCEPT !.arts = @ \ AtPaths(@, r)]
       /\ Keep(r, "expire_entries", reqs[r].got)
       /\ Risk(Overlap(r) \cup IF \E x \in AtPaths(kv.arts, r) : ~record_expired(x) THEN {"expired_anew"} ELSE {})
       /\ Kept
    \/ /\ At(r, "expire_entries")
       /\ kv' = [kv EXCEPT !.tree = @ \ AtPaths(@, r), !.tasks[r] = "completed"]
       /\ Reply(r, "ok")
       /\ Risk(Overlap(r)) /\ Kept

-----------------------------------------------------------------------------
(* Reading.                                                                *)

\* The first member that has it answers.
get_artifact(r) ==
    /\ Asks(r, "get") /\ check_permission(r)
    /\ Reply(r, IF Holds(r, To(r)) THEN "ok" ELSE "not_found")
    /\ UNCHANGED <<kv, risk>> /\ Kept

\* Their metadata are looked for in the same order.
head_artifact(r) ==
    /\ Asks(r, "head") /\ check_permission(r)
    /\ Reply(r, IF Holds(r, To(r)) THEN "ok" ELSE "not_found")
    /\ UNCHANGED <<kv, risk>> /\ Kept

\* A page of a member: what follows the cursor, in the order of paths.
PathsOf(n, cursor) == {x.path : x \in {y \in kv.arts : y.repo = n /\ y.path > cursor}}
FirstOf(set, k) == {p \in set : Cardinality({q \in set : q < p}) < k}
list_artifacts(n, cursor, limit) == FirstOf(PathsOf(n, cursor), limit)

\* What a listing is about, members that are being deleted included; all keeps
\* what was there the whole time.
Listed(n) == IF n = ProxyRepo THEN Members ELSE Targets(n)
Present(r) == {x \in kv.arts : \E k \in DOMAIN Listed(On(r)) : Listed(On(r))[k] = x.repo}

\* An archive has the files that the browse trees of the members list, one member
\* after the other, under the directory; what is gone when its turn comes is left
\* out.
InTree(x) == x.repo \in list_repos /\ x.path \in Under /\ Of(kv.tree, x.repo, x.path) # {}
Browsed(n) == {x.path : x \in {y \in kv.tree : y.repo = n}} \cap Under
collect_archive_files(r) ==
    /\ \/ /\ Asks(r, "archive") /\ check_permission(r)
          /\ reqs' = [reqs EXCEPT ![r].pc = "collect", ![r].todo = Listed(On(r)),
                        ![r].got = [files |-> {}, listed |-> {}, all |-> {x \in Present(r) : InTree(x)}]]
       \/ /\ At(r, "collect") /\ reqs[r].todo # <<>>
          /\ reqs' = [reqs EXCEPT ![r].todo = Tail(@), ![r].got.files = @ \cup Browsed(Head(reqs[r].todo))]
    /\ UNCHANGED <<kv, risk>> /\ Kept
fetch_for_archive(r) ==
    /\ At(r, "collect") /\ reqs[r].todo = <<>> /\ reqs[r].got.files # {}
    /\ LET p == Min(reqs[r].got.files)
       IN reqs' = [reqs EXCEPT ![r].got.files = @ \ {p}, ![r].got.listed = @ \cup {q \in {p} : Holds(r, q)}]
    /\ UNCHANGED <<kv, risk>> /\ Kept
download_archive(r) ==
    /\ At(r, "collect") /\ reqs[r].todo = <<>> /\ reqs[r].got.files = {}
    /\ reqs' = [reqs EXCEPT ![r] =
         Answered(r, "ok", [listed |-> reqs[r].got.listed, all |-> {x \in reqs[r].got.all \cap Present(r) : InTree(x)}])]
    /\ UNCHANGED <<kv, risk>> /\ Kept

\* Members are asked in turn for one more than a page; what is left over when
\* the page is cut says that there is another.  A member that fails is skipped.
paginated_merge(r) ==
    \/ /\ Asks(r, "list") /\ check_permission(r)
       /\ reqs' = [reqs EXCEPT ![r].pc = "page", ![r].todo = Listed(On(r)),
                     ![r].got = [cursor |-> 0, merged |-> {}, listed |-> {}, all |-> Present(r)]]
       /\ UNCHANGED <<kv, risk, mem, drain, live, ports, parts, faults>>
    \/ /\ At(r, "page") /\ reqs[r].todo # <<>>
       /\ \/ /\ reqs' = [reqs EXCEPT ![r].todo = Tail(@),
                           ![r].got.merged = @ \cup list_artifacts(Head(reqs[r].todo), reqs[r].got.cursor, PageLimit + 1)]
             /\ UNCHANGED <<risk, faults>>
          \/ /\ faults > 0 /\ faults' = faults - 1
             /\ reqs' = [reqs EXCEPT ![r].todo = Tail(@)]
             /\ Risk({"member_failed"})
       /\ UNCHANGED <<kv, mem, drain, live, ports, parts>>

\* The walk ends with the page after which nothing is left.
\* Mutant: the cursor is the last of what was fetched, not of the page.
paginate_fetched(r) ==
    /\ At(r, "page") /\ reqs[r].todo = <<>>
    /\ LET g == reqs[r].got
           page == FirstOf(g.merged, PageLimit)
           kept == g.all \cap Present(r)
       IN reqs' = [reqs EXCEPT ![r] =
            IF page = g.merged
            THEN Answered(r, "ok", [listed |-> g.listed \cup page, all |-> kept])
            ELSE [@ EXCEPT !.todo = Listed(On(r)),
                           !.got = [cursor |-> Max(g.merged), merged |-> {}, listed |-> g.listed \cup page, all |-> kept]]]
    /\ UNCHANGED <<kv, risk>> /\ Kept
paginate_results(r) ==
    /\ At(r, "page") /\ reqs[r].todo = <<>>
    /\ LET g == reqs[r].got
           page == FirstOf(g.merged, PageLimit)
           kept == g.all \cap Present(r)
       IN reqs' = [reqs EXCEPT ![r] =
            IF page = g.merged
            THEN Answered(r, "ok", [listed |-> g.listed \cup page, all |-> kept])
            ELSE [@ EXCEPT !.todo = Listed(On(r)),
                           !.got = [cursor |-> Max(page), merged |-> {}, listed |-> g.listed \cup page, all |-> kept]]]
    /\ UNCHANGED <<kv, risk>> /\ Kept

\* Blobs that nothing refers to are collected, with the lease, after the drain.
collect ==
    /\ "gc" \in parts /\ Leased = {} /\ drain["gc"].pc = "idle"
    /\ \E b \in kv.blobs :
         /\ ~\E x \in kv.arts : x.id = b.id
         /\ ~\E q \in Busy : At(q, "record") /\ b.id[3] = q
         /\ kv' = [kv EXCEPT !.blobs = @ \ {b}, !.recs = @ \ {b}]
    /\ UNCHANGED <<reqs, risk>> /\ Kept

ArtifactStep(r) ==
    \/ put_artifact(r) \/ commit_ingestion(r) \/ put_record(r) \/ upsert_tree_file(r)
    \/ delete_artifact(r) \/ delete_record(r) \/ delete_tree_file(r)
    \/ start_bulk_delete(r) \/ delete_tree_recursive(r) \/ delete_prefix_artifacts(r) \/ bulk_delete(r)
    \/ clean_repo(r) \/ expire_repo_artifacts(r) \/ delete_artifacts_paired_batch(r)
    \/ collect_archive_files(r) \/ fetch_for_archive(r) \/ download_archive(r)
    \/ get_artifact(r) \/ head_artifact(r) \/ paginated_merge(r) \/ paginate_results(r)
=============================================================================
