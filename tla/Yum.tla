-------------------------------- MODULE Yum ---------------------------------
(***************************************************************************)
(* Yum repositories (format/yum).  repomd.xml is the commit point, one for *)
(* each directory down to repodata_depth; the files it names are stored    *)
(* under their checksum.  Snapshots are copies below another path.         *)
(* A request works with the repodata_depth of the configuration it loaded  *)
(* when it came, whatever the depth is by then.                             *)
(***************************************************************************)
EXTENDS PackageRepo

commit_package(r) == CommitRecord(r)

\* A change of depth sets the flag of its repository only.
set_stale_flag_inner(r) ==
    \/ Kind(r) # "depth" /\ SetFlag(r, Ask[r].repo, IF Kind(r) = "get" THEN "lazy" ELSE "done")
    \/ /\ Kind(r) = "depth" /\ At(r, "flag")
       /\ flags' = flags \cup {Hosted} /\ Goto(r, "clear")
       /\ Quiet /\ UNCHANGED <<recs, index, files, offer, fresh, keys, depth, extra>>

handle_upload(r) == Kind(r) # "nexus" /\ (commit_package(r) \/ set_stale_flag_inner(r))
upload_component_yum(r) == Kind(r) = "nexus" /\ (commit_package(r) \/ FlagAlone(r))

-----------------------------------------------------------------------------
(* Hosted repositories and their snapshots.                                *)

is_metadata_stale(spot) == spot \in flags

\* The configuration is loaded, with the depth of that moment.
yum_store_from_config(r) ==
    /\ Asks(r, "get", {Hosted, Snap}) \/ Asks(r, "snapshot", {Hosted})
    /\ reqs' = [reqs EXCEPT ![r].pc = "loaded", ![r].depth = depth]
    /\ Quiet /\ UNCHANGED state

\* The path of a snapshot's metadata is one of metadata too (is_repodata_path): a
\* stale repository is rebuilt before its snapshot is served.
serve_metadata(r) ==
    /\ At(r, "loaded") /\ Kind(r) = "get"
    /\ reqs' = [reqs EXCEPT ![r].pc = IF is_metadata_stale(Hosted) THEN "clear" ELSE "serve",
                            ![r].cur = IF is_metadata_stale(Hosted) THEN Hosted ELSE @]
    /\ Quiet /\ UNCHANGED state

\* The directories with an index of their own.
ByDirectory(deep, list) == IF deep = 0 THEN {Root} ELSE {DirFor(Hosted, e.pkg, deep) : e \in list}
AfterRebuild(r) ==
    CASE Kind(r) = "snapshot" -> "snapshot" [] Kind(r) = "depth" -> "rebuilt" [] OTHER -> "serve"

\* Mutant: repomd.xml is written before the files it names.
RebuildCommitFirst(r) ==
    \/ ClearFlag(r) \/ ScanShard(r, ByDirectory) \/ NoIndex(r, AfterRebuild(r))
    \/ /\ At(r, "write")
       /\ \E d \in reqs[r].todo :
            /\ PutIndex(reqs[r].cur, d, Part(r, d), None)
            /\ reqs' = [reqs EXCEPT ![r].pc = "commit", ![r].dir = d]
       /\ Quiet /\ UNCHANGED <<recs, flags, files, offer, fresh, keys, depth, extra>>
    \/ /\ At(r, "commit")
       /\ files' = files \cup {[spot |-> reqs[r].cur, dir |-> reqs[r].dir, list |-> Part(r, reqs[r].dir)]}
       /\ reqs' = [reqs EXCEPT ![r].pc = "write", ![r].todo = @ \ {reqs[r].dir}, ![r].dir = Root]
       /\ Quiet /\ UNCHANGED <<recs, flags, index, offer, fresh, keys, depth, extra>>

clear_stale_flag(r) == ClearFlag(r)
store_metadata_file(r) == WriteFiles(r)
store_repomd_at(r) == CommitIndex(r, AfterRebuild(r))

\* A directory whose last package went keeps its repomd.xml.
rebuild_metadata(r) ==
    \/ clear_stale_flag(r) \/ ScanShard(r, ByDirectory) \/ NoIndex(r, AfterRebuild(r))
    \/ store_metadata_file(r) \/ store_repomd_at(r)

\* What the snapshot lacks is read from the repository itself, each file for
\* itself.
get_snapshot_metadata(dir) ==
    LET points == IF CommitPoint(Snap, dir) # {} THEN CommitPoint(Snap, dir) ELSE CommitPoint(Hosted, dir)
        found  == {i \in points : \E s \in {Snap, Hosted} : [spot |-> s, dir |-> dir, list |-> i.list] \in files}
    IN IF found = {} THEN None ELSE (CHOOSE i \in found : TRUE).list

get_metadata(r) ==
    LET dir == DirFor(Hosted, Ask[r].pkg, reqs[r].depth) IN
    /\ At(r, "serve")
    /\ CASE Ask[r].repo = Snap   -> Reply(r, get_snapshot_metadata(dir))
         [] Ask[r].repo = Hosted -> Reply(r, Served(Hosted, dir))
         [] OTHER                -> Reply(r, Served(Ask[r].repo, Root))
    /\ Quiet /\ UNCHANGED state

\* The repository is brought up to date before it is copied.
handle_create_snapshot(r) ==
    /\ At(r, "loaded") /\ Kind(r) = "snapshot"
    /\ Goto(r, IF is_metadata_stale(Hosted) THEN "clear" ELSE "snapshot")
    /\ Quiet /\ UNCHANGED state

\* Every repomd.xml is copied, after the records of the files it names.
create_snapshot(r) ==
    \/ /\ At(r, "snapshot")
       /\ LET found == {i \in index : i.spot = Hosted} IN
          IF found = {} THEN Reply(r, "not found")
          ELSE reqs' = [reqs EXCEPT ![r].pc = "snap files", ![r].todo = {i.dir : i \in found}]
       /\ Quiet /\ UNCHANGED state
    \/ /\ At(r, "snap files")
       /\ \E d \in reqs[r].todo :
            LET found == CommitPoint(Hosted, d) IN
            \/ /\ found = {}
               /\ reqs' = [reqs EXCEPT ![r].todo = @ \ {d}]
               /\ UNCHANGED files
            \/ \E i \in found :
                 /\ files' = files \cup {[f EXCEPT !.spot = Snap] :
                                f \in {g \in files : g.spot = Hosted /\ g.dir = d /\ g.list = i.list}}
                 /\ reqs' = [reqs EXCEPT ![r].pc = "snap commit", ![r].dir = d, ![r].list = i.list]
       /\ Quiet /\ UNCHANGED <<recs, flags, index, offer, fresh, keys, depth, extra>>
    \/ /\ At(r, "snap commit")
       /\ PutIndex(Snap, reqs[r].dir, reqs[r].list, None)
       /\ reqs' = [reqs EXCEPT ![r].pc = "snap files", ![r].todo = @ \ {reqs[r].dir}]
       /\ Quiet /\ UNCHANGED <<recs, flags, files, offer, fresh, keys, depth, extra>>
    \/ /\ At(r, "snap files") /\ reqs[r].todo = {} /\ Reply(r, "created")
       /\ Quiet /\ UNCHANGED state

-----------------------------------------------------------------------------
(* A change of repodata_depth.                                             *)

Path(i) == [spot |-> i.spot, dir |-> i.dir]
Loaded(q) == Kind(q) \in {"get", "snapshot", "depth"} /\ reqs[q].pc \notin {"start", "done"}

\* The new depth is recorded; a task of its own does the rest.  A request that
\* loaded the old depth goes on with it.
update_repo(r) ==
    /\ Asks(r, "depth", {Hosted})
    /\ depth' = 1 - depth
    /\ reqs' = [reqs EXCEPT ![r].pc = "changed", ![r].depth = 1 - depth]
    /\ risk' = risk \cup {"divided"}
              \cup (IF \E q \in DOMAIN reqs : reqs[q].depth = depth /\ Loaded(q) THEN {"outlived"} ELSE {})
    /\ UNCHANGED <<format, faults, recs, flags, index, files, offer, fresh, keys, extra>>

\* Everything below a repodata directory is found, that of snapshots too, and
\* deleted path by path.
delete_all_repodata(r) ==
    \/ /\ At(r, "changed")
       /\ reqs' = [reqs EXCEPT ![r].pc = "delete", ![r].todo =
                     {x \in {Path(i) : i \in index} \cup files : x.spot \in {Hosted, Snap}}]
       /\ Quiet /\ UNCHANGED state
    \/ /\ At(r, "delete")
       /\ \E x \in reqs[r].todo :
            /\ index' = {i \in index : Path(i) # x} /\ files' = files \ {x}
            /\ reqs' = [reqs EXCEPT ![r].todo = @ \ {x}]
       /\ Quiet /\ UNCHANGED <<recs, flags, offer, fresh, keys, depth, extra>>

\* Then the flag is set and the index rebuilt at once.
rebuild_repodata_for_depth_change(r) ==
    \/ /\ At(r, "delete") /\ reqs[r].todo = {} /\ Goto(r, "flag")
       /\ Quiet /\ UNCHANGED state
    \/ /\ At(r, "rebuilt") /\ Reply(r, "rebuilt")
       /\ Quiet /\ UNCHANGED state

-----------------------------------------------------------------------------
(* Cache repositories and proxies.                                         *)

\* The age of the cached repomd.xml decides; otherwise as for apt.
cache_serve_metadata(r) ==
    \/ /\ Asks(r, "get", {Cache})
       /\ \/ fresh /\ Goto(r, "lazy") /\ Quiet /\ UNCHANGED <<index, fresh>>
          \/ ~fresh /\ Fault("upstream") /\ Goto(r, "lazy") /\ UNCHANGED <<format, index, fresh>>
          \/ ~fresh /\ PutIndex(Cache, Root, offer, None) /\ fresh' = TRUE /\ Goto(r, "flag") /\ Quiet
       /\ UNCHANGED <<recs, flags, files, offer, keys, depth, extra>>
    \/ /\ At(r, "lazy")
       /\ \/ Served(Cache, Root) # None /\ Reply(r, Served(Cache, Root)) /\ Quiet /\ UNCHANGED files
          \/ Served(Cache, Root) = None /\ Fault("upstream") /\ Reply(r, None)
             /\ UNCHANGED <<format, files>>
          \/ Served(Cache, Root) = None /\ Reply(r, offer) /\ Quiet
             /\ files' = files \cup {[spot |-> Cache, dir |-> Root, list |-> offer]}
       /\ UNCHANGED <<recs, flags, index, offer, fresh, keys, depth, extra>>

proxy_serve_metadata(r) == ProxyCheck(r)

\* Each member in turn, with its configuration of that moment, is rebuilt when it
\* is hosted and stale, and what it serves from the root directory is added.
rebuild_proxy_yum_metadata(r) ==
    \/ ProxyClear(r) \/ MemberFails(r)
    \/ /\ At(r, "members")
       /\ IF ~MoreMembers(r) THEN ProxyWrite(r)
          ELSE IF Member(r) = Hosted THEN reqs' = [reqs EXCEPT ![r].pc = "member", ![r].depth = depth]
          ELSE Goto(r, "taken")
       /\ Quiet /\ UNCHANGED state
    \/ /\ At(r, "member")
       /\ IF is_metadata_stale(Hosted) THEN Rebuild(r, Hosted) ELSE Goto(r, "taken")
       /\ Quiet /\ UNCHANGED state
    \/ At(r, "taken") /\ Merge(r)

YumStep(r) ==
    \/ handle_upload(r) \/ upload_component_yum(r)
    \/ yum_store_from_config(r) \/ serve_metadata(r) \/ rebuild_metadata(r) \/ get_metadata(r)
    \/ handle_create_snapshot(r) \/ create_snapshot(r)
    \/ update_repo(r) \/ delete_all_repodata(r) \/ rebuild_repodata_for_depth_change(r)
    \/ cache_serve_metadata(r) \/ proxy_serve_metadata(r) \/ rebuild_proxy_yum_metadata(r)
=============================================================================
