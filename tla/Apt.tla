-------------------------------- MODULE Apt ---------------------------------
(***************************************************************************)
(* Apt repositories (format/apt): uploads, the metadata of hosted, cache   *)
(* and proxy repositories, snapshots and the rotation of the signing key.  *)
(* InRelease is the commit point; Packages files are stored by their hash. *)
(* A snapshot is a distribution of its own, with the files of another one. *)
(***************************************************************************)
EXTENDS PackageRepo

\* The record, then the flag of its distribution, then the proxies above.
commit_package(r) == CommitRecord(r)
set_stale_flag_inner(r) == SetFlag(r, Ask[r].repo, IF Kind(r) = "get" THEN "timestamp" ELSE "done")
handle_upload(r) == Kind(r) # "nexus" /\ (commit_package(r) \/ set_stale_flag_inner(r))
upload_component_apt(r) == Kind(r) = "nexus" /\ (commit_package(r) \/ FlagAlone(r))

-----------------------------------------------------------------------------
(* Hosted repositories.                                                    *)

is_metadata_stale(spot) == spot \in flags

serve_metadata(r) ==
    /\ Asks(r, "get", {Hosted, Snap})
    /\ IF is_metadata_stale(Ask[r].repo)
       THEN reqs' = [reqs EXCEPT ![r].pc = "clear", ![r].key = keys.priv]
       ELSE Goto(r, "serve")
    /\ Quiet /\ UNCHANGED state

AllInOne(deep, list) == {Root}

\* Mutant: the flag is deleted when the index is written.
RebuildThenClear(r) ==
    \/ /\ At(r, "clear")
       /\ reqs' = [reqs EXCEPT ![r].pc = "scan", ![r].todo = Pkgs]
       /\ Quiet /\ UNCHANGED state
    \/ ScanShard(r, AllInOne) \/ WriteFiles(r)
    \/ /\ At(r, "commit")
       /\ PutIndex(reqs[r].cur, Root, reqs[r].list, reqs[r].key)
       /\ Rebuilt(r, "serve")
       /\ flags' = flags \ {reqs[r].cur}
       /\ Quiet /\ UNCHANGED <<recs, files, offer, fresh, keys, depth, extra>>

\* The packages of the distribution are found by scanning the repository, which
\* for a snapshot finds none.
clear_stale_flag(r) == ClearFlag(r)
store_metadata_file(r) == WriteFiles(r)
store_inrelease(r) == CommitIndex(r, "serve")
rebuild_metadata(r) ==
    clear_stale_flag(r) \/ ScanShard(r, AllInOne) \/ store_metadata_file(r) \/ store_inrelease(r)

\* A path of a Packages file is resolved by way of InRelease.
resolve_via_release(spot) == Served(spot, Root)

get_metadata(r) ==
    /\ At(r, "serve")
    /\ Reply(r, resolve_via_release(Ask[r].repo))
    /\ Quiet /\ UNCHANGED state

-----------------------------------------------------------------------------
(* Cache repositories.                                                     *)

\* A fresh InRelease replaces the cached one, the repository and the proxies
\* above it are flagged, the time is noted.  The files it refers to are
\* fetched when they are asked for, from the path, which has what upstream
\* has by then.  An upstream that fails leaves what is cached.
cache_serve_metadata(r) ==
    \/ /\ Asks(r, "get", {Cache})
       /\ \/ fresh /\ Goto(r, "lazy") /\ Quiet /\ UNCHANGED index
          \/ ~fresh /\ Fault("upstream") /\ Goto(r, "lazy") /\ UNCHANGED <<format, index>>
          \/ ~fresh /\ PutIndex(Cache, Root, offer, None) /\ Goto(r, "flag") /\ Quiet
       /\ UNCHANGED <<recs, flags, files, offer, fresh, keys, depth, extra>>
    \/ /\ At(r, "timestamp") /\ fresh' = TRUE /\ Goto(r, "lazy")
       /\ Quiet /\ UNCHANGED <<recs, flags, index, files, offer, keys, depth, extra>>
    \/ /\ At(r, "lazy")
       /\ \/ resolve_via_release(Cache) # None /\ Reply(r, resolve_via_release(Cache)) /\ Quiet
             /\ UNCHANGED files
          \/ resolve_via_release(Cache) = None /\ Fault("upstream") /\ Reply(r, None)
             /\ UNCHANGED <<format, files>>
          \/ resolve_via_release(Cache) = None /\ Reply(r, offer) /\ Quiet
             /\ files' = files \cup {[spot |-> Cache, dir |-> Root, list |-> offer]}
       /\ UNCHANGED <<recs, flags, index, offer, fresh, keys, depth, extra>>

-----------------------------------------------------------------------------
(* Proxies.                                                                *)

proxy_serve_metadata(r) == ProxyCheck(r)

\* Stale hosted members are rebuilt, caches and proxies are taken as they are;
\* then what the members serve from their own store is put together.
rebuild_proxy_apt_metadata(r) ==
    \/ ProxyClear(r) \/ MemberFails(r)
    \/ /\ At(r, "members")
       /\ IF ~MoreMembers(r) THEN reqs' = [reqs EXCEPT ![r].pc = "merge", ![r].at = 1]
          ELSE IF Member(r) = Hosted /\ is_metadata_stale(Hosted)
               THEN Rebuild(r, Hosted)
               ELSE NextMember(r)
       /\ Quiet /\ UNCHANGED state
    \/ At(r, "taken") /\ NextMember(r) /\ Quiet /\ UNCHANGED state
    \/ At(r, "merge") /\ MoreMembers(r) /\ Merge(r)
    \/ At(r, "merge") /\ ~MoreMembers(r) /\ ProxyWrite(r) /\ Quiet /\ UNCHANGED state

-----------------------------------------------------------------------------
(* Snapshots and keys.                                                     *)

\* The key and InRelease of the source are read, the records of its files are
\* copied, InRelease is signed and written.
create_snapshot(r) ==
    \/ /\ Asks(r, "snapshot", {Hosted})
       /\ \/ CommitPoint(Hosted, Root) = {} /\ Reply(r, "not found")
          \/ \E i \in CommitPoint(Hosted, Root) :
               reqs' = [reqs EXCEPT ![r].pc = "snap files", ![r].list = i.list, ![r].key = keys.priv]
       /\ Quiet /\ UNCHANGED state
    \/ /\ At(r, "snap files")
       /\ files' = files \cup {[f EXCEPT !.spot = Snap] :
                                f \in {g \in files : g.spot = Hosted /\ g.list = reqs[r].list}}
       /\ Goto(r, "snap commit")
       /\ Quiet /\ UNCHANGED <<recs, flags, index, offer, fresh, keys, depth, extra>>
    \/ /\ At(r, "snap commit")
       /\ PutIndex(Snap, Root, reqs[r].list, reqs[r].key)
       /\ Reply(r, "created")
       /\ Quiet /\ UNCHANGED <<recs, flags, files, offer, fresh, keys, depth, extra>>

\* The private key first, then the public one.
store_signing_key(r) ==
    \/ /\ Asks(r, "rotate", {Hosted})
       /\ keys' = [keys EXCEPT !.priv = r] /\ Goto(r, "public")
       /\ risk' = risk \cup
            (IF \E q \in DOMAIN reqs \ {r} : reqs[q].pc \in Rebuilding \cup {"public", "snap files", "snap commit"}
             THEN {"rekeyed"} ELSE {})
       /\ UNCHANGED <<format, faults, recs, flags, index, files, offer, fresh, depth, extra>>
    \/ /\ At(r, "public")
       /\ keys' = [keys EXCEPT !.pub = r] /\ Goto(r, "resign")
       /\ Quiet /\ UNCHANGED <<recs, flags, index, files, offer, fresh, depth, extra>>

\* Mutant: only the distribution the repository was made with is marked.
list_distributions_one == IF CommitPoint(Hosted, Root) = {} THEN {} ELSE {Hosted}

\* The distributions that have an InRelease, snapshots among them.
list_distributions == {s \in {Hosted, Snap} : CommitPoint(s, Root) # {}}

\* They are flagged one after the other, to be signed again when they are read.
resign_all_distributions(r) ==
    \/ /\ At(r, "resign")
       /\ reqs' = [reqs EXCEPT ![r].pc = "resigning", ![r].todo = list_distributions]
       /\ Quiet /\ UNCHANGED state
    \/ /\ At(r, "resigning")
       /\ \E s \in reqs[r].todo : flags' = flags \cup {s} /\ reqs' = [reqs EXCEPT ![r].todo = @ \ {s}]
       /\ Quiet /\ UNCHANGED <<recs, index, files, offer, fresh, keys, depth, extra>>
    \/ /\ At(r, "resigning") /\ reqs[r].todo = {} /\ Reply(r, "rotated")
       /\ Quiet /\ UNCHANGED state

AptStep(r) ==
    \/ handle_upload(r) \/ upload_component_apt(r)
    \/ serve_metadata(r) \/ rebuild_metadata(r) \/ get_metadata(r)
    \/ cache_serve_metadata(r) \/ proxy_serve_metadata(r) \/ rebuild_proxy_apt_metadata(r)
    \/ create_snapshot(r) \/ store_signing_key(r) \/ resign_all_distributions(r)
=============================================================================
