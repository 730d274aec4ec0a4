-------------------------------- MODULE Pypi --------------------------------
(***************************************************************************)
(* Pypi repositories (format/pypi).  Hosted repositories list their records *)
(* at each request; a proxy keeps a merged list of projects.  A cache keeps *)
(* the page of a project, from which it knows where its files are; the page *)
(* is the index of the cache here.                                          *)
(***************************************************************************)
EXTENDS PackageRepo

commit_package(r) == CommitRecord(r)
set_stale_flag(r) == SetFlag(r, Source(r), "done")
process_upload(r) == Kind(r) # "nexus" /\ (commit_package(r) \/ set_stale_flag(r))
upload_component_pypi(r) == Kind(r) = "nexus" /\ (commit_package(r) \/ set_stale_flag(r))
is_metadata_stale(spot) == spot \in flags

\* Mutant: the flag of a proxy is deleted after its members were read.
proxy_simple_index_late(r) ==
    \/ /\ Asks(r, "get", Proxies)
       /\ Goto(r, IF is_metadata_stale(Ask[r].repo) \/ Served(Ask[r].repo, Root) = None
                  THEN "members" ELSE "serve")
       /\ Quiet /\ UNCHANGED state
    \/ /\ At(r, "members") /\ MoreMembers(r)
       /\ reqs' = [reqs EXCEPT ![r].at = @ + 1, ![r].merged = @ \cup Listed(Member(r))]
       /\ Quiet /\ UNCHANGED state
    \/ /\ At(r, "members") /\ ~MoreMembers(r)
       /\ PutIndex(Ask[r].repo, Root, reqs[r].merged, None)
       /\ files' = files \cup {[spot |-> Ask[r].repo, dir |-> Root, list |-> reqs[r].merged]}
       /\ flags' = flags \ {Ask[r].repo}
       /\ Reply(r, reqs[r].merged)
       /\ Quiet /\ UNCHANGED <<recs, offer, fresh, keys, depth, extra>>
    \/ At(r, "serve") /\ Reply(r, Served(Ask[r].repo, Root)) /\ Quiet /\ UNCHANGED state

-----------------------------------------------------------------------------
(* The list of projects.                                                   *)

hosted_simple_index(r) ==
    /\ Asks(r, "get", {Hosted})
    /\ Reply(r, Listed(Hosted))
    /\ Quiet /\ UNCHANGED state

\* Upstream's list, or when it fails that of the files fetched so far.
cache_simple_index(r) ==
    /\ Asks(r, "get", {Cache})
    /\ \/ Reply(r, offer) /\ Quiet
       \/ Fault("upstream") /\ Reply(r, Listed(Cache)) /\ UNCHANGED format
    /\ UNCHANGED state

\* The flag goes first, then each member is listed, then the result is stored;
\* a failure to store it is not reported.
proxy_simple_index(r) ==
    \/ /\ Asks(r, "get", Proxies)
       /\ Goto(r, IF is_metadata_stale(Ask[r].repo) \/ Served(Ask[r].repo, Root) = None
                  THEN "proxy clear" ELSE "serve")
       /\ Quiet /\ UNCHANGED state
    \/ ProxyClear(r)
    \/ /\ At(r, "members") /\ MoreMembers(r)
       /\ reqs' = [reqs EXCEPT ![r].at = @ + 1, ![r].merged = @ \cup Listed(Member(r))]
       /\ Quiet /\ UNCHANGED state
    \/ At(r, "serve") /\ Reply(r, Served(Ask[r].repo, Root)) /\ Quiet /\ UNCHANGED state
store_simple_index(r) ==
    /\ At(r, "members") /\ ~MoreMembers(r)
    /\ \/ /\ PutIndex(Ask[r].repo, Root, reqs[r].merged, None) /\ Quiet
          /\ files' = files \cup {[spot |-> Ask[r].repo, dir |-> Root, list |-> reqs[r].merged]}
       \/ Fault("stopped") /\ UNCHANGED <<format, index, files>>
    /\ Reply(r, reqs[r].merged)
    /\ UNCHANGED <<recs, flags, offer, fresh, keys, depth, extra>>

-----------------------------------------------------------------------------
(* The page of a project.                                                  *)

get_project_index == Served(Cache, Root)
store_project_index(list) ==
    /\ PutIndex(Cache, Root, list, None) /\ fresh' = TRUE
    /\ files' = files \cup {[spot |-> Cache, dir |-> Root, list |-> list]}

hosted_simple_project(r) ==
    /\ Asks(r, "page", {Hosted})
    /\ Reply(r, Listed(Hosted))
    /\ Quiet /\ UNCHANGED state

cache_simple_project(r) ==
    /\ Asks(r, "page", {Cache})
    /\ \/ fresh /\ Reply(r, get_project_index) /\ Quiet /\ UNCHANGED <<index, files, fresh>>
       \/ ~fresh /\ store_project_index(offer) /\ Reply(r, offer) /\ Quiet
       \/ ~fresh /\ Fault("upstream") /\ Reply(r, get_project_index)
          /\ UNCHANGED <<format, index, files, fresh>>
    /\ UNCHANGED <<recs, flags, offer, keys, depth, extra>>

\* A cache member is refreshed whatever its age; when that fails its stored
\* page is taken.  A nested proxy lists its own files.
proxy_simple_project(r) ==
    \/ Asks(r, "page", Proxies) /\ Goto(r, "pages") /\ Quiet /\ UNCHANGED state
    \/ /\ At(r, "pages") /\ MoreMembers(r) /\ Member(r) # Cache
       /\ reqs' = [reqs EXCEPT ![r].at = @ + 1, ![r].merged = FirstWins(@, Listed(Member(r)))]
       /\ Quiet /\ UNCHANGED state
    \/ /\ At(r, "pages") /\ MoreMembers(r) /\ Member(r) = Cache
       /\ \/ store_project_index(offer) /\ Quiet
          \/ Fault("upstream") /\ UNCHANGED <<format, index, files, fresh>>
       /\ Goto(r, "page")
       /\ UNCHANGED <<recs, flags, offer, keys, depth, extra>>
    \/ /\ At(r, "page")
       /\ reqs' = [reqs EXCEPT ![r].pc = "pages", ![r].at = @ + 1,
                     ![r].merged = FirstWins(@, IF get_project_index = None THEN {} ELSE get_project_index)]
       /\ Quiet /\ UNCHANGED state
    \/ /\ At(r, "pages") /\ ~MoreMembers(r)
       /\ Reply(r, IF reqs[r].merged = {} THEN None ELSE reqs[r].merged)
       /\ Quiet /\ UNCHANGED state

-----------------------------------------------------------------------------
(* Files.                                                                  *)

hosted_download(r) == HoldsOrNot(r, {Hosted, Proxy})

\* Where the file is: from the stored page, or from one fetched now.
cache_project_links(r) ==
    LET listed == get_project_index # None /\ \E e \in get_project_index : e.pkg = Ask[r].pkg IN
    /\ At(r, "link")
    /\ \/ listed /\ Goto(r, "claim") /\ Quiet /\ UNCHANGED <<index, files, fresh>>
       \/ /\ ~listed /\ store_project_index(offer) /\ Quiet
          /\ reqs' = [reqs EXCEPT ![r] = IF \E e \in offer : e.pkg = Ask[r].pkg
                                          THEN [@ EXCEPT !.pc = "claim"] ELSE NotHere(r)]
       \/ ~listed /\ Fault("upstream") /\ reqs' = [reqs EXCEPT ![r] = NotHere(r)]
          /\ UNCHANGED <<format, index, files, fresh>>
    /\ UNCHANGED <<recs, flags, offer, keys, depth, extra>>

\* Mutant: what a leader found before its claim is not looked at again.
NoRecheck(r) ==
    /\ At(r, "recheck")
    /\ Goto(r, "fetch")
    /\ Quiet /\ UNCHANGED state

\* A leader looks again: another may have just finished.
Recheck(r) ==
    /\ At(r, "recheck")
    /\ LET found == Holding(Cache, Ask[r].pkg) IN
       IF found # {} THEN reqs' = Woken(r, Delivered(r, found)) /\ extra' = Unclaimed(r)
       ELSE Goto(r, "fetch") /\ UNCHANGED extra
    /\ Quiet /\ UNCHANGED <<recs, flags, index, files, offer, fresh, keys, depth>>

cache_download(r) ==
    \/ CacheLookup(r, "link") \/ cache_project_links(r) \/ TryClaim(r, "recheck") \/ Recheck(r)
    \/ AskUpstream(r)
put_cached_package(r) == StoreFetched(r)

PypiStep(r) ==
    \/ process_upload(r) \/ upload_component_pypi(r)
    \/ hosted_simple_index(r) \/ cache_simple_index(r) \/ proxy_simple_index(r) \/ store_simple_index(r)
    \/ hosted_simple_project(r) \/ cache_simple_project(r) \/ proxy_simple_project(r)
    \/ hosted_download(r) \/ cache_download(r) \/ put_cached_package(r)
=============================================================================
