-------------------------------- MODULE Helm --------------------------------
(***************************************************************************)
(* Helm repositories (format/helm).  index.yaml is a single record.  Proxies *)
(* refresh their cache members and rebuild nested proxies.                 *)
(***************************************************************************)
EXTENDS PackageRepo

commit_chart(r) == CommitRecord(r)
set_stale_flag(r) == SetFlag(r, Source(r), "done")
handle_upload(r) == Kind(r) # "nexus" /\ (commit_chart(r) \/ set_stale_flag(r))
upload_component_helm(r) == Kind(r) = "nexus" /\ (commit_chart(r) \/ set_stale_flag(r))

is_metadata_stale(spot) == spot \in flags
get_index(spot) == Served(spot, Root)

\* The stored index; that of a cache is as old as its record.
store_index(spot, list) ==
    /\ PutIndex(spot, Root, list, None)
    /\ files' = files \cup {[spot |-> spot, dir |-> Root, list |-> list]}

-----------------------------------------------------------------------------
(* Hosted repositories.                                                    *)

All(deep, list) == {Root}

\* index.yaml is one put.
rebuild_index(r) ==
    \/ ClearFlag(r) \/ ScanShard(r, All)
    \/ /\ At(r, "write")
       /\ store_index(reqs[r].cur, reqs[r].list)
       /\ Rebuilt(r, "serve")
       /\ Quiet /\ UNCHANGED <<recs, flags, offer, fresh, keys, depth, extra>>

\* Without an index one is made; when that fails the answer is an empty one.
hosted_get_index(r) ==
    \/ /\ Asks(r, "get", {Hosted})
       /\ Goto(r, IF is_metadata_stale(Hosted) THEN "clear" ELSE "serve")
       /\ Quiet /\ UNCHANGED state
    \/ /\ At(r, "serve") /\ Ask[r].repo = Hosted
       /\ IF get_index(Hosted) = None THEN Goto(r, "clear") ELSE Reply(r, get_index(Hosted))
       /\ Quiet /\ UNCHANGED state
    \/ /\ reqs[r].pc \in Rebuilding /\ Ask[r].repo = Hosted /\ get_index(Hosted) = None
       /\ Fault("stopped") /\ Reply(r, {})
       /\ UNCHANGED <<format, state>>

-----------------------------------------------------------------------------
(* Cache repositories.                                                     *)

Expired == ~fresh

\* A new index is stored and, when it differs, the proxies above are flagged;
\* an upstream that fails leaves the one that is stored.
refresh_cache_index(r) ==
    \/ /\ At(r, "refresh")
       /\ \/ /\ fresh /\ reqs' = [reqs EXCEPT ![r].pc = "refreshed", ![r].list = get_index(Cache)]
             /\ Quiet /\ UNCHANGED <<index, files, fresh>>
          \/ /\ Expired /\ Fault("upstream")
             /\ reqs' = [reqs EXCEPT ![r].pc = "refreshed", ![r].list = get_index(Cache)]
             /\ UNCHANGED <<format, index, files, fresh>>
          \/ /\ Expired /\ store_index(Cache, offer) /\ fresh' = TRUE
             /\ reqs' = [reqs EXCEPT ![r].list = offer, ![r].next = "refreshed",
                           ![r].pc = IF get_index(Cache) = offer THEN "refreshed" ELSE "propagating",
                           ![r].todo = Ancestors(Cache)]
             /\ Quiet
       /\ UNCHANGED <<recs, flags, offer, keys, depth, extra>>
    \/ /\ At(r, "refreshed") /\ Ask[r].repo # Cache
       /\ reqs' = [reqs EXCEPT ![r].pc = "members", ![r].at = @ + 1, ![r].todo = {}, ![r].list = {},
                     ![r].next = None,
                     ![r].merged = FirstWins(@, IF reqs[r].list = None THEN {} ELSE reqs[r].list)]
       /\ Quiet /\ UNCHANGED state

cache_get_index(r) ==
    \/ Asks(r, "get", {Cache}) /\ Goto(r, "refresh") /\ Quiet /\ UNCHANGED state
    \/ /\ At(r, "refreshed") /\ Ask[r].repo = Cache /\ Reply(r, reqs[r].list)
       /\ Quiet /\ UNCHANGED state

-----------------------------------------------------------------------------
(* Proxies.                                                                *)

\* Both proxies have the cache below them.
has_expired_cache_member(proxy) == Expired

\* Mutant: only the age of the members is looked at, not the flag.
NeedsRebuildByAge(proxy) == has_expired_cache_member(proxy) \/ get_index(proxy) = None

NeedsRebuild(proxy) ==
    is_metadata_stale(proxy) \/ has_expired_cache_member(proxy) \/ get_index(proxy) = None

proxy_get_index(r) ==
    \/ /\ Asks(r, "get", Proxies)
       /\ Goto(r, IF NeedsRebuild(Ask[r].repo) THEN "proxy clear" ELSE "serve")
       /\ Quiet /\ UNCHANGED state
    \/ /\ At(r, "serve") /\ Ask[r].repo \in Proxies
       /\ Reply(r, get_index(Ask[r].repo))
       /\ Quiet /\ UNCHANGED state

merge_index_entries(r) ==
    /\ At(r, "taken")
    /\ reqs' = [reqs EXCEPT ![r].pc = "members", ![r].at = @ + 1, ![r].cur = reqs[r].proxy,
                  ![r].merged = FirstWins(@, IF get_index(Member(r)) = None THEN {} ELSE get_index(Member(r)))]
    /\ risk' = Overlap(r, Member(r))
    /\ UNCHANGED <<format, faults, state>>

\* Level by level; the merged index always differs, by the time it has in it,
\* and the proxies above are flagged.  The answer is what was merged; one that
\* is not stored is not reported.
rebuild_proxy_index(r) ==
    \/ ProxyClear(r) \/ MemberFails(r) \/ merge_index_entries(r)
    \/ /\ At(r, "members") /\ MoreMembers(r)
       /\ CASE Member(r) = Hosted ->
                 IF is_metadata_stale(Hosted) THEN Rebuild(r, Hosted) ELSE Goto(r, "taken")
            [] Member(r) = Cache -> Goto(r, "refresh")
            [] OTHER ->
                 IF NeedsRebuild(Member(r))
                 THEN reqs' = [reqs EXCEPT ![r].pc = "proxy clear", ![r].proxy = Member(r),
                                           ![r].cur = Member(r), ![r].at = 1]
                 ELSE Goto(r, "taken")
       /\ Quiet /\ UNCHANGED state
    \/ /\ At(r, "members") /\ ~MoreMembers(r)
       /\ \/ /\ store_index(reqs[r].proxy, reqs[r].merged) /\ Quiet
             /\ reqs' = [reqs EXCEPT ![r].pc = "propagating", ![r].next = "merged",
                                     ![r].todo = Ancestors(reqs[r].proxy)]
          \/ /\ Fault("stopped") /\ Goto(r, "merged") /\ UNCHANGED <<format, index, files>>
       /\ UNCHANGED <<recs, flags, offer, fresh, keys, depth, extra>>
    \/ /\ At(r, "merged")
       /\ IF reqs[r].proxy = Ask[r].repo THEN Reply(r, reqs[r].merged)
          ELSE reqs' = [reqs EXCEPT ![r] = [Start(r) EXCEPT !.pc = "taken"]]
       /\ Quiet /\ UNCHANGED state

-----------------------------------------------------------------------------
(* Downloads.                                                              *)

hosted_download_chart(r) == HoldsOrNot(r, {Hosted})
cache_download_chart(r) == CacheLookup(r, "claim") \/ TryClaim(r, "fetch") \/ AskUpstream(r) \/ StoreFetched(r)

\* A nested proxy is searched in turn; Proxy is the only member of Outer.
proxy_download_chart(r) ==
    /\ Trying(r, {Proxy})
    /\ \/ /\ Holding(Hosted, Ask[r].pkg) # {}
          /\ reqs' = [reqs EXCEPT ![r] = Delivered(r, Holding(Hosted, Ask[r].pkg))]
       \/ /\ Holding(Hosted, Ask[r].pkg) = {}
          /\ reqs' = [reqs EXCEPT ![r] = IF Holding(Cache, Ask[r].pkg) # {}
                                          THEN Delivered(r, Holding(Cache, Ask[r].pkg))
                                          ELSE [@ EXCEPT !.pc = "claim"]]
    /\ Quiet /\ UNCHANGED state

HelmStep(r) ==
    \/ handle_upload(r) \/ upload_component_helm(r)
    \/ hosted_get_index(r) \/ rebuild_index(r) \/ cache_get_index(r) \/ refresh_cache_index(r)
    \/ proxy_get_index(r) \/ rebuild_proxy_index(r)
    \/ hosted_download_chart(r) \/ cache_download_chart(r) \/ proxy_download_chart(r)
=============================================================================
