------------------------------- MODULE Golang -------------------------------
(***************************************************************************)
(* Go module proxies (format/golang).  A version is three files put one     *)
(* after the other: .info, .mod and .zip; the versions listed are those     *)
(* with an .info.  Nothing is flagged.                                      *)
(***************************************************************************)
EXTENDS PackageRepo

\* .info and .mod are put before .zip.
put_module_file(r) ==
    /\ upload_preamble(r, Hosted)
    /\ extra' = [extra EXCEPT !.docs = @ \cup {[repo |-> Hosted, pkg |-> Ask[r].pkg, val |-> r]}]
    /\ Goto(r, "zip")
    /\ Quiet /\ UNCHANGED <<recs, flags, index, files, offer, fresh, keys, depth>>

commit_module_file(r) ==
    /\ At(r, "zip")
    /\ PutRec(Hosted, Ask[r].pkg, r) /\ Reply(r, "ok")
    /\ Quiet /\ UNCHANGED <<flags, index, files, offer, fresh, keys, depth, extra>>

handle_upload(r) == Kind(r) # "nexus" /\ (put_module_file(r) \/ commit_module_file(r))

list_versions(repo) == {Entry(d.pkg, d.val) : d \in {x \in extra.docs : x.repo = repo}}

\* A module without versions is an empty list, not an error.
handle_hosted(r) ==
    \/ /\ Asks(r, "get", {Hosted}) /\ Reply(r, list_versions(Hosted))
       /\ Quiet /\ UNCHANGED state
    \/ HoldsOrNot(r, {Hosted})

\* Lists come from upstream, or when it fails from what is cached.
handle_cache(r) ==
    /\ Asks(r, "get", {Cache})
    /\ \/ Reply(r, offer) /\ Quiet
       \/ Fault("upstream") /\ Reply(r, list_versions(Cache)) /\ UNCHANGED format
    /\ UNCHANGED state

\* Every request fetches for itself.
cache_fetch_and_store(r) == CacheLookup(r, "fetch") \/ AskUpstream(r) \/ StoreFetched(r)

\* The first member that answers; nested proxies are passed over.
handle_proxy(r) ==
    \/ /\ Asks(r, "get", {Proxy}) /\ Reply(r, list_versions(Hosted))
       /\ Quiet /\ UNCHANGED state
    \/ /\ Asks(r, "get", {Outer}) /\ Reply(r, None)
       /\ Quiet /\ UNCHANGED state
    \/ /\ Trying(r, {Proxy})
       /\ reqs' = [reqs EXCEPT ![r] = NotHere(r)]
       /\ Quiet /\ UNCHANGED state

GolangStep(r) ==
    \/ handle_upload(r)
    \/ handle_hosted(r) \/ handle_cache(r) \/ cache_fetch_and_store(r) \/ handle_proxy(r)
=============================================================================
