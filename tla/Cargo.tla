------------------------------- MODULE Cargo --------------------------------
(***************************************************************************)
(* Cargo registries (format/cargo).  The index of a crate is put together  *)
(* from its records at each request; nothing is cached or flagged.  A      *)
(* record is yanked by reading it and putting it back.                     *)
(***************************************************************************)
EXTENDS PackageRepo

Yanked(p, v) == [repo |-> Hosted, pkg |-> p, val |-> v]

\* A published version replaces an earlier one, with its yanked flag.
commit_crate(r) ==
    /\ Kind(r) # "nexus" /\ upload_preamble(r, Hosted)
    /\ PutRec(Hosted, Ask[r].pkg, r)
    /\ extra' = [extra EXCEPT !.docs = {d \in @ : d.pkg # Ask[r].pkg}]
    /\ Reply(r, "ok")
    /\ risk' = risk \cup (IF \E q \in DOMAIN reqs : At(q, "yank") /\ Ask[q].pkg = Ask[r].pkg
                          THEN {"raced"} ELSE {})
    /\ UNCHANGED <<format, faults, flags, index, files, offer, fresh, keys, depth>>

\* The put is of the record that was read, whatever was published since.
set_yanked(r) ==
    \/ /\ Asks(r, "yank", {Hosted})
       /\ IF Holding(Hosted, Ask[r].pkg) = {} THEN Reply(r, "not found")
          ELSE reqs' = [reqs EXCEPT ![r].pc = "yank", ![r].list = Holding(Hosted, Ask[r].pkg)]
       /\ Quiet /\ UNCHANGED state
    \/ /\ At(r, "yank")
       /\ \E e \in reqs[r].list :
            /\ PutRec(Hosted, e.pkg, e.val)
            /\ extra' = [extra EXCEPT !.docs = {d \in @ : d.pkg # e.pkg} \cup {Yanked(e.pkg, e.val)}]
       /\ Reply(r, "ok")
       /\ Quiet /\ UNCHANGED <<flags, index, files, offer, fresh, keys, depth>>

build_index_entry(repo) == Listed(repo)

hosted_index_entry(r) ==
    /\ Asks(r, "get", {Hosted, Cache})
    /\ Reply(r, IF build_index_entry(Ask[r].repo) = {} THEN None ELSE build_index_entry(Ask[r].repo))
    /\ Quiet /\ UNCHANGED state

\* The first member that has the crate, with all its versions; a nested proxy
\* has none of its own.
proxy_index_entry(r) ==
    \/ Asks(r, "get", Proxies) /\ Goto(r, "members") /\ Quiet /\ UNCHANGED state
    \/ /\ At(r, "members")
       /\ IF ~MoreMembers(r) THEN Reply(r, None)
          ELSE IF build_index_entry(Member(r)) # {} THEN Reply(r, build_index_entry(Member(r)))
          ELSE NextMember(r)
       /\ Quiet /\ UNCHANGED state

hosted_download(r) == HoldsOrNot(r, {Hosted, Cache})
proxy_download(r) == HoldsOrNot(r, {Proxy})

CargoStep(r) ==
    \/ commit_crate(r) \/ set_yanked(r)
    \/ hosted_index_entry(r) \/ proxy_index_entry(r) \/ hosted_download(r) \/ proxy_download(r)
=============================================================================
