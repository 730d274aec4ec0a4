-------------------------------- MODULE Npm ---------------------------------
(***************************************************************************)
(* Npm registries (format/npm).  The packages of the model are versions of *)
(* one package: each has a tarball (a record) and a version document, and  *)
(* dist-tags name versions.  The document of a package, its packument, is  *)
(* put together for every request; a proxy keeps the merged one and        *)
(* compares its age with that of the flag, which is never deleted.         *)
(* An upload publishes one version, a publish all of them one by one; the  *)
(* dist-tags a client sends name a version it publishes.                   *)
(***************************************************************************)
EXTENDS PackageRepo

Doc(repo, p, v) == [repo |-> repo, pkg |-> p, val |-> v]
PutDoc(d) == extra' = [extra EXCEPT !.docs = {x \in @ : x.repo # d.repo \/ x.pkg # d.pkg} \cup {d}]
Tags(repo) == {t \in extra.tags : t.repo = repo}

\* The versions to publish, and those that are left.
Versions(r) == IF Kind(r) = "publish" THEN Pkgs ELSE {Ask[r].pkg}
Publishes(r, left) ==
    \/ upload_preamble(r, Hosted) /\ left = Versions(r)
    \/ At(r, "publish") /\ left = reqs[r].todo
NextVersion(r, p, left) ==
    reqs' = [reqs EXCEPT ![r].pc = "version", ![r].pkg = p, ![r].todo = left \ {p}, ![r].list = Tags(Hosted)]

\* Mutant: the version document goes before the tarball it describes.
PutDocFirst(r) ==
    \/ \E left \in SUBSET Pkgs, p \in Pkgs :
         /\ Publishes(r, left) /\ p \in left
         /\ PutDoc(Doc(Hosted, p, r)) /\ NextVersion(r, p, left)
         /\ Quiet /\ UNCHANGED <<recs, flags, index, files, offer, fresh, keys, depth>>
    \/ /\ At(r, "version")
       /\ PutRec(Hosted, reqs[r].pkg, r) /\ Goto(r, "tags")
       /\ Quiet /\ UNCHANGED <<flags, index, files, offer, fresh, keys, depth, extra>>

\* The dist-tags are read first; then the tarball, the version document and
\* the tags merged with those that were read are put, in this order.
put_package(r) ==
    \/ \E left \in SUBSET Pkgs, p \in Pkgs :
         /\ Publishes(r, left) /\ p \in left
         /\ PutRec(Hosted, p, r) /\ NextVersion(r, p, left)
         /\ Quiet /\ UNCHANGED <<flags, index, files, offer, fresh, keys, depth, extra>>
    \/ /\ At(r, "version")
       /\ PutDoc(Doc(Hosted, reqs[r].pkg, r)) /\ Goto(r, "tags")
       /\ Quiet /\ UNCHANGED <<recs, flags, index, files, offer, fresh, keys, depth>>

\* Each version is put with the tags of all of them.
dist_tags(r) == {[repo |-> Hosted, tag |-> t, pkg |-> Ask[r].pkg] : t \in {"latest", r}}
PutTags(r, then) ==
    /\ At(r, "tags")
    /\ extra' = [extra EXCEPT !.tags =
                   (@ \ Tags(Hosted)) \cup {t \in reqs[r].list : t.tag \notin {"latest", r}} \cup dist_tags(r)]
    /\ reqs' = [reqs EXCEPT ![r].pc = then, ![r].cur = Hosted, ![r].list = {}]
    /\ Quiet /\ UNCHANGED <<recs, flags, index, files, offer, fresh, keys, depth>>

\* Mutant: the publish ends after its first version.
FirstVersionOnly(r) == PutTags(r, "flag")

put_dist_tags(r) == PutTags(r, IF reqs[r].todo = {} THEN "flag" ELSE "publish")

\* After the last version the flags are set, each unless it is there: its time
\* stays that of the first change.  An index stored before is then older.
set_stale_flag(r) ==
    /\ At(r, "flag")
    /\ flags' = flags \cup {Hosted}
    /\ Propagate(r, Ask[r].repo, "done")
    /\ risk' = Addressed(r)
    /\ UNCHANGED <<format, faults, recs, index, files, offer, fresh, keys, depth, extra>>
propagate_watermark(r) ==
    /\ At(r, "propagating")
    /\ \/ /\ reqs[r].todo = {} /\ Reply(r, "ok") /\ UNCHANGED <<flags, extra, risk>>
       \/ \E p \in reqs[r].todo :
            /\ flags' = flags \cup {p}
            /\ reqs' = [reqs EXCEPT ![r].todo = @ \ {p}]
            /\ IF p \in flags
               THEN UNCHANGED extra /\ risk' = risk \cup {"watermark"}
               ELSE /\ extra' = [extra EXCEPT !.old = @ \cup {p}]
                    /\ risk' = risk \cup (IF \E q \in DOMAIN reqs : reqs[q].proxy = p /\ Merging(q)
                                          THEN {"overlap"} ELSE {})
    /\ UNCHANGED <<format, faults, recs, index, files, offer, fresh, keys, depth>>

publish_inner(r) ==
    Kind(r) # "nexus" /\ (put_package(r) \/ put_dist_tags(r) \/ set_stale_flag(r) \/ propagate_watermark(r))

-----------------------------------------------------------------------------
(* Packuments.                                                             *)

get_packument(repo) == {Entry(d.pkg, d.val) : d \in {x \in extra.docs : x.repo = repo}}

\* The versions are read, then the tags.
hosted_packument(r) ==
    /\ Asks(r, "get", {Hosted})
    /\ Reply(r, get_packument(Hosted))
    /\ Quiet /\ UNCHANGED state

\* Upstream is asked every time; what it has is kept, the dist-tags first and
\* then version by version, for when it fails.  A put that fails is passed over.
cache_packument(r) ==
    /\ Asks(r, "get", {Cache})
    /\ \/ reqs' = [reqs EXCEPT ![r].pc = "keep tags", ![r].list = offer] /\ Quiet
       \/ Fault("upstream") /\ UNCHANGED format
          /\ Reply(r, IF get_packument(Cache) = {} THEN None ELSE get_packument(Cache))
    /\ UNCHANGED state
cache_upstream_packument(r) ==
    /\ \/ /\ At(r, "keep tags") /\ Goto(r, "keep")
          /\ \/ /\ \E e \in reqs[r].list : extra' = [extra EXCEPT !.tags =
                       (@ \ Tags(Cache)) \cup {[repo |-> Cache, tag |-> "latest", pkg |-> e.pkg]}]
                /\ Quiet
             \/ Fault("skipped") /\ UNCHANGED <<format, extra>>
       \/ /\ At(r, "keep")
          /\ \E e \in reqs[r].list :
               /\ reqs' = [reqs EXCEPT ![r].list = @ \ {e}, ![r].merged = @ \cup {e}]
               /\ \/ PutDoc(Doc(Cache, e.pkg, e.val)) /\ Quiet
                  \/ Fault("skipped") /\ UNCHANGED <<format, extra>>
       \/ /\ At(r, "keep") /\ reqs[r].list = {} /\ Reply(r, reqs[r].merged)
          /\ Quiet /\ UNCHANGED extra
    /\ UNCHANGED <<recs, flags, index, files, offer, fresh, keys, depth>>

\* Fresh unless the flag is younger.
get_cached_packument(proxy) == IF proxy \in extra.old THEN None ELSE Served(proxy, Root)

\* Otherwise what the members have stored is merged, kept and served; of a
\* cache that is what was asked for before, of a nested proxy nothing.
proxy_packument(r) ==
    \/ /\ Asks(r, "get", Proxies)
       /\ IF get_cached_packument(Ask[r].repo) # None THEN Reply(r, get_cached_packument(Ask[r].repo))
          ELSE Goto(r, "members")
       /\ Quiet /\ UNCHANGED state
    \/ /\ At(r, "members") /\ MoreMembers(r)
       /\ reqs' = [reqs EXCEPT ![r].at = @ + 1, ![r].merged = FirstWins(@, get_packument(Member(r)))]
       /\ Quiet /\ UNCHANGED state
    \/ /\ At(r, "members") /\ ~MoreMembers(r) /\ reqs[r].merged = {}
       /\ Reply(r, None)
       /\ Quiet /\ UNCHANGED state
store_cached_packument(r) ==
    /\ At(r, "members") /\ ~MoreMembers(r) /\ reqs[r].merged # {}
    /\ PutIndex(Ask[r].repo, Root, reqs[r].merged, None)
    /\ files' = files \cup {[spot |-> Ask[r].repo, dir |-> Root, list |-> reqs[r].merged]}
    /\ extra' = [extra EXCEPT !.old = @ \ {Ask[r].repo}]
    /\ Reply(r, reqs[r].merged)
    /\ Quiet /\ UNCHANGED <<recs, flags, offer, fresh, keys, depth>>

-----------------------------------------------------------------------------
(* Tarballs.                                                               *)

\* A nested proxy is asked for what it holds itself.
hosted_download(r) == HoldsOrNot(r, {Hosted, Proxy})

\* Every request fetches for itself; tarball and version document are kept.
cache_download(r) == CacheLookup(r, "fetch") \/ AskUpstream(r)
put_package_from_upstream(r) ==
    \/ /\ At(r, "store")
       /\ \E e \in reqs[r].list : PutRec(Cache, e.pkg, e.val)
       /\ Goto(r, "stored")
       /\ Quiet /\ UNCHANGED <<flags, index, files, offer, fresh, keys, depth, extra>>
    \/ /\ At(r, "stored")
       /\ \E e \in reqs[r].list : PutDoc(Doc(Cache, e.pkg, e.val))
       /\ Reply(r, reqs[r].list)
       /\ Quiet /\ UNCHANGED <<recs, flags, index, files, offer, fresh, keys, depth>>

NpmStep(r) ==
    \/ publish_inner(r)
    \/ hosted_packument(r) \/ cache_packument(r) \/ cache_upstream_packument(r)
    \/ proxy_packument(r) \/ store_cached_packument(r)
    \/ hosted_download(r) \/ cache_download(r) \/ put_package_from_upstream(r)
=============================================================================
