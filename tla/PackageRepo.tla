---------------------------- MODULE PackageRepo -----------------------------
(***************************************************************************)
(* What the package formats (apt, yum, helm, npm, pypi, cargo, golang) have *)
(* in common: the records of a repository, the stale flag, the index that  *)
(* is rebuilt from the records when a client asks for it, and the flags an *)
(* upload sets on the proxies above its repository                          *)
(* (core/src/api_helpers.rs, core/src/service/repo.rs, core/src/repo).      *)
(*                                                                         *)
(* A request is a sequence of steps, one for each call of the key-value or *)
(* blob store that others can observe.  It may stop between any two of     *)
(* them: an error is returned, the client goes away, the instance stops.   *)
(***************************************************************************)
EXTENDS Integers, Sequences, FiniteSets

CONSTANTS
    Hosted, Cache, Proxy, Outer, \* repositories; Outer is a proxy of Proxy
    Snap,                        \* the snapshot taken of Hosted
    Pkgs, Dirs, DirOf,           \* packages and the directories they are in
    Root,                        \* the directory of an index not divided
    Insts,                       \* server instances that share the stores
    Reqs, Ask,                   \* requests; [kind, repo, pkg, inst] of each
    MaxFaults,                   \* how many requests stop, how often upstream fails
    None

Repos == {Hosted, Cache, Proxy, Outer}
Proxies == {Proxy, Outer}
Spots == Repos \cup {Snap}       \* where an index and a flag can be
Members(repo) == IF repo = Proxy THEN <<Hosted, Cache>> ELSE <<Proxy>>
Parents(repo) == {p \in Proxies : \E i \in DOMAIN Members(p) : Members(p)[i] = repo}

VARIABLES
    format,   \* the format of all the repositories
    reqs,     \* requests under way
    recs,     \* package records: [repo, pkg, val]
    flags,    \* spots with a stale flag
    index,    \* commit points: [spot, dir, list, key]
    files,    \* index files, stored under their hash: [spot, dir, list]
    offer,    \* what upstream has: a set of [pkg, val]
    fresh,    \* the cached index is younger than its time to live
    keys,     \* [priv, pub] of Hosted
    depth,    \* repodata_depth in the configuration: an index per directory
    extra,    \* what some formats keep besides: claims of instances, version
              \* documents, dist-tags, proxies whose index is older than their flag
    faults,   \* how many are left
    risk      \* what happened that a promise made below excepts

state == <<recs, flags, index, files, offer, fresh, keys, depth, extra>>
vars == <<format, reqs, state, faults, risk>>

-----------------------------------------------------------------------------
(* Requests.                                                               *)

Kind(r) == Ask[r].kind
Start(r) == [pc |-> "start", cur |-> Ask[r].repo, proxy |-> Ask[r].repo, at |-> 1, dir |-> Root, todo |-> {}, list |-> {},
             merged |-> {}, key |-> None, next |-> None, pkg |-> Ask[r].pkg, depth |-> 0, answer |-> None]
At(r, pc) == reqs[r].pc = pc
Goto(r, pc) == reqs' = [reqs EXCEPT ![r].pc = pc]
Reply(r, what) == reqs' = [reqs EXCEPT ![r] = [Start(r) EXCEPT !.pc = "done", !.answer = what]]
Asks(r, kind, repos) == At(r, "start") /\ Kind(r) = kind /\ Ask[r].repo \in repos
Rest == \A r \in DOMAIN reqs : reqs[r].pc \in {"start", "done"}
Quiet == UNCHANGED <<format, faults, risk>>

\* One fault is spent; what was half done stays.
Fault(kind) == faults > 0 /\ faults' = faults - 1 /\ risk' = risk \cup {kind}

\* Every instance has claims of its own.  That of a fetch is dropped with the
\* request that has it.  Requests that wait for it look again; one that has not
\* yet begun to wait misses the call.
Claim(r) == <<Ask[r].inst, Ask[r].pkg>>
Fetching(r) == reqs[r].pc \in {"recheck", "fetch", "store"}
Woken(r, after) ==
    [q \in DOMAIN reqs |->
       IF q = r THEN after
       ELSE IF Claim(q) # Claim(r) THEN reqs[q]
       ELSE IF At(q, "wait") THEN [reqs[q] EXCEPT !.pc = "try"]
       ELSE IF At(q, "late") THEN [reqs[q] EXCEPT !.pc = "lost"]
       ELSE reqs[q]]
Unclaimed(r) == [extra EXCEPT !.claims = @ \ {Claim(r)}]

Stops(r) ==
    /\ reqs[r].pc \notin {"start", "done"}
    /\ Fault("stopped")
    /\ IF Fetching(r)
       THEN reqs' = Woken(r, [Start(r) EXCEPT !.pc = "done"]) /\ extra' = Unclaimed(r)
       ELSE Reply(r, None) /\ UNCHANGED extra
    /\ UNCHANGED <<format, recs, flags, index, files, offer, fresh, keys, depth>>

\* A client that polls an index asks again.
Again(r) ==
    /\ At(r, "done") /\ Kind(r) = "get"
    /\ reqs' = [reqs EXCEPT ![r] = Start(r)]
    /\ Quiet /\ UNCHANGED state

-----------------------------------------------------------------------------
(* Records and flags.                                                      *)

Entry(p, v) == [pkg |-> p, val |-> v]
Listed(repo) == {Entry(a.pkg, a.val) : a \in {b \in recs : b.repo = repo}}
PutRec(repo, p, v) ==
    recs' = {a \in recs : a.repo # repo \/ a.pkg # p} \cup {[repo |-> repo, pkg |-> p, val |-> v]}

\* A proxy without a write member writes to its first hosted member; a proxy
\* of proxies has none, a cache accepts no upload.
resolve_format_write_target(repo) ==
    IF repo = Hosted THEN Hosted
    ELSE IF repo \in Proxies /\ \E i \in DOMAIN Members(repo) : Members(repo)[i] = Hosted THEN Hosted
    ELSE None

\* The proxies above a repository, level by level.
Ancestors(repo) == Parents(repo) \cup UNION {Parents(p) : p \in Parents(repo)}

\* The package is streamed to a blob of its own before anything refers to it.
upload_preamble(r, target) ==
    /\ \E kind \in {"upload", "nexus", "publish"} : Asks(r, kind, Repos)
    /\ target = resolve_format_write_target(Ask[r].repo)

rejected(r) ==
    /\ upload_preamble(r, None)
    /\ Reply(r, "rejected")
    /\ Quiet /\ UNCHANGED state

\* Then the proxies above from are to be flagged.
Propagate(r, from, then) ==
    reqs' = [reqs EXCEPT ![r].pc = "propagating", ![r].todo = Ancestors(from), ![r].next = then]

\* The flags of an upload start from the repository it was addressed to, those
\* of a component upload from the one it was written to.
Source(r) == IF Kind(r) = "nexus" THEN Hosted ELSE Ask[r].repo
Addressed(r) == risk \cup (IF Source(r) \in Proxies THEN {"addressed"} ELSE {})

\* put_artifact of the uploaded package, with a flag to set after it.
CommitRecord(r) ==
    /\ upload_preamble(r, Hosted)
    /\ PutRec(Hosted, Ask[r].pkg, r)
    /\ reqs' = [reqs EXCEPT ![r].pc = "flag", ![r].cur = Hosted]
    /\ Quiet /\ UNCHANGED <<flags, index, files, offer, fresh, keys, depth, extra>>

SetFlag(r, from, then) ==
    /\ At(r, "flag")
    /\ flags' = flags \cup {reqs[r].cur}
    /\ Propagate(r, from, then)
    /\ risk' = Addressed(r)
    /\ UNCHANGED <<format, faults, recs, index, files, offer, fresh, keys, depth, extra>>

\* A component upload of apt and yum flags its own repository only.
FlagAlone(r) ==
    /\ At(r, "flag")
    /\ flags' = flags \cup {Hosted}
    /\ Reply(r, "ok")
    /\ risk' = risk \cup {"unpropagated"}
    /\ UNCHANGED <<format, faults, recs, index, files, offer, fresh, keys, depth, extra>>

\* The repositories are listed, then a flag is put on each proxy above the
\* source, which is not flagged itself; failures are not reported.
propagate_staleness(r) ==
    /\ At(r, "propagating")
    /\ \/ /\ reqs[r].todo = {}
          /\ IF reqs[r].next = "done" THEN Reply(r, "ok") ELSE Goto(r, reqs[r].next)
          /\ UNCHANGED flags
       \/ \E p \in reqs[r].todo :
            /\ flags' = flags \cup {p}
            /\ reqs' = [reqs EXCEPT ![r].todo = @ \ {p}]
    /\ Quiet /\ UNCHANGED <<recs, index, files, offer, fresh, keys, depth, extra>>

\* HostedRepo::delete, the DELETE of any artifact by its path: the record goes;
\* only helm flags the repository and the proxies above it.
delete(r) ==
    /\ Asks(r, "delete", {Hosted})
    /\ recs' = {a \in recs : a.repo # Hosted \/ a.pkg # Ask[r].pkg}
    /\ IF format = "helm" /\ recs' # recs THEN Goto(r, "flag") /\ UNCHANGED risk
       ELSE Reply(r, "ok") /\ risk' = risk \cup {"deleted"}
    /\ UNCHANGED <<format, faults, flags, index, files, offer, fresh, keys, depth, extra>>

-----------------------------------------------------------------------------
(* The rebuild of an index, shared by apt, yum and helm.                   *)

Rebuilding == {"clear", "scan", "write", "commit"}
DirFor(spot, p, deep) == IF spot # Hosted \/ deep = 0 THEN Root ELSE DirOf[p]
In(spot, list, dir, deep) == {e \in list : DirFor(spot, e.pkg, deep) = dir}
CommitPoint(spot, dir) == {i \in index : i.spot = spot /\ i.dir = dir}

\* What get_metadata finds by way of the commit point.
Served(spot, dir) ==
    LET found == {i \in CommitPoint(spot, dir) : [spot |-> spot, dir |-> dir, list |-> i.list] \in files}
    IN IF found = {} THEN None ELSE (CHOOSE i \in found : TRUE).list

\* Another request is between the flag and the commit point of a repository.
Overlap(r, repo) ==
    risk \cup (IF \E q \in DOMAIN reqs \ {r} :
                    reqs[q].pc \in Rebuilding \ {"clear"} /\ reqs[q].cur = repo
               THEN {"overlap"} ELSE {})

\* The flag goes first.
ClearFlag(r) ==
    /\ At(r, "clear")
    /\ flags' = flags \ {reqs[r].cur}
    /\ reqs' = [reqs EXCEPT ![r].pc = "scan", ![r].todo = Pkgs, ![r].list = {}]
    /\ risk' = Overlap(r, reqs[r].cur)
    /\ UNCHANGED <<format, faults, recs, index, files, offer, fresh, keys, depth, extra>>

\* What a request rebuilds it divides by the depth it read with the configuration.
Part(r, dir) == In(reqs[r].cur, reqs[r].list, dir, reqs[r].depth)

\* The shards of the repository are read one by one, in any order; the last one
\* gives the directories to write.
ScanShard(r, Directories(_, _)) ==
    /\ At(r, "scan")
    /\ \E p \in reqs[r].todo :
         LET list == reqs[r].list \cup {e \in Listed(reqs[r].cur) : e.pkg = p} IN
         reqs' = [reqs EXCEPT
                    ![r].list = list,
                    ![r].pc = IF reqs[r].todo = {p} THEN "write" ELSE "scan",
                    ![r].todo = IF reqs[r].todo = {p} THEN Directories(reqs[r].depth, list) ELSE @ \ {p}]
    /\ Quiet /\ UNCHANGED state

WriteFiles(r) ==
    /\ At(r, "write")
    /\ \E d \in reqs[r].todo :
         /\ files' = files \cup {[spot |-> reqs[r].cur, dir |-> d, list |-> Part(r, d)]}
         /\ reqs' = [reqs EXCEPT ![r].pc = "commit", ![r].dir = d]
    /\ Quiet /\ UNCHANGED <<recs, flags, index, offer, fresh, keys, depth, extra>>

PutIndex(spot, dir, list, key) ==
    index' = (index \ CommitPoint(spot, dir))
             \cup {[spot |-> spot, dir |-> dir, list |-> list, key |-> key]}

\* Every directory is written: a proxy goes on with its members, its own index
\* is then served.
OfMember(r) == Ask[r].repo \in Proxies /\ reqs[r].cur \notin Proxies
Rebuilt(r, then) ==
    reqs' = [reqs EXCEPT ![r] = [Start(r) EXCEPT
               !.pc = IF OfMember(r) THEN "taken" ELSE then, !.proxy = reqs[r].proxy, !.at = reqs[r].at,
               !.merged = reqs[r].merged, !.depth = reqs[r].depth]]

CommitIndex(r, then) ==
    LET d == reqs[r].dir IN
    /\ At(r, "commit")
    /\ PutIndex(reqs[r].cur, d, Part(r, d), reqs[r].key)
    /\ IF reqs[r].todo = {d} THEN Rebuilt(r, then)
       ELSE reqs' = [reqs EXCEPT ![r].pc = "write", ![r].todo = @ \ {d}, ![r].dir = Root]
    /\ Quiet /\ UNCHANGED <<recs, flags, files, offer, fresh, keys, depth, extra>>

\* Nothing to write.
NoIndex(r, then) ==
    /\ At(r, "write") /\ reqs[r].todo = {}
    /\ Rebuilt(r, then)
    /\ Quiet /\ UNCHANGED state

\* A rebuild of a repository by a request that found it stale, with the key
\* read before.
Rebuild(r, repo) ==
    reqs' = [reqs EXCEPT ![r].pc = "clear", ![r].cur = repo,
                         ![r].key = IF repo = Hosted THEN keys.priv ELSE None]

-----------------------------------------------------------------------------
(* The merged index of a proxy, shared by apt and yum.                     *)

ProxyCheck(r) ==
    /\ Asks(r, "get", Proxies)
    /\ Goto(r, IF Ask[r].repo \in flags \/ CommitPoint(Ask[r].repo, Root) = {}
               THEN "proxy clear" ELSE "serve")
    /\ Quiet /\ UNCHANGED state

Merging(q) ==
    /\ Kind(q) = "get"
    /\ reqs[q].pc \in Rebuilding \cup {"members", "member", "refresh", "refreshed", "taken", "merge", "merged", "propagating"}

ProxyClear(r) ==
    /\ At(r, "proxy clear")
    /\ flags' = flags \ {reqs[r].proxy}
    /\ Goto(r, "members")
    /\ risk' = risk \cup (IF \E q \in DOMAIN reqs \ {r} : reqs[q].proxy = reqs[r].proxy /\ Merging(q)
                          THEN {"overlap"} ELSE {})
    /\ UNCHANGED <<format, faults, recs, index, files, offer, fresh, keys, depth, extra>>

Member(r) == Members(reqs[r].proxy)[reqs[r].at]
NextMember(r) == reqs' = [reqs EXCEPT ![r].pc = "members", ![r].at = @ + 1]
MoreMembers(r) == reqs[r].at <= Len(Members(reqs[r].proxy))

\* Mutant: an entry is added whether or not the version is there.
EveryEntry(merged, list) == merged \cup list

\* The members are asked in order and the first entry of a package stays.
FirstWins(merged, list) == merged \cup {e \in list : \A m \in merged : m.pkg # e.pkg}

\* What a member has stored of its index is added.
Merge(r) ==
    LET found == Served(Member(r), Root) IN
    /\ reqs' = [reqs EXCEPT ![r].pc = IF @ = "taken" THEN "members" ELSE @, ![r].at = @ + 1,
                            ![r].merged = @ \cup (IF found = None THEN {} ELSE found)]
    /\ risk' = Overlap(r, Member(r))
    /\ UNCHANGED <<format, faults, state>>

\* The rebuild of a member failed, which is ignored.
MemberFails(r) ==
    /\ reqs[r].pc \in Rebuilding /\ OfMember(r)
    /\ Fault("stopped")
    /\ reqs' = [reqs EXCEPT ![r] = [Start(r) EXCEPT !.pc = "taken", !.proxy = reqs[r].proxy,
                                                    !.at = reqs[r].at, !.merged = reqs[r].merged]]
    /\ UNCHANGED <<format, state>>

\* All members are merged: the result is written like an index of its own.
ProxyWrite(r) ==
    reqs' = [reqs EXCEPT ![r] = [Start(r) EXCEPT !.pc = "write", !.todo = {Root}, !.list = reqs[r].merged]]

-----------------------------------------------------------------------------
(* Downloads: the members of a proxy are tried in order; a cache fetches    *)
(* what it does not have.                                                  *)

From(r) == IF Ask[r].repo \in Proxies THEN Members(Ask[r].repo) ELSE <<Ask[r].repo>>
Holding(repo, p) == {e \in Listed(repo) : e.pkg = p}
Trying(r, repos) ==
    /\ Kind(r) = "download" /\ reqs[r].pc \in {"start", "try"}
    /\ From(r)[reqs[r].at] \in repos
NotHere(r) ==
    IF reqs[r].at < Len(From(r)) THEN [reqs[r] EXCEPT !.pc = "try", !.at = @ + 1]
    ELSE [Start(r) EXCEPT !.pc = "done"]
Delivered(r, found) == [Start(r) EXCEPT !.pc = "done", !.answer = found]

\* A repository that answers with what it holds.
HoldsOrNot(r, repos) ==
    /\ Trying(r, repos)
    /\ LET found == Holding(From(r)[reqs[r].at], Ask[r].pkg) IN
       reqs' = [reqs EXCEPT ![r] = IF found # {} THEN Delivered(r, found) ELSE NotHere(r)]
    /\ Quiet /\ UNCHANGED state

CacheLookup(r, missed) ==
    /\ Trying(r, {Cache})
    /\ LET found == Holding(Cache, Ask[r].pkg) IN
       reqs' = [reqs EXCEPT ![r] = IF found # {} THEN Delivered(r, found) ELSE [@ EXCEPT !.pc = missed]]
    /\ Quiet /\ UNCHANGED state

\* InflightMap::try_claim: of the requests to an instance one fetches, the others
\* wait for it.
TryClaim(r, claimed) ==
    \/ /\ At(r, "claim")
       /\ IF Claim(r) \in extra.claims THEN Goto(r, "late") /\ UNCHANGED extra
          ELSE Goto(r, claimed) /\ extra' = [extra EXCEPT !.claims = @ \cup {Claim(r)}]
       /\ Quiet /\ UNCHANGED <<recs, flags, index, files, offer, fresh, keys, depth>>
    \/ At(r, "late") /\ Goto(r, "wait") /\ Quiet /\ UNCHANGED state

\* Upstream has the package, or not, or fails.
AskUpstream(r) ==
    LET found == {e \in offer : e.pkg = Ask[r].pkg} IN
    /\ At(r, "fetch")
    /\ \/ found # {} /\ reqs' = [reqs EXCEPT ![r].pc = "store", ![r].list = found] /\ Quiet
          /\ UNCHANGED extra
       \/ found = {} /\ reqs' = Woken(r, NotHere(r)) /\ extra' = Unclaimed(r) /\ Quiet
       \/ Fault("upstream") /\ reqs' = Woken(r, NotHere(r)) /\ extra' = Unclaimed(r) /\ UNCHANGED format
    /\ UNCHANGED <<recs, flags, index, files, offer, fresh, keys, depth>>

StoreFetched(r) ==
    /\ At(r, "store")
    /\ \E e \in reqs[r].list : PutRec(Cache, e.pkg, e.val)
    /\ reqs' = Woken(r, Delivered(r, reqs[r].list)) /\ extra' = Unclaimed(r)
    /\ Quiet /\ UNCHANGED <<flags, index, files, offer, fresh, keys, depth>>
=============================================================================
