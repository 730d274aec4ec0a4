------------------------------ MODULE Packages ------------------------------
(***************************************************************************)
(* The package formats side by side: an initial state picks a format and   *)
(* the requests that are sent to its repositories.                         *)
(***************************************************************************)
EXTENDS PackageRepo

CONSTANTS Workloads, \* [format, reqs, depth, faults]
          Offers     \* what upstream has at first, and later

Formats == {"apt", "yum", "helm", "npm", "pypi", "cargo", "golang"}

ASSUME PackageAssumption ==
    /\ Hosted \notin {Cache, Proxy, Outer, Snap} /\ Cache \notin {Proxy, Outer, Snap}
    /\ Proxy \notin {Outer, Snap} /\ Outer # Snap /\ None \notin Spots
    /\ DirOf \in [Pkgs -> Dirs]
    /\ Ask \in [Reqs -> [kind : STRING, repo : Spots, pkg : Pkgs, inst : Insts]]
    /\ \A load \in Workloads :
         /\ load.format \in Formats /\ load.reqs \subseteq Reqs /\ load.faults \in 0 .. MaxFaults
         /\ load.depth \in {0, 1} /\ (load.format # "yum" => load.depth = 0)
    /\ \A i \in {1, 2} : Offers[i] \subseteq [pkg : Pkgs, val : {None}]
    /\ MaxFaults \in Nat

Apt == INSTANCE Apt
Yum == INSTANCE Yum
Helm == INSTANCE Helm
Npm == INSTANCE Npm
Pypi == INSTANCE Pypi
Cargo == INSTANCE Cargo
Golang == INSTANCE Golang

\* Upstream changes, and the time to live of what is cached ends.
upstream_moves ==
    /\ faults > 0 /\ faults' = faults - 1
    /\ offer = Offers[1] /\ offer' = Offers[2]
    /\ UNCHANGED <<format, risk, reqs, recs, flags, index, files, fresh, keys, depth, extra>>
Expires ==
    /\ fresh /\ fresh' = FALSE
    /\ Quiet /\ UNCHANGED <<reqs, recs, flags, index, files, offer, keys, depth, extra>>

\* Component uploads exist for four formats.
unsupported(r) ==
    /\ Asks(r, "nexus", Repos) /\ format \in {"npm", "cargo", "golang"}
    /\ Reply(r, "rejected")
    /\ Quiet /\ UNCHANGED state

Step(r) ==
    \/ Again(r) \/ rejected(r) \/ delete(r) \/ unsupported(r)
    \/ format # "npm" /\ propagate_staleness(r)
    \/ format = "apt" /\ Apt!AptStep(r)
    \/ format = "yum" /\ Yum!YumStep(r)
    \/ format = "helm" /\ Helm!HelmStep(r)
    \/ format = "npm" /\ Npm!NpmStep(r)
    \/ format = "pypi" /\ Pypi!PypiStep(r)
    \/ format = "cargo" /\ Cargo!CargoStep(r)
    \/ format = "golang" /\ Golang!GolangStep(r)

Init ==
    \E load \in Workloads :
      /\ format = load.format
      /\ reqs = [r \in load.reqs |-> Start(r)]
      /\ depth = load.depth
      /\ recs = {} /\ flags = {} /\ index = {} /\ files = {}
      /\ offer = Offers[1] /\ fresh = FALSE
      /\ keys = [priv |-> None, pub |-> None]
      /\ extra = [claims |-> {}, docs |-> {}, tags |-> {}, old |-> {}]
      /\ faults = load.faults /\ risk = {}

\* Upstream matters to requests that reach a cache.
Cached == \E r \in DOMAIN reqs : Ask[r].repo \in {Cache, Proxy, Outer}

Next ==
    \/ \E r \in DOMAIN reqs : Step(r) \/ Stops(r)
    \/ Cached /\ (upstream_moves \/ Expires)

Fairness == \A r \in Reqs : WF_vars(r \in DOMAIN reqs /\ Step(r))
Spec == Init /\ [][Next]_vars /\ Fairness

-----------------------------------------------------------------------------
Entries == [pkg : Pkgs, val : Reqs \cup {None}]

\* What is where; a merged index lists a version once.
TypeOK ==
    /\ recs \subseteq [repo : Repos, pkg : Pkgs, val : Reqs \cup {None}]
    /\ flags \subseteq Spots
    /\ \A i \in index : i.spot \in Spots /\ i.dir \in Dirs \cup {Root} /\ i.list \subseteq Entries
    /\ format \in {"helm", "npm"} => \A i \in index : \A e, f \in i.list : e.pkg = f.pkg => e = f
    /\ \A f \in files : f.spot \in Spots /\ f.dir \in Dirs \cup {Root} /\ f.list \subseteq Entries
    /\ depth \in {0, 1} /\ fresh \in BOOLEAN /\ faults \in 0 .. MaxFaults

\* A hosted repository at rest has an index for each directory with packages,
\* and lists in it what it has, or is flagged so that the next reader rebuilds it.
ListsWhatItHas ==
    \A d \in {DirFor(Hosted, a.pkg, depth) : a \in {b \in recs : b.repo = Hosted}} :
      \E i \in CommitPoint(Hosted, d) : i.list = In(Hosted, Listed(Hosted), d, depth)

HostedCurrent ==
    (Rest /\ format \in {"apt", "yum", "helm"} /\ risk \cap {"stopped", "overlap", "deleted", "outlived"} = {})
    => Hosted \in flags \/ ListsWhatItHas

\* A commit point never names a file that is not stored, while it is rebuilt,
\* merged or copied; a cache fetches the files of its index later, and a change
\* of depth deletes files before it writes others.
IndexServable ==
    "divided" \notin risk =>
      \A i \in index : i.spot # Cache => [spot |-> i.spot, dir |-> i.dir, list |-> i.list] \in files

Outdated == IF format = "npm" THEN extra.old ELSE flags
MergesMembers == \A i \in CommitPoint(Proxy, Root) : Listed(Hosted) \subseteq i.list

\* A proxy at rest lists what its hosted member has, or is flagged.
ProxyCurrent ==
    (Rest /\ risk \cap {"stopped", "overlap", "deleted", "addressed", "unpropagated", "divided", "watermark"} = {} /\ depth = 0)
    => Proxy \in Outdated \/ MergesMembers

\* What is signed verifies with the public key, or is flagged to be signed again.
SignedCurrent ==
    (Rest /\ risk \cap {"stopped", "overlap", "rekeyed"} = {})
    => \A i \in index : (i.spot \in {Hosted, Snap} /\ format = "apt") => i.spot \in flags \/ i.key = keys.pub

\* What is advertised is there: a version document has its tarball (npm), a
\* module's zip its .info (golang).
Described(repo, p) == \E d \in extra.docs : d.repo = repo /\ d.pkg = p
PartsInOrder ==
    /\ (format = "npm" /\ "deleted" \notin risk) =>
         \A d \in extra.docs : d.repo = Hosted => Holding(Hosted, d.pkg) # {}
    /\ format = "golang" => \A a \in recs : a.repo = Hosted => Described(Hosted, a.pkg)

\* A dist-tag names a version with a document, or one that a request under way
\* will put: a publish of several versions and the fill of a cache put the tags
\* first.  One that stops or fails on the way leaves the tag without it.
Writes(q, repo, p) ==
    \/ repo = Hosted /\ reqs[q].pc \in {"publish", "version", "tags"} /\ p \in reqs[q].todo
    \/ repo = Hosted /\ At(q, "version") /\ p = reqs[q].pkg
    \/ repo = Cache /\ At(q, "keep") /\ \E e \in reqs[q].list : e.pkg = p
Promised(repo, p) ==
    Described(repo, p) \/ risk \cap {"stopped", "skipped"} # {} \/ \E q \in DOMAIN reqs : Writes(q, repo, p)
TagsPromised == format = "npm" => \A t \in extra.tags : Promised(t.repo, t.pkg)

\* Indexes at rest list what their repositories and members have and are signed
\* with the key that clients have, or are flagged to be made again.
IndexesCurrent == HostedCurrent /\ ProxyCurrent /\ SignedCurrent

\* Nothing is named that is not stored, at any moment of an upload, a rebuild, a
\* merge or a copy.
NamesStored == IndexServable /\ PartsInOrder /\ TagsPromised

\* A file of a pypi cache is fetched and stored once, by one of the requests
\* that miss it together, as long as they are all sent to one instance: another
\* instance has claims of its own.
SameInstance(r) == \A q \in DOMAIN reqs : Ask[q].pkg = Ask[r].pkg => Ask[q].inst = Ask[r].inst
StoredOnce ==
    [][format = "pypi" =>
         \A r \in DOMAIN reqs :
           (SameInstance(r) /\ At(r, "store") /\ reqs'[r].pc = "done" /\ reqs'[r].answer # None)
           => Holding(Cache, Ask[r].pkg) = {}]_vars

\* A client that asks again and again is shown what was uploaded.
Polls == {r \in Reqs : Kind(r) = "get" /\ Ask[r].repo \in {Hosted, Proxy}}
Shown ==
    \A r \in Polls :
      []<>(\/ r \notin DOMAIN reqs \/ depth # 0 \/ risk # {}
           \/ At(r, "done") /\ \A e \in Listed(Hosted) : reqs[r].answer # None /\ e \in reqs[r].answer)
=============================================================================
