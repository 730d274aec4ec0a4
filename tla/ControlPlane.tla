---------------------------- MODULE ControlPlane ----------------------------
(***************************************************************************)
(* Instances that serve the control plane together: an initial state picks *)
(* the requests that are sent and the background work that goes on.        *)
(***************************************************************************)
EXTENDS LiveModel, Repositories, Artifacts, Identity, IntegrityCheck

CONSTANTS
    Workloads,  \* [reqs, parts, repos, arts, lost, warm, faults]; see Init
    Primary,    \* the store that is there at first
    Roles       \* the users that are there at first and their roles

\* A repository, a file and a user as they are before the first request.
Initial(n) == [store |-> Primary, deleting |-> FALSE, made |-> "init", by |-> "init"]
User(u) == IF u \in DOMAIN Roles THEN [roles |-> Roles[u], pw |-> "init", secret |-> "init", by |-> "init"] ELSE None

\* Requests are about things that there may be, and come to instances; there is an
\* admin at first (bootstrap), and names of requests are none of the first secrets.
\* Files are there in repositories that are there, and belong at paths that there
\* may be.
ASSUME ControlAssumption ==
    /\ IsFiniteSet(Reqs) /\ "gc" \notin Insts /\ None \notin Repos /\ {"init", None} \cap Reqs = {} /\ None \notin {"ok", "init"}
    /\ Primary \in Stores /\ None \notin [store : Stores, deleting : BOOLEAN, made : Reqs \cup {"init"}, by : Reqs \cup {"init"}]
    /\ \A w \in Workloads :
         /\ w.reqs \subseteq Reqs
         /\ w.repos \subseteq Repos /\ w.arts \subseteq w.repos \X (Paths \cup OddPaths) /\ IsFiniteSet(w.arts)
    /\ \A p \in DOMAIN Normal : Normal[p] \in Paths
    /\ \A p \in DOMAIN chart_path : chart_path[p] \in Paths
    /\ \A r \in Reqs :
         /\ Ask[r].inst \in Insts
         /\ Ask[r].kind \in UserKinds => Ask[r].on \in Users
         /\ Ask[r].kind = "put_settings" => Ask[r].on \in Fields
         /\ Ask[r].kind = "put" => Ask[r].to \in Paths \cup OddPaths
         /\ Ask[r].kind = "create_repo" => Ask[r].to \in Stores
         /\ Ask[r].kind \in {"create_repo", "update_repo", "delete_repo", "clone_repo"} => Ask[r].on \in Repos
    /\ \A u \in DOMAIN Roles : User(u) # None
    /\ \E u \in Users \cap DOMAIN Roles : "admin" \in Roles[u]

Blobs(files) == {Blob(Primary, BlobId(x[1], x[2], "init")) : x \in {y \in files : y[2] \notin Tags}}

Init ==
    \E w \in Workloads :
      /\ kv = [repos |-> [n \in Repos |-> IF n \in w.repos THEN Initial(n) ELSE None],
               stores |-> [s \in Stores |-> IF s = Primary THEN "init" ELSE None],
               users |-> [u \in Users |-> User(u)], role |-> "grants",
               arts |-> {[repo |-> x[1], path |-> x[2], by |-> "init", in |-> "init", id |-> BlobId(x[1], x[2], "init")] : x \in w.arts},
               tree |-> {[repo |-> x[1], path |-> x[2], in |-> "init"] : x \in w.arts},
               blobs |-> Blobs(w.arts \ w.lost), recs |-> Blobs(w.arts), stale |-> {},
               jwt |-> [cur |-> "init", prev |-> None], settings |-> [f \in Fields |-> "init"],
               tasks |-> [r \in w.reqs |-> None]]
      /\ mem = [i \in Insts |->
                 [users |-> [u \in w.warm |-> User(u)], roles |-> Empty, verified |-> Empty,
                  jwt |-> [cur |-> "init", prev |-> None], settings |-> [f \in Fields |-> "init"],
                  refresh |-> [pc |-> "settings", got |-> None], stores |-> {Primary}]]
      /\ reqs = [r \in w.reqs |-> Start(r)]
      /\ drain = [d \in Drainers |-> NoDrain]
      /\ LET settled == "settled" \in w.parts  \* the materializer and the scanner have run for a while
         IN /\ mat = [i \in Insts |->
                       [pc |-> IF settled /\ i = Home THEN "run" ELSE "down", model |-> IF settled THEN Listing(Things) ELSE {},
                        got |-> None, batch |-> <<>>, inbox |-> NoInbox]]
            /\ scan = [i \in Insts |-> [seen |-> IF settled THEN Listing(Scanned) ELSE {}, got |-> None]]
      /\ client = [pc |-> "off", view |-> {}, inbox |-> NoInbox, sure |-> FALSE]
      /\ ports = [i \in Insts |-> {}]
      /\ parts = w.parts /\ faults = w.faults /\ risk = {}

Step(r) == IdentityStep(r) \/ RepoStep(r) \/ ArtifactStep(r) \/ CheckStep(r) \/ Announce(r)

\* What handlers and workers do as long as their instance runs; the browser
\* connects again by itself.
Works ==
    \/ \E r \in DOMAIN reqs : Step(r)
    \/ \E i \in Insts : Materializes(i) \/ Scans(i) \/ reconcile(i) \/ expire(i)
    \/ Browses
    \/ \E d \in Drainers : Drains(d)

Next ==
    \/ Works
    \/ \E i \in Insts : run_settings_refresh(i)
    \/ \E r \in DOMAIN reqs : Stops(r) \/ CheckFaults(r)
    \/ LiveFaults \/ (\E d \in Drainers : drain_stops(d)) \/ collect

\* What there is to do takes each handler and worker finitely many steps, so that
\* none is left out for ever if one of them always goes on; only the refresh of
\* the settings goes round and round.
Fairness == WF_vars(Works) /\ \A i \in Insts : WF_vars(run_settings_refresh(i))

Spec == Init /\ [][Next]_vars /\ Fairness

-----------------------------------------------------------------------------
(* Properties.                                                             *)

Except(tags) == risk \cap tags # {}
OnlyIn(set) == {<<x.repo, x.path>> : x \in set}

\* Variables have values of their types.
TypeOK ==
    /\ \A n \in Repos : kv.repos[n] # None => kv.repos[n].store \in Stores /\ kv.repos[n].deleting \in BOOLEAN
    /\ OnlyIn(kv.arts) \cup OnlyIn(kv.tree) \subseteq Repos \X (Paths \cup OddPaths)
    /\ {b.store : b \in kv.blobs \cup kv.recs} \subseteq Stores /\ faults \in 0 .. MaxFaults
    /\ \A i \in Insts : DOMAIN mem[i].users \subseteq Users /\ Len(mat[i].inbox.q) <= RingCap
    /\ \A d \in Drainers : drain[d].pc \in {"idle", "arts", "tree", "config"}

\* There is always an admin: the count that delete_user makes before it deletes
\* is enough as long as no other request changes who is one in the meantime.
LastAdmin == Except({"user_race", "demoted", "restored"}) \/ Admins # {}

\* A repository has no files or directory entries of an earlier one of its name:
\* deletion drains both before it frees the name (drain_deleting_repo).
NewIsEmpty ==
    Except({"overwritten", "late", "restored", "undrained"})
    \/ \A x \in kv.arts \cup kv.tree : kv.repos[x.repo] # None /\ kv.repos[x.repo].made = x.in

\* A live repository stays the one it is, whatever is created or copied, until a
\* request to delete it marks it (clone_repo reserves its name only if it is free).
LiveStays ==
    \A n \in list_repos :
      \/ risk' \cap {"overwritten", "restored", "undrained"} # {}
      \/ /\ kv'.repos[n] # None /\ kv'.repos[n].made = kv.repos[n].made
         /\ kv'.repos[n].deleting => \E r \in DOMAIN reqs : Kind(r) = "delete_repo" /\ On(r) = n /\ At(r, "mark")

\* The store of a live repository is there: delete_store counts its users first.
StoreInUse ==
    Except({"store_race", "overwritten", "restored"}) \/ \A n \in list_repos : kv.stores[kv.repos[n].store] # None

\* When all requests are answered, what can be browsed in a live repository is
\* what can be downloaded, although records and entries are written one by one
\* and are found in different ways when a directory is deleted.
TreeMatches ==
    \/ ~Rest \/ Except({"overlap", "late", "stopped", "overwritten", "restored", "undrained"})
    \/ \A n \in list_repos : {x.path : x \in {y \in kv.arts : y.repo = n}} = {x.path : x \in {y \in kv.tree : y.repo = n}}

\* A deletion of a directory that says it is complete has left nothing under it
\* in any member, unless files were uploaded there meanwhile.
BulkComplete ==
    \A r \in DOMAIN reqs :
      (Kind(r) = "bulk_delete" /\ ~Done(r) /\ Done(r)' /\ risk' \cap {"overlap", "late"} = {})
      => ~\E x \in kv.arts : x \in Present(r) /\ x.path \in Under /\ x.repo \in list_repos

\* Cleaning spares what was uploaded since the page was read: a finished upload is
\* gone only if it was replaced, or its file, directory or repository deleted.
CleanSpares ==
    \A x \in kv.arts \ kv'.arts :
      (x.by \in DOMAIN reqs /\ Done(x.by) /\ risk' \cap {"expired_anew", "overwritten", "undrained"} = {})
      => \/ Of(kv'.arts, x.repo, x.path) # {} \/ x.repo \notin list_repos
         \/ \E q \in Busy : Kind(q) \in {"delete", "bulk_delete", "check"} /\ x.path \in Touched(q)

\* Repositories and files go when a request asks for it, and then all of them.
GoneAsAsked == [][LiveStays /\ BulkComplete /\ CleanSpares]_vars

\* A check removes what it takes for lost only if it is: an artifact whose blob is
\* in a store, a tag whose manifest is there and the record of a blob that is there
\* stay, unless files were uploaded during the check, or a store or a repository
\* could not be read.
SparesFiles(r) ==
    \A x \in kv.arts \ kv'.arts :
      \/ Head1(r).why \in {"move", "chart"} \/ x \in Lost
      \/ x.path \in Tags /\ Of(kv.arts, x.repo, ManifestOf[x.path]) = {}
CheckSpares(r) ==
    (reqs'[r] # reqs[r] /\ risk' \cap {"during_check", "unlisted", "unread"} = {})
    => SparesFiles(r) /\ (kv.recs \ kv'.recs) \cap kv.blobs = {}

\* The same, of the files, of every check: "Bloom filters have zero false negatives, so any blob_id
\* not in the filter is definitively missing" (check.rs, run_check).
CheckDefinitive == [][\A r \in DOMAIN reqs : (Kind(r) = "check" /\ reqs'[r] # reqs[r]) => SparesFiles(r)]_vars

\* A check that mends and says that it is complete has left none of the artifacts
\* that had lost their blob when it began, unless the filter took another for it,
\* or something could not be read or written.
Completes(r) == ~Done(r) /\ Done(r)' /\ To(r) # "dry"
CheckRepairs(r) ==
    (Completes(r) /\ risk' \cap {"collision", "unread", "unfixed"} = {}) => Ck(r).lost \cap kv'.arts = {}

\* A file that a check moves is at its new path when it is complete, although it is
\* deleted before it is written, and the index of moved charts is flagged, unless
\* its repository was deleted.
MovedKept(r) ==
    (Completes(r) /\ risk' \cap {"overlap", "late", "unread", "unfixed", "overwritten", "restored", "undrained"} = {})
    => \A m \in {k \in Ck(r).moved : Meant(k)} : Of(kv.arts, m.repo, m.path) # {} /\ (m.why = "chart" => m.repo \in kv.stale)

\* A check deletes what is lost, all of it and nothing else, and loses no file that
\* it moves.
CheckSound ==
    [][\A r \in {q \in DOMAIN reqs : Kind(q) = "check"} : CheckSpares(r) /\ CheckRepairs(r) /\ MovedKept(r)]_vars

\* A walk through the pages of a listing, and an archive of a directory, have every
\* file that was there from their beginning to their end, whatever comes and goes
\* and whichever member has it.
ListsAll ==
    Except({"member_failed"})
    \/ \A r \in DOMAIN reqs : (Kind(r) \in {"list", "archive"} /\ Done(r)) => {x.path : x \in reqs[r].got.all} \subseteq reqs[r].got.listed

\* Records fit together: repositories with their files, directory entries and
\* stores, and listings with all of them, across deletion and re-creation.
RecordsFit == NewIsEmpty /\ StoreInUse /\ TreeMatches /\ ListsAll

\* A login is decided by the record's password, unless the instance has an older
\* record: what was verified before does not outlive a change of password.
LoginsAreCurrent ==
    [][\A r \in DOMAIN reqs :
         (Kind(r) = "login" /\ Resolved(r) /\ Who(r).user = kv.users[As(r)] /\ At(r, "done")')
         => (Done(r)' <=> kv.users[As(r)] # None /\ kv.users[As(r)].pw = To(r))]_vars

\* Tokens that were revoked are not valid by the records again: a revocation of
\* all ends the first global secret, one of a user's his first secret.
RevokeStands ==
    \A r \in DOMAIN reqs :
      /\ (Kind(r) = "revoke_all" /\ Done(r)) => Except({"unrefreshed"}) \/ "init" \notin {kv.jwt.cur, kv.jwt.prev}
      /\ (Kind(r) \in {"revoke", "change_password"} /\ Done(r) /\ kv.users[On(r)] # None)
         => Except({"user_race", "restored"}) \/ kv.users[On(r)].secret # "init"

\* A token survives a rotation of the global secret: what a login was signed with
\* is the current or the previous secret, unless all were revoked or two rotated.
RotationKeeps ==
    \/ Except({"unrefreshed"})
    \/ \E r \in DOMAIN reqs : Kind(r) = "revoke_all" /\ ~At(r, "start")
    \/ Cardinality({r \in DOMAIN reqs : Kind(r) = "rotate" /\ ~At(r, "start")}) > 1
    \/ \A r \in DOMAIN reqs : (Kind(r) = "login" /\ Done(r)) => reqs[r].got.glob \in {kv.jwt.cur, kv.jwt.prev}

\* What was put into a field of the settings stays until the field is put again,
\* unless an instance merged into settings older than the records.
SettingsKept ==
    \/ Except({"unmerged", "restored"})
    \/ \A r \in DOMAIN reqs :
         (Kind(r) = "put_settings" /\ Done(r)) => kv.settings[On(r)] # "init"

\* What was decided about users, tokens and settings stands, whichever instances
\* the requests came to.
DecisionsKept == LastAdmin /\ RevokeStands /\ RotationKeeps /\ SettingsKept

\* Every instance comes to accept exactly what the records accept: caches expire,
\* secrets and settings are read again (run_settings_refresh).
EventuallyCurrent ==
    <>[]\A i \in Insts :
          /\ "ttl" \in parts => /\ \A u \in DOMAIN mem[i].users : mem[i].users[u] = kv.users[u]
                                /\ \A x \in DOMAIN mem[i].roles : mem[i].roles[x] = kv.role
          /\ "refresh" \in parts => mem[i].jwt = kv.jwt /\ mem[i].settings = kv.settings

\* A repository that is being deleted disappears, even if draining is interrupted.
DeletedGone == "drain" \in parts => <>[]\A n \in Repos : kv.repos[n] # None => ~kv.repos[n].deleting

\* The instances come to agree, and what was to be deleted is gone.
Settles == EventuallyCurrent /\ DeletedGone

\* Copies come to follow the records: the model of an instance has the names that
\* the records have, whichever instance wrote them and whatever the ring dropped;
\* a browser that missed nothing when it connected shows them, even if it fell
\* behind and was told to start over; and the Docker listeners are those of the
\* repositories that there are.
Shown(rows) == Names(rows) \cap Scanned = {t \in Scanned : Version(t) # None}
Unfollowed == Except({"reversed", "unsynced", "overwritten"})
CopiesFollow ==
    <>[](/\ {"live", "scan"} \subseteq parts => Unfollowed \/ Shown(mat[Home].model)
         /\ {"live", "scan", "client"} \subseteq parts => Unfollowed \/ ~client.sure \/ (client.pc = "on" /\ Shown(client.view))
         /\ "ports" \in parts => \A i \in Insts : ports[i] = Listing(Repos))

\* The handlers keep the promise of a repository's life.
Lifecycle ==
    INSTANCE RepoLifecycle WITH Paths <- Paths \cup OddPaths,
      life <- [n \in Repos |-> IF kv.repos[n] = None THEN "absent" ELSE IF kv.repos[n].deleting THEN "deleting" ELSE "live"],
      files <- [n \in Repos |-> {x.path : x \in {y \in kv.arts \cup kv.tree : y.repo = n}}],
      raced <- Except({"overwritten", "late", "restored", "undrained"})

\* Repositories are made, filled, deleted and drained as RepoLifecycle says.
LifecycleKept == Lifecycle!Spec
=============================================================================
