--------------------------- MODULE IntegrityCheck ---------------------------
(***************************************************************************)
(* The integrity check (server/worker/check.rs): lists what is in the blob *)
(* stores, and by that list removes the blob records and the artifacts     *)
(* whose blob is lost, the Docker tags without manifest, and moves files   *)
(* to the paths where they should be, while uploads go on.                 *)
(*                                                                         *)
(* A check "dry" only reports; "fix" mends; "verify" reads every blob too. *)
(* Findings are what it mends: they are not kept apart.                    *)
(***************************************************************************)
EXTENDS Server, SequencesExt

CONSTANT HelmRepos

Ck(r) == reqs[r].got
Fixes(r) == To(r) # "dry"
Found(r, field, val) == reqs' = [reqs EXCEPT ![r].got[field] = val]

-----------------------------------------------------------------------------
(* Beginning.                                                              *)

\* Two requests may both find none running.
start_check(r) ==
    /\ \/ /\ Asks(r, "check") /\ require_admin(r)
          /\ IF \E q \in DOMAIN reqs \ {r} : Kind(q) = "check" /\ kv.tasks[q] = "running"
             THEN Reply(r, "conflict") ELSE Goto(r, "chk_create")
          /\ UNCHANGED kv
       \/ /\ At(r, "chk_create")
          /\ kv' = [kv EXCEPT !.tasks[r] = "running"]
          /\ Goto(r, "lease")
    /\ UNCHANGED risk /\ Kept

\* The lease keeps the passes of the collector out, and not the cleanup loops that
\* drain repositories.  Its holder is named after the instance, so that it stands
\* between checks of different ones only.
Held(r) == drain["gc"].pc # "idle" \/ \E q \in Leased \ {r} : Where(q) # Where(r)
try_acquire_lease(r) ==
    /\ At(r, "lease")
    /\ IF Held(r) THEN Reply(r, "failed") /\ kv' = [kv EXCEPT !.tasks[r] = "failed"]
       ELSE Goto(r, "chk_repos") /\ UNCHANGED kv
    /\ UNCHANGED risk /\ Kept

\* The artifacts whose blob is lost: what a check should find.
Lost == {x \in kv.arts : x.id # None /\ ~\E b \in kv.blobs : b.id = x.id}

\* The repositories to check and, later, the stores to list, are fixed first.  If
\* the stores cannot be listed there are none, and all blobs seem to be lost.
check_begin(r) ==
    /\ At(r, "chk_repos")
    /\ Keep(r, "chk_stores",
            [repos |-> list_repos, repo |-> None, listed |-> {}, stores |-> {}, filter |-> {}, work |-> {}, missing |-> {},
             paths |-> {}, dels |-> {}, moves |-> {}, applied |-> FALSE, moved |-> {}, lost |-> {x \in Lost : x.repo \in list_repos}])
    /\ UNCHANGED <<kv, risk>> /\ Kept
list_stores(r) ==
    /\ At(r, "chk_stores")
    /\ LET all == {s \in Stores : kv.stores[s] # None}
       IN \/ /\ Keep(r, "chk_scan", [Ck(r) EXCEPT !.listed = all, !.stores = all])
             /\ UNCHANGED <<risk, faults>>
          \/ /\ faults > 0 /\ faults' = faults - 1
             /\ Keep(r, "chk_scan", Ck(r)) /\ Risk({"unlisted"})
    /\ UNCHANGED <<kv, mem, drain, live, ports, parts>>

-----------------------------------------------------------------------------
(* Blobs.                                                                  *)

\* Mutant: the filter of the last store remains.
bloom_last(target, source) == source
bloom_union(target, source) == target \cup source

\* A store at a time.  One that this instance has not loaded is left out, and so
\* is one whose scan fails; the filter may take a blob for another.
IdsIn(s) == {b.id : b \in {c \in kv.blobs : c.store = s}}
Listed1(r, s, ids) == reqs' = [reqs EXCEPT ![r].got.stores = @ \ {s}, ![r].got.filter = bloom_union(@, ids)]
scan_all_blobs(r) ==
    /\ At(r, "chk_scan")
    /\ \E s \in Ck(r).stores :
         \/ /\ s \in Inst(r).stores
            /\ Listed1(r, s, IdsIn(s))
            /\ UNCHANGED <<risk, faults>>
         \/ /\ s \notin Inst(r).stores
            /\ reqs' = [reqs EXCEPT ![r].got.stores = @ \ {s}]
            /\ Risk(IF IdsIn(s) # {} THEN {"unlisted"} ELSE {}) /\ UNCHANGED faults
         \/ /\ faults > 0 /\ faults' = faults - 1
            /\ s \in Inst(r).stores
            /\ \/ Listed1(r, s, {}) /\ Risk({"unlisted"})
               \/ \E x \in Ck(r).lost : Listed1(r, s, IdsIn(s) \cup {x.id}) /\ Risk({"collision"})
    /\ UNCHANGED <<kv, mem, drain, live, ports, parts>>
scan_ends(r) ==
    /\ At(r, "chk_scan") /\ Ck(r).stores = {}
    /\ Keep(r, "chk_records", [Ck(r) EXCEPT !.stores = Ck(r).listed])
    /\ UNCHANGED <<kv, risk>> /\ Kept

\* Their records, a store at a time, are compared with the filter; when blobs are
\* verified, what the filter has is opened too.  A partition that fails is skipped.
scan_records(r) ==
    /\ At(r, "chk_records") /\ Ck(r).work = {}
    /\ \E s \in Ck(r).stores :
         \/ /\ reqs' = [reqs EXCEPT ![r].got.stores = @ \ {s}, ![r].got.work = {b \in kv.recs : b.store = s}]
            /\ UNCHANGED faults
         \/ /\ faults > 0 /\ faults' = faults - 1
            /\ reqs' = [reqs EXCEPT ![r].got.stores = @ \ {s}]
    /\ UNCHANGED <<kv, risk, mem, drain, live, ports, parts>>
Missing(r, b) ==
    /\ b.store \in Inst(r).stores
    /\ b.id \notin Ck(r).filter \/ (To(r) = "verify" /\ b \notin kv.blobs)
verify_blob(r) ==
    /\ At(r, "chk_records") /\ Ck(r).work # {}
    /\ LET b == CHOOSE b \in Ck(r).work : TRUE
       IN reqs' = [reqs EXCEPT ![r].got.work = @ \ {b}, ![r].got.missing = @ \cup {c \in {b} : Missing(r, c)}]
    /\ UNCHANGED <<kv, risk>> /\ Kept
delete_blob_counted(r) ==
    /\ At(r, "chk_records") /\ Ck(r).work = {} /\ Ck(r).stores = {}
    /\ IF Fixes(r) /\ Ck(r).missing # {}
       THEN LET b == CHOOSE b \in Ck(r).missing : TRUE
            IN kv' = [kv EXCEPT !.recs = @ \ {b}] /\ Found(r, "missing", Ck(r).missing \ {b})
       ELSE Goto(r, "chk_repo") /\ UNCHANGED kv
    /\ UNCHANGED risk /\ Kept

-----------------------------------------------------------------------------
(* Repositories, one after the other.                                      *)

\* The first pass over a repository: its paths, what refers to a blob that is not
\* in the filter, what is at a malformed path.  If it fails it is as if nothing
\* had been there.
\* Mutant: a blob that has a record counts as there.
DanglingByRecord(r, x) == x.id # None /\ x.id \notin Ck(r).filter /\ ~\E b \in kv.recs : b.id = x.id
Dangling(r, x) == x.id # None /\ x.id \notin Ck(r).filter
fold_all_artifacts(r) ==
    /\ At(r, "chk_repo")
    /\ Ck(r).repos # {}
    /\ LET n == CHOOSE m \in Ck(r).repos : TRUE
           all == {x \in kv.arts : x.repo = n}
           next == [Ck(r) EXCEPT !.repos = @ \ {n}, !.repo = n, !.applied = FALSE]
       IN \/ /\ Keep(r, "chk_tags", [next EXCEPT !.paths = {x.path : x \in all}, !.dels = {x.path : x \in {y \in all : Dangling(r, y)}},
                                                 !.moves = {x \in all : x.path \in DOMAIN Normal}])
             /\ UNCHANGED <<risk, faults>>
          \/ /\ faults > 0 /\ faults' = faults - 1
             /\ Keep(r, "chk_tags", [next EXCEPT !.paths = {}, !.dels = {}, !.moves = {}])
             /\ Risk({"unread"})
    /\ UNCHANGED <<kv, mem, drain, live, ports, parts>>

\* The second looks for tags whose manifest the first has not seen.  What is to be
\* done about all this is a list of operations on records: deletions, then for
\* each malformed path a deletion and, if the proper path is free, an insertion.
Moved(x, p, why) == [repo |-> x.repo, in |-> x.in, path |-> p, why |-> why]
Op(op, p, rec, why) == [op |-> op, path |-> p, rec |-> rec, why |-> why]
Each(set, Op1(_)) == LET s == SetToSeq(set) IN [k \in 1 .. Len(s) |-> Op1(s[k])]
\* Two operations for each.
Pairs(set, Op1(_), Op2(_)) ==
    LET s == SetToSeq(set)
    IN [k \in 1 .. 2 * Len(s) |-> IF k % 2 = 1 THEN Op1(s[(k + 1) \div 2]) ELSE Op2(s[k \div 2])]
docker_tags(r) ==
    /\ At(r, "chk_tags")
    /\ LET n == Ck(r).repo
           tags == {x.path : x \in {y \in kv.arts : /\ y.repo = n /\ y.path \in Tags
                                                    /\ ManifestOf[y.path] \notin Ck(r).paths}}
           moves == {x \in Ck(r).moves : x.path \notin Ck(r).dels}
       IN reqs' = [reqs EXCEPT ![r].pc = "chk_fix",
             ![r].got.moved = @ \cup {Moved(x, Normal[x.path], "move") : x \in moves},
             ![r].todo = IF ~Fixes(r) THEN <<>>
                         ELSE Each(Ck(r).dels, LAMBDA p : Op("delete", p, None, "lost")) \o Each(tags, LAMBDA p : Op("delete", p, None, "tag"))
                              \o Pairs(moves, LAMBDA x : Op("delete", x.path, None, "move"), LAMBDA x : Op("look", Normal[x.path], x, "move"))]
    /\ UNCHANGED <<kv, risk>> /\ Kept

\* An operation: the record, then its entry in the tree.  One that fails is
\* passed over, with what depends on it.
Head1(r) == Head(reqs[r].todo)
Pop(r, k) == reqs' = [reqs EXCEPT ![r].todo = SubSeq(@, k + 1, Len(@))]
Then(r, op) == reqs' = [reqs EXCEPT ![r].todo = <<[Head(@) EXCEPT !.op = op]>> \o Tail(@)]
Fixing(r) == reqs[r].pc \in {"chk_fix", "chk_place"} /\ reqs[r].todo # <<>>
Moves(r) == Head1(r).why \in {"move", "chart"}
fix_delete(r) ==
    /\ Fixing(r)
    /\ LET o == Head1(r)
           n == Ck(r).repo
       IN \/ /\ o.op = "delete"
             /\ IF Of(kv.arts, n, o.path) = {} THEN Pop(r, 1) /\ UNCHANGED kv
                ELSE Then(r, "delete_entry") /\ kv' = [kv EXCEPT !.arts = @ \ Of(@, n, o.path)]
          \/ /\ o.op = "delete_entry"
             /\ kv' = [kv EXCEPT !.tree = @ \ Of(@, n, o.path)]
             /\ Pop(r, 1)
    /\ Risk(Overlap(r)) /\ Kept
\* Mutant: takes a path that is free for one that is occupied.
fix_look_swapped(r) ==
    /\ Fixing(r) /\ Head1(r).op = "look"
    /\ IF Of(kv.arts, Ck(r).repo, Head1(r).path) = {} THEN Pop(r, 1) ELSE Then(r, "put")
    /\ Risk(Overlap(r)) /\ UNCHANGED kv /\ Kept
fix_look(r) ==
    /\ Fixing(r) /\ Head1(r).op = "look"
    /\ IF Of(kv.arts, Ck(r).repo, Head1(r).path) # {} THEN Pop(r, 1) ELSE Then(r, "put")
    /\ Risk(Overlap(r)) /\ UNCHANGED kv /\ Kept
fix_put(r) ==
    /\ Fixing(r)
    /\ LET o == Head1(r)
           n == Ck(r).repo
           new == [o.rec EXCEPT !.path = o.path]
       IN \/ /\ o.op = "put" /\ Then(r, "put_entry")
             /\ kv' = [kv EXCEPT !.arts = (@ \ Of(@, n, o.path)) \cup {new}]
          \/ /\ o.op = "put_entry"
             /\ kv' = [kv EXCEPT !.tree = (@ \ Of(@, n, o.path)) \cup {[repo |-> n, path |-> o.path, in |-> new.in]}]
             /\ reqs' = [reqs EXCEPT ![r].todo = Tail(@), ![r].got.applied = TRUE]
    /\ Risk(Overlap(r) \cup IF Meant([repo |-> Ck(r).repo, in |-> Head1(r).rec.in]) THEN {} ELSE {"late"})
    /\ Kept
fix_fails(r) ==
    /\ faults > 0 /\ faults' = faults - 1
    /\ Fixing(r) /\ Head1(r).op \in {"delete", "put"}
    /\ Pop(r, IF Moves(r) /\ (Head1(r).op = "delete") = (Head1(r).why = "move") THEN 2 ELSE 1)
    /\ Risk({"unfixed"} \cup Overlap(r))
    /\ UNCHANGED <<kv, mem, drain, live, ports, parts>>

\* Charts at legacy paths of a Helm repository are written to their paths, over
\* what is there, and deleted; then its index is flagged.
enumerate_legacy_chart_relocations(n) == {x \in kv.arts : x.repo = n /\ x.path \in DOMAIN chart_path}
check_helm_canonicalization(r) ==
    /\ reqs[r].todo = <<>>
    /\ LET n == Ck(r).repo
           plan == enumerate_legacy_chart_relocations(n)
       IN \/ /\ At(r, "chk_fix")
             /\ IF n \in HelmRepos /\ Fixes(r)
                THEN reqs' = [reqs EXCEPT ![r].pc = "chk_place", ![r].got.applied = FALSE,
                       ![r].got.moved = @ \cup {Moved(x, chart_path[x.path], "chart") : x \in plan},
                       ![r].todo = Pairs(plan, LAMBDA x : Op("put", chart_path[x.path], x, "chart"), LAMBDA x : Op("delete", x.path, None, "chart"))]
                ELSE Goto(r, "chk_repo")
             /\ UNCHANGED kv
          \/ /\ At(r, "chk_place")
             /\ kv' = IF Ck(r).applied THEN [kv EXCEPT !.stale = @ \cup {n}] ELSE kv
             /\ Goto(r, "chk_repo")
    /\ UNCHANGED risk /\ Kept

run_check_ends(r) ==
    /\ At(r, "chk_repo") /\ Ck(r).repos = {}
    /\ kv' = [kv EXCEPT !.tasks[r] = "completed"]
    /\ reqs' = [reqs EXCEPT ![r] = Answered(r, "ok", [lost |-> Ck(r).lost, moved |-> Ck(r).moved])]
    /\ UNCHANGED risk /\ Kept

\* Whether it was cancelled is looked at between stores and between repositories.
check_cancelled(r) ==
    /\ faults > 0 /\ faults' = faults - 1
    /\ reqs[r].pc \in {"lease", "chk_scan", "chk_repo"}
    /\ kv' = [kv EXCEPT !.tasks[r] = "cancelled"]
    /\ Reply(r, "cancelled")
    /\ UNCHANGED <<risk, mem, drain, live, ports, parts>>

CheckStep(r) ==
    \/ start_check(r) \/ try_acquire_lease(r) \/ check_begin(r) \/ list_stores(r)
    \/ scan_all_blobs(r) \/ scan_ends(r) \/ scan_records(r) \/ verify_blob(r) \/ delete_blob_counted(r)
    \/ fold_all_artifacts(r) \/ docker_tags(r) \/ fix_delete(r) \/ fix_look(r) \/ fix_put(r)
    \/ check_helm_canonicalization(r) \/ run_check_ends(r)
CheckFaults(r) == fix_fails(r) \/ check_cancelled(r)
=============================================================================
