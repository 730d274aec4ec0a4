---------------------------- MODULE Repositories ----------------------------
(***************************************************************************)
(* Repositories and stores: how they are made, changed, copied, deleted and *)
(* drained, saved and restored (server/api/repositories.rs,                *)
(* server/api/stores.rs, server/api/backup.rs, core/src/service/repo.rs).  *)
(*                                                                         *)
(* A repository record is [store, deleting, made, by]: made is the request *)
(* that created the repository, by the one that wrote the record last.     *)
(***************************************************************************)
EXTENDS Server, SequencesExt


\* A record is written over one that its writer did not see.  Over one that is
\* being deleted it brings back a repository whose artifacts are partly gone,
\* while the drain that may be under way goes on.
Overwritten(n) == IF kv.repos[n] # None THEN {"overwritten"} ELSE {}

\* A repository is made under a name that a worker has listed as that of a deleted
\* one and not done with: the drain goes on with the files and record of the new.
Undrained(n) == IF \E d \in Drainers : n \in drain[d].todo \cup {drain[d].repo} THEN {"undrained"} ELSE {}

\* A repository is written after the store's users were counted.
Uncounted(s) == IF \E q \in Busy : Kind(q) = "delete_store" /\ On(q) = s /\ reqs[q].pc \in {"blobs", "remove"} THEN {"store_race"} ELSE {}

-----------------------------------------------------------------------------
(* Repositories.                                                           *)

\* The store must exist and the name be free; being deleted counts as free.
create_repo(r) ==
    /\ Asks(r, "create_repo") /\ require_admin(r)
    /\ IF kv.stores[To(r)] = None THEN Reply(r, "no_store") ELSE Goto(r, "checked")
    /\ UNCHANGED <<kv, risk>> /\ Kept
create_repo_free(r) ==
    /\ At(r, "checked") /\ Kind(r) = "create_repo"
    /\ IF get_repo(On(r)) # None THEN Reply(r, "conflict") ELSE Goto(r, "put")
    /\ UNCHANGED <<kv, risk>> /\ Kept
create_repo_put(r) ==
    /\ At(r, "put") /\ Kind(r) = "create_repo"
    /\ kv' = [kv EXCEPT !.repos[On(r)] = [store |-> To(r), deleting |-> FALSE, made |-> r, by |-> r]]
    /\ Risk(Overwritten(On(r)) \cup Undrained(On(r)) \cup Uncounted(To(r)))
    /\ Written(r, "created", On(r))
    /\ Kept

\* The record is read, changed and written back whatever it is by then.
update_repo(r) ==
    /\ Asks(r, "update_repo") /\ require_admin(r)
    /\ IF get_repo(On(r)) = None THEN Reply(r, "not_found") ELSE Keep(r, "put", get_repo(On(r)))
    /\ UNCHANGED <<kv, risk>> /\ Kept
update_repo_put(r) ==
    /\ At(r, "put") /\ Kind(r) = "update_repo"
    /\ kv' = [kv EXCEPT !.repos[On(r)] = [reqs[r].got EXCEPT !.by = r]]
    /\ Risk(IF kv.repos[On(r)] # reqs[r].got THEN {"overwritten"} ELSE {})
    /\ Written(r, "updated", On(r))
    /\ Kept

\* The mark is written only if the record is the one that was read; otherwise
\* the client is told that there is no such repository.
delete_repo(r) ==
    /\ Asks(r, "delete_repo") /\ require_admin(r)
    /\ IF kv.repos[On(r)] = None THEN Reply(r, "not_found")
       ELSE IF kv.repos[On(r)].deleting THEN Written(r, "deleted", On(r))
       ELSE Keep(r, "mark", kv.repos[On(r)])
    /\ UNCHANGED <<kv, risk>> /\ Kept
delete_repo_mark(r) ==
    /\ At(r, "mark")
    /\ IF kv.repos[On(r)] = reqs[r].got
       THEN kv' = [kv EXCEPT !.repos[On(r)].deleting = TRUE] /\ Written(r, "deleted", On(r))
       ELSE UNCHANGED kv /\ Reply(r, "not_found")
    /\ UNCHANGED risk /\ Kept

-----------------------------------------------------------------------------
(* Copies.                                                                 *)

\* The checks, and the task that copies; two requests may both find none running.
clone_repo(r) ==
    /\ Asks(r, "clone_repo") /\ require_admin(r)
    /\ IF get_repo(On(r)) = None THEN Reply(r, "not_found") /\ UNCHANGED kv
       ELSE IF get_repo(To(r)) # None THEN Reply(r, "conflict") /\ UNCHANGED kv
       ELSE Keep(r, "reserve", get_repo(On(r))) /\ kv' = [kv EXCEPT !.tasks[r] = "running"]
    /\ UNCHANGED risk /\ Kept

\* The new name is taken with put-if-absent: what is being deleted is in the way.
\* The copy is not announced: scanners find it.
\* Mutant: written whatever is there.
typed_put(r) == TRUE
typed_put_if_absent(r) == kv.repos[To(r)] = None
clone_reserve(r) ==
    /\ At(r, "reserve")
    /\ IF typed_put_if_absent(r)
       THEN /\ kv' = [kv EXCEPT !.repos[To(r)] = [reqs[r].got EXCEPT !.made = r, !.by = r]]
            /\ Keep(r, "copy", Paths) /\ Risk(Undrained(To(r)) \cup Uncounted(reqs[r].got.store))
       ELSE kv' = [kv EXCEPT !.tasks[r] = "failed"] /\ Reply(r, "conflict") /\ UNCHANGED risk
    /\ Kept

\* A page of artifact records, then of directory entries, is read and written
\* under the new name, over what is there and whether or not the copy or its
\* source was deleted in the meantime.
Paged(set, n, m, p, r) ==
    IF Of(set, n, p) = {} THEN set
    ELSE (set \ Of(set, m, p)) \cup {[x EXCEPT !.repo = m, !.in = r] : x \in Of(set, n, p)}
Late(r) ==
    IF Shows(kv.repos[To(r)]) /\ kv.repos[To(r)].made = r /\ Shows(kv.repos[On(r)]) THEN {} ELSE {"late"}
copy_partition(r) ==
    /\ reqs[r].pc \in {"copy", "copy_tree"}
    /\ \E p \in reqs[r].got :
         /\ kv' = IF At(r, "copy") THEN [kv EXCEPT !.arts = Paged(@, On(r), To(r), p, r)]
                  ELSE [kv EXCEPT !.tree = Paged(@, On(r), To(r), p, r)]
         /\ Keep(r, reqs[r].pc, reqs[r].got \ {p})
    /\ Risk(Late(r) \cup Overlap(r) \cup During)
    /\ Kept
clone_next(r) ==
    /\ reqs[r].pc \in {"copy", "copy_tree"} /\ reqs[r].got = {}
    /\ IF At(r, "copy") THEN Keep(r, "copy_tree", Paths) /\ UNCHANGED kv
       ELSE Reply(r, "ok") /\ kv' = [kv EXCEPT !.tasks[r] = "completed"]
    /\ UNCHANGED risk /\ Kept

-----------------------------------------------------------------------------
(* The drain of what is deleted: every instance looks for it now and then,  *)
(* without a lease, and so does each pass of the collector, which has it.    *)

\* What is being deleted is listed, then drained, one after the other.
Drain(n, pc, todo) == [repo |-> n, pc |-> pc, todo |-> todo]
NextOf(d, todo) ==
    \/ todo = {} /\ drain' = [drain EXCEPT ![d] = NoDrain]
    \/ \E n \in todo : drain' = [drain EXCEPT ![d] = Drain(n, "arts", todo \ {n})]
MayDrain(d) ==
    /\ drain[d].pc = "idle"
    /\ IF d = "gc" THEN "gc" \in parts /\ Leased = {} ELSE "drain" \in parts
\* Mutant: looks for deleted repositories among those that are shown.
drain_lists_shown(d) ==
    /\ MayDrain(d)
    /\ \E n \in list_repos : kv.repos[n].deleting /\ NextOf(d, {n})
    /\ UNCHANGED <<kv, mem, reqs, live, ports, parts, faults, risk>>
drain_begins(d) ==
    /\ MayDrain(d)
    /\ LET all == {n \in Repos : kv.repos[n] # None /\ kv.repos[n].deleting}
       IN all # {} /\ NextOf(d, all)
    /\ UNCHANGED <<kv, mem, reqs, live, ports, parts, faults, risk>>

\* Artifacts, directory entries, then the record, whatever it says by then.
Outside(set, n) == {x \in set : x.repo # n}
Drops(d, pc, next) == drain[d].pc = pc /\ drain' = [drain EXCEPT ![d].pc = next]
drain_arts(d) == kv' = [kv EXCEPT !.arts = Outside(@, drain[d].repo)]
drain_tree(d) == kv' = [kv EXCEPT !.tree = Outside(@, drain[d].repo)]
drain_config(d) == kv' = [kv EXCEPT !.repos[drain[d].repo] = None]
\* Mutant: the record goes before the directory entries.
drain_config_first(d) ==
    /\ \/ Drops(d, "arts", "config") /\ drain_arts(d)
       \/ Drops(d, "config", "tree") /\ drain_config(d)
       \/ drain[d].pc = "tree" /\ drain_tree(d) /\ NextOf(d, drain[d].todo)
    /\ UNCHANGED <<mem, reqs, live, ports, parts, faults, risk>>
\* Mutant: the directory entries are forgotten.
drain_skips_tree(d) ==
    /\ \/ Drops(d, "arts", "config") /\ drain_arts(d)
       \/ drain[d].pc = "config" /\ drain_config(d) /\ NextOf(d, drain[d].todo)
    /\ UNCHANGED <<mem, reqs, live, ports, parts, faults, risk>>
drain_deleting_repo(d) ==
    /\ \/ Drops(d, "arts", "tree") /\ drain_arts(d)
       \/ Drops(d, "tree", "config") /\ drain_tree(d)
       \/ drain[d].pc = "config" /\ drain_config(d) /\ NextOf(d, drain[d].todo)
    /\ UNCHANGED <<mem, reqs, live, ports, parts, faults, risk>>

\* A call fails, and the next repository has its turn, or the instance stops;
\* what is left is listed again by another.
drain_stops(d) ==
    /\ faults > 0 /\ faults' = faults - 1
    /\ drain[d].pc # "idle"
    /\ NextOf(d, drain[d].todo) \/ NextOf(d, {})
    /\ UNCHANGED <<kv, mem, reqs, live, ports, parts, risk>>

-----------------------------------------------------------------------------
(* Stores.                                                                 *)

Loaded(r, s) == [mem EXCEPT ![Where(r)].stores = @ \cup {s}]

\* The name is looked up before and after the new store is tried out.
create_store(r) ==
    /\ \/ Asks(r, "create_store") /\ require_admin(r)
       \/ At(r, "tried")
    /\ IF kv.stores[On(r)] # None THEN Reply(r, "conflict")
       ELSE Goto(r, IF At(r, "tried") THEN "put" ELSE "tried")
    /\ UNCHANGED <<kv, risk>> /\ Kept
create_store_put(r) ==
    /\ At(r, "put") /\ Kind(r) = "create_store"
    /\ kv' = [kv EXCEPT !.stores[On(r)] = r]
    /\ mem' = Loaded(r, On(r))
    /\ Written(r, "created", On(r))
    /\ UNCHANGED risk /\ Aside

update_store(r) ==
    /\ Asks(r, "update_store") /\ require_admin(r)
    /\ IF kv.stores[On(r)] = None THEN Reply(r, "not_found") ELSE Goto(r, "put")
    /\ UNCHANGED <<kv, risk>> /\ Kept
update_store_put(r) ==
    /\ At(r, "put") /\ Kind(r) = "update_store"
    /\ kv' = [kv EXCEPT !.stores[On(r)] = r]
    /\ mem' = Loaded(r, On(r))
    /\ Written(r, "updated", On(r))
    /\ UNCHANGED risk /\ Aside

\* Requests that have looked at a store, or a record that names it, and are
\* about to write a repository that uses it.
Using(s) ==
    {q \in Busy :
       \/ Kind(q) = "create_repo" /\ reqs[q].pc \in {"checked", "put"} /\ To(q) = s
       \/ reqs[q].pc \in {"put", "reserve"} /\ Kind(q) \in {"update_repo", "clone_repo"} /\ reqs[q].got.store = s
       \/ Kind(q) = "post_restore"}

\* No repository may use it, none that is shown; nor may it have blobs.
\* Mutant: only those that have files count.
UsedByFiles(s) == {n \in list_repos : kv.repos[n].store = s /\ \E x \in kv.arts : x.repo = n}
UsedBy(s) == {n \in list_repos : kv.repos[n].store = s}
delete_store(r) ==
    /\ \/ /\ Asks(r, "delete_store") /\ require_admin(r)
          /\ IF kv.stores[On(r)] = None THEN Reply(r, "not_found") ELSE Goto(r, "users")
       \/ /\ At(r, "users")
          /\ IF UsedBy(On(r)) # {} THEN Reply(r, "conflict") ELSE Goto(r, "blobs")
       \/ /\ At(r, "blobs")
          /\ IF \E b \in kv.blobs : b.store = On(r) THEN Reply(r, "conflict") ELSE Goto(r, "remove")
    /\ UNCHANGED <<kv, risk>> /\ Kept
delete_store_remove(r) ==
    /\ At(r, "remove")
    /\ kv' = [kv EXCEPT !.stores[On(r)] = None]
    /\ mem' = [mem EXCEPT ![Where(r)].stores = @ \ {On(r)}]
    /\ Written(r, "deleted", On(r))
    /\ Risk(IF Using(On(r)) # {} THEN {"store_race"} ELSE {})
    /\ Aside

\* A store is checked by the instance that is asked, if it has loaded it.
check_store(r) ==
    /\ Asks(r, "check_store") /\ require_admin(r)
    /\ Reply(r, IF kv.stores[On(r)] = None THEN "not_found"
                ELSE IF On(r) \in mem[Where(r)].stores THEN "ok" ELSE "not_loaded")
    /\ UNCHANGED <<kv, risk>> /\ Kept

-----------------------------------------------------------------------------
(* Backups.                                                                *)

\* Each kind of record is listed by itself, in any order, what is being deleted
\* included.
Classes == {"stores", "role", "users", "repos", "settings"}
get_backup(r) ==
    /\ \/ Asks(r, "get_backup") /\ require_admin(r) /\ Keep(r, "list", Empty)
       \/ /\ At(r, "list")
          /\ \E k \in Classes \ DOMAIN reqs[r].got : Keep(r, "list", Put(reqs[r].got, k, kv[k]))
       \/ /\ At(r, "list") /\ DOMAIN reqs[r].got = Classes
          /\ reqs' = [reqs EXCEPT ![r].pc = "done", ![r].answer = "ok"]
    /\ UNCHANGED <<kv, risk>> /\ Kept

\* Stores, roles, users, repositories: each record is written over what is there
\* and announced as new.
Items(doc, k) ==
    LET s == SetToSeq({t \in DOMAIN doc[k] : doc[k][t] # None}) IN [j \in DOMAIN s |-> [class |-> k, on |-> s[j]]]
post_restore(r) ==
    /\ Asks(r, "post_restore") /\ require_admin(r) /\ At(To(r), "done")
    /\ LET doc == reqs[To(r)].got
       IN IF ~Done(To(r)) THEN Reply(r, "invalid")
          ELSE reqs' = [reqs EXCEPT ![r].pc = "restore", ![r].got = doc,
                     ![r].todo = Items(doc, "stores") \o <<[class |-> "role", on |-> Role]>> \o Items(doc, "users") \o Items(doc, "repos")]
    /\ UNCHANGED <<kv, risk>> /\ Kept
restore_put(r) ==
    /\ At(r, "restore") /\ reqs[r].todo # <<>>
    /\ LET x == Head(reqs[r].todo)
           doc == reqs[r].got
       IN \/ /\ x.class = "role"
             /\ kv' = IF doc.role = None THEN kv ELSE [kv EXCEPT !.role = doc.role]
             /\ reqs' = [reqs EXCEPT ![r].todo = Tail(@)]
          \/ /\ x.class \in {"stores", "users", "repos"}
             /\ kv' = [kv EXCEPT ![x.class][x.on] = doc[x.class][x.on]]
             /\ reqs' = [reqs EXCEPT ![r].pc = "announce", ![r].todo = Tail(@),
                  ![r].ev = <<Event("created", x.on, IF x.class = "stores" THEN doc.stores[x.on] ELSE doc[x.class][x.on].by)>>]
    /\ Risk({"restored"})
    /\ Kept

\* Settings and caches come last.
restore_settings(r) ==
    /\ At(r, "restore") /\ reqs[r].todo = <<>>
    /\ kv' = [kv EXCEPT !.settings = reqs[r].got.settings]
    /\ Goto(r, "restored")
    /\ Risk({"restored"}) /\ Kept
invalidate_all(m) == [m EXCEPT !.users = Empty, !.roles = Empty, !.verified = Empty]
restore_end(r) ==
    /\ At(r, "restored")
    /\ mem' = [mem EXCEPT ![Where(r)] = [invalidate_all(@) EXCEPT !.settings = reqs[r].got.settings]]
    /\ Reply(r, "ok")
    /\ UNCHANGED <<kv, risk>> /\ Aside

RepoStep(r) ==
    \/ create_repo(r) \/ create_repo_free(r) \/ create_repo_put(r) \/ update_repo(r) \/ update_repo_put(r)
    \/ delete_repo(r) \/ delete_repo_mark(r)
    \/ clone_repo(r) \/ clone_reserve(r) \/ copy_partition(r) \/ clone_next(r)
    \/ create_store(r) \/ create_store_put(r) \/ update_store(r) \/ update_store_put(r)
    \/ delete_store(r) \/ delete_store_remove(r) \/ check_store(r)
    \/ get_backup(r) \/ post_restore(r) \/ restore_put(r) \/ restore_settings(r) \/ restore_end(r)
Drains(d) == drain_begins(d) \/ drain_deleting_repo(d)
=============================================================================
