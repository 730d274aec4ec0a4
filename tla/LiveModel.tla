----------------------------- MODULE LiveModel ------------------------------
(***************************************************************************)
(* How the data model that the user interface shows follows the records    *)
(* (server/worker/materializer.rs, server/worker/state_scanner.rs,         *)
(* server/worker/docker_listeners.rs, server/infra/event_bus.rs,           *)
(* server/infra/event_stream.rs, ui/frontend/src/composables).             *)
(*                                                                         *)
(* Each instance keeps a copy of the records, brought up to date by the    *)
(* events of its own handlers and of its scanner, which compares the names *)
(* in the store with those it saw last.  A model is a set of [on, val].    *)
(***************************************************************************)
EXTENDS Server, SequencesExt

Row(t, v) == [on |-> t, val |-> v]
Names(rows) == {x.on : x \in rows}
Listing(class) == {Row(t, Version(t)) : t \in {u \in class : Version(u) # None}}
Scanned == Repos \cup Stores \cup Tasks

-----------------------------------------------------------------------------
(* The materializer.                                                       *)

Without(rows, t) == {x \in rows : x.on # t}
\* Created adds, updated replaces, deleted removes; upsert says of what an
\* update adds what is missing.
Applied(rows, e, upsert) ==
    CASE e.op = "created" -> IF e.on \in Names(rows) THEN rows ELSE rows \cup {Row(e.on, e.val)}
      [] e.op = "updated" -> IF e.on \in Names(rows) \cup upsert THEN Without(rows, e.on) \cup {Row(e.on, e.val)} ELSE rows
      [] e.op = "deleted" -> Without(rows, e.on)
AppliedAll(rows, evs, upsert) == FoldLeft(LAMBDA m, e : Applied(m, e, upsert), rows, evs)

\* A batch is applied to a copy of the model, which is swapped in.
apply_batch(i, evs) == AppliedAll(mat[i].model, evs, Tasks)

\* It subscribes first; then the repositories are listed, and the rest.
run_model_materializer(i) ==
    /\ "live" \in parts /\ i = Home /\ mat[i].pc = "down"
    /\ mat' = [mat EXCEPT ![i].pc = "load"]
    /\ UNCHANGED <<kv, mem, reqs, drain, scan, client, ports, parts, faults, risk>>

build_full_model(i) ==
    /\ \/ /\ mat[i].pc \in {"load", "resync"} /\ mat[i].got = None
          /\ mat' = [mat EXCEPT ![i].got = Listing(Repos)]
       \/ /\ mat[i].pc \in {"load", "resync"} /\ mat[i].got # None
          /\ mat' = [mat EXCEPT ![i].pc = IF @ = "load" THEN "drain" ELSE "run", ![i].got = None,
                                ![i].model = mat[i].got \cup Listing(Things \ Repos)]
    /\ UNCHANGED <<kv, mem, reqs, drain, scan, client, ports, parts, faults, risk>>

\* A listing fails: the first is repeated after a while, the resync is dropped
\* and the model stays as it is.
load_fails(i) ==
    /\ faults > 0 /\ faults' = faults - 1
    /\ mat[i].pc \in {"load", "resync"}
    /\ mat' = [mat EXCEPT ![i].got = None, ![i].pc = IF @ = "load" THEN "load" ELSE "run"]
    /\ Risk(IF mat[i].pc = "resync" THEN {"unsynced"} ELSE {})
    /\ UNCHANGED <<kv, mem, reqs, drain, scan, client, ports, parts>>

\* What came in while it loaded is applied.  Draining ends at an error, so that
\* a lag is seen here and not reported again.
drain_buffered(i) ==
    /\ mat[i].pc = "drain"
    /\ IF mat[i].inbox.lag
       THEN mat' = [mat EXCEPT ![i].pc = "run", ![i].inbox.lag = FALSE]
       ELSE mat' = [mat EXCEPT ![i].pc = "run", ![i].inbox = NoInbox, ![i].model = apply_batch(i, mat[i].inbox.q)]
    /\ Risk(IF mat[i].inbox.lag THEN {"unsynced"} ELSE {})
    /\ UNCHANGED <<kv, mem, reqs, drain, scan, client, ports, parts, faults>>

\* One event more of the batch; a lag drops the batch and loads all anew.
\* Mutant: goes on with what is left after a lag.
recv_goes_on(i) ==
    /\ mat[i].pc = "run"
    /\ mat[i].inbox.q # <<>>
    /\ mat' = [mat EXCEPT ![i].batch = Append(@, Head(mat[i].inbox.q)), ![i].inbox = [q |-> Tail(@.q), lag |-> FALSE]]
    /\ UNCHANGED <<kv, mem, reqs, drain, scan, client, ports, parts, faults, risk>>
recv(i) ==
    /\ mat[i].pc = "run"
    /\ \/ /\ mat[i].inbox.lag
          /\ mat' = [mat EXCEPT ![i].pc = "resync", ![i].inbox.lag = FALSE, ![i].batch = <<>>]
       \/ /\ ~mat[i].inbox.lag /\ mat[i].inbox.q # <<>>
          /\ mat' = [mat EXCEPT ![i].batch = Append(@, Head(mat[i].inbox.q)), ![i].inbox.q = Tail(@)]
    /\ UNCHANGED <<kv, mem, reqs, drain, scan, client, ports, parts, faults, risk>>

\* The batch ends at its deadline or its limit.
coalesced(i) ==
    /\ mat[i].pc = "run" /\ mat[i].batch # <<>>
    /\ mat' = [mat EXCEPT ![i].model = apply_batch(i, mat[i].batch), ![i].batch = <<>>]
    /\ UNCHANGED <<kv, mem, reqs, drain, scan, client, ports, parts, faults, risk>>

-----------------------------------------------------------------------------
(* The state scanner: a listing is compared with what was seen before.      *)

ScanList(i, class) ==
    /\ "scan" \in parts /\ i = Home /\ scan[i].got = None
    /\ LET new == Listing(class)
           old == {x \in scan[i].seen : x.on \in class}
       IN /\ Names(new) # Names(old) \/ (class = Tasks /\ new # old)
          /\ scan' = [scan EXCEPT ![i].got = [class |-> class, rows |-> new]]
    /\ UNCHANGED <<kv, mem, reqs, drain, mat, client, ports, parts, faults, risk>>

scan_repos(i) == ScanList(i, Repos)
scan_stores(i) == ScanList(i, Stores)
scan_tasks(i) == ScanList(i, Tasks)

\* Appearances, then disappearances; of tasks changes too.
Differences(old, new, class) ==
    LET came == SetToSeq({x \in new : x.on \notin Names(old)})
        changed == IF class = Tasks THEN SetToSeq({x \in new \ old : x.on \in Names(old)}) ELSE <<>>
        went == SetToSeq(Names(old) \ Names(new))
    IN [k \in DOMAIN came |-> Event("created", came[k].on, came[k].val)]
       \o [k \in DOMAIN changed |-> Event("updated", changed[k].on, changed[k].val)]
       \o [k \in DOMAIN went |-> Event("deleted", went[k], None)]

ScanEmit(i) ==
    /\ scan[i].got # None
    /\ LET class == scan[i].got.class
           old == {x \in scan[i].seen : x.on \in class}
       IN /\ publish(i, Differences(old, scan[i].got.rows, class))
          /\ scan' = [scan EXCEPT ![i] = [seen |-> (@.seen \ old) \cup @.got.rows, got |-> None]]
    /\ UNCHANGED <<kv, mem, reqs, drain, ports, parts, faults, risk>>

-----------------------------------------------------------------------------
(* The browser.                                                            *)

\* The snapshot is sent before the stream is subscribed to.  What the
\* materializer has not applied by then is in neither.
event_stream ==
    /\ "client" \in parts /\ client.pc = "off"
    /\ LET m == mat[Home]
       IN client' = [pc |-> "gap", view |-> m.model, inbox |-> NoInbox,
                     sure |-> m.pc = "run" /\ m.inbox = NoInbox /\ m.batch = <<>>]
    /\ UNCHANGED <<kv, mem, reqs, drain, mat, scan, ports, parts, faults, risk>>

subscribe ==
    /\ client.pc = "gap"
    /\ client' = [client EXCEPT !.pc = "on"]
    /\ UNCHANGED <<kv, mem, reqs, drain, mat, scan, ports, parts, faults, risk>>

\* An update of what is not shown adds it.
applyEvent(rows, e) == Applied(rows, e, Things)

\* A client that fell behind is told
\* to resync, which empties what it shows, and connects again.
\* Mutant: goes on with what is left after a lag.
dispatch_goes_on ==
    /\ client.pc = "on"
    /\ client.inbox.q # <<>>
    /\ client' = [client EXCEPT !.view = applyEvent(@, Head(client.inbox.q)), !.inbox = [q |-> Tail(@.q), lag |-> FALSE]]
    /\ UNCHANGED <<kv, mem, reqs, drain, mat, scan, ports, parts, faults, risk>>
dispatch ==
    /\ client.pc = "on"
    /\ \/ /\ client.inbox.lag
          /\ client' = [client EXCEPT !.pc = "off", !.view = {}, !.inbox = NoInbox]
       \/ /\ ~client.inbox.lag /\ client.inbox.q # <<>>
          /\ client' = [client EXCEPT !.view = applyEvent(@, Head(client.inbox.q)), !.inbox.q = Tail(@)]
    /\ UNCHANGED <<kv, mem, reqs, drain, mat, scan, ports, parts, faults, risk>>

\* The connection is lost; connect is called again after a delay.
connect ==
    /\ faults > 0 /\ faults' = faults - 1
    /\ client.pc = "on"
    /\ client' = [client EXCEPT !.pc = "off"]
    /\ UNCHANGED <<kv, mem, reqs, drain, mat, scan, ports, parts, risk>>

-----------------------------------------------------------------------------
(* Docker listeners: one for each repository with an address of its own.   *)

\* Listeners that ended are swept, stale ones stopped, missing ones started.
\* Mutant: stale ones are not stopped.
reconcile_starts_only(i) ==
    /\ "ports" \in parts
    /\ ports' = [ports EXCEPT ![i] = @ \cup Listing(Repos)]
    /\ UNCHANGED <<kv, mem, reqs, drain, live, parts, faults, risk>>
reconcile(i) ==
    /\ "ports" \in parts
    /\ ports' = [ports EXCEPT ![i] = Listing(Repos)]
    /\ UNCHANGED <<kv, mem, reqs, drain, live, parts, faults, risk>>

\* An address cannot be bound or the listener fails.
spawn_listener(i) ==
    /\ faults > 0 /\ faults' = faults - 1
    /\ \E x \in ports[i] : ports' = [ports EXCEPT ![i] = @ \ {x}]
    /\ UNCHANGED <<kv, mem, reqs, drain, live, parts, risk>>

Materializes(i) == run_model_materializer(i) \/ build_full_model(i) \/ drain_buffered(i) \/ recv(i) \/ coalesced(i)
Scans(i) == scan_repos(i) \/ scan_stores(i) \/ scan_tasks(i) \/ ScanEmit(i)
Browses == event_stream \/ subscribe \/ dispatch
LiveFaults == connect \/ \E i \in Insts : load_fails(i) \/ spawn_listener(i)
=============================================================================
