---------------------------- MODULE RepoLifecycle ---------------------------
(***************************************************************************)
(* What the users of the server are promised of a repository: it is made   *)
(* empty, holds files as long as it is live, is deleted once, and its name *)
(* is free again when nothing of it is left.  A race that the handlers do  *)
(* not exclude ends the promise.                                           *)
(***************************************************************************)
CONSTANTS Repos, Paths

VARIABLES life, files, raced
vars == <<life, files, raced>>

Init ==
    /\ life \in [Repos -> {"absent", "live"}]
    /\ files \in [Repos -> SUBSET Paths]
    /\ \A n \in Repos : life[n] = "absent" => files[n] = {}
    /\ raced = FALSE

\* A new repository is empty.
Create(n) ==
    /\ life[n] = "absent" /\ life' = [life EXCEPT ![n] = "live"]
    /\ UNCHANGED files

\* Files come and go while it is live,
Change(n) ==
    /\ life[n] = "live" /\ UNCHANGED life
    /\ \E fs \in SUBSET Paths : files' = [files EXCEPT ![n] = fs]

\* and only go after it was deleted.
Delete(n) ==
    /\ life[n] = "live" /\ life' = [life EXCEPT ![n] = "deleting"]
    /\ UNCHANGED files
Drain(n) ==
    /\ life[n] = "deleting" /\ UNCHANGED life
    /\ \E fs \in SUBSET files[n] : files' = [files EXCEPT ![n] = fs]
Vanish(n) ==
    /\ life[n] = "deleting" /\ files[n] = {}
    /\ life' = [life EXCEPT ![n] = "absent"]
    /\ UNCHANGED files

Race ==
    /\ raced' = TRUE
    /\ life' \in [Repos -> {"absent", "live", "deleting"}]
    /\ files' \in [Repos -> SUBSET Paths]

Next ==
    \/ UNCHANGED raced /\ \E n \in Repos : Create(n) \/ Change(n) \/ Delete(n) \/ Drain(n) \/ Vanish(n)
    \/ Race

Spec == Init /\ [][Next]_vars
=============================================================================
