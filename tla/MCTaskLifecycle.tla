-------------------------- MODULE MCTaskLifecycle ---------------------------
(* Model-checking instances of TaskLifecycle.                              *)
EXTENDS TaskLifecycle

CONSTANTS d1, p1

\* The task is deleted while it runs, or reports what it does.
MCWorkloads == {[deletes |-> {d1}, log |-> 0, progress |-> 0],
                [deletes |-> {}, log |-> 1, progress |-> 2]}
=============================================================================
