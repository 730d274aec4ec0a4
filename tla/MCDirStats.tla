----------------------------- MODULE MCDirStats -----------------------------
(* Model-checking instances of DirStats: a root, a directory in it and a   *)
(* directory in that.                                                      *)
EXTENDS DirStats

CONSTANTS dirRoot, dirA, dirB, p1, p2, p3, i1, i2, c1, c2

MCParent == [d \in {dirA, dirB} |-> IF d = dirA THEN dirRoot ELSE dirA]
MCAbove  == [d \in {dirRoot, dirA, dirB} |->
               {dirRoot, d} \cup IF d = dirB THEN {dirA} ELSE {}]
MCDirOf  == [p \in {p1, p2, p3} |-> IF p = p1 THEN dirB ELSE dirA]

\* Two instances; dirA always has an artifact, dirB comes and goes.
Apart == [on     |-> [c \in {c1, c2} |-> IF c = c1 THEN i1 ELSE i2],
          paths  |-> [c \in {c1, c2} |-> IF c = c1 THEN {p1} ELSE {p2}],
          keep   |-> {p3}, sizes |-> {1, 2},
          rebuild |-> FALSE, stops |-> {}, ops |-> 2, faults |-> 1]

\* Both clients change the same artifacts through one instance, while the
\* rebuild runs, calls fail and the instance stops.
Shared == [on     |-> [c \in {c1, c2} |-> i1],
           paths  |-> [c \in {c1, c2} |-> {p2, p3}],
           keep   |-> {}, sizes |-> {1},
           rebuild |-> TRUE, stops |-> {i1}, ops |-> 2, faults |-> 1]

MCWorkloads == {Apart, Shared}
=============================================================================
