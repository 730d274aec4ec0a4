----------------------------- MODULE MCGcLease ------------------------------
(* Model-checking instances of GcLease.                                    *)
EXTENDS GcLease

CONSTANTS g1, g2, k1, i1, i2, GcTtl, CheckTtl

\* g2 runs on i2, the other jobs on i1.
OnInstances == [j \in Jobs |-> IF j = g2 THEN i2 ELSE i1]

Terms == [j \in Jobs |-> IF j \in Gcs THEN GcTtl ELSE CheckTtl]
=============================================================================
