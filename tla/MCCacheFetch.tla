---------------------------- MODULE MCCacheFetch ----------------------------
(* Model-checking instances of CacheFetch.                                 *)
EXTENDS CacheFetch

CONSTANTS g1, g2, h1, i1

OneInstance == [r \in Requests |-> i1]
=============================================================================
