------------------------------ MODULE MCBlobGc ------------------------------
(* Model-checking instances of BlobGc.                                     *)
EXTENDS BlobGc, TLC

CONSTANTS b1, b2, k1, p1, c1, c2, i1, s1, s2

OneStore  == [x \in Blobs \cup Keys \cup Paths |-> s1]

Sym == Permutations(Blobs) \cup Permutations(Clients)
=============================================================================
