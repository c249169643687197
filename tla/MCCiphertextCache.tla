--------------------------- MODULE MCCiphertextCache ---------------------------
(* Small instances of CiphertextCache for TLC. *)
EXTENDS CiphertextCache, TLC

CONSTANTS n1, n2, i1, i2, r1, r2

TwoNodes == {n1, n2}
OneId == {i1}
OneReq == {r1}

Symmetry == Permutations(Nodes) \cup Permutations(Ids) \cup Permutations(Reqs)
================================================================================
