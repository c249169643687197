----------------------------- MODULE MCObjectStore -----------------------------
(* Small instances of ObjectStore for TLC. *)
EXTENDS ObjectStore, TLC

CONSTANTS o1, o2, o3, o4, r1, r2

ThreeObjects == {o1, o2, o3}
FourObjects == {o1, o2, o3, o4}
TwoReqs == {r1, r2}
FirstReq == {r1}

MovingOps == {"create", "update", "move", "delete", "undelete"}
TrashOps == {"create", "update", "delete", "expunge", "undelete"}
UpdateOps == {"update", "move"}

ObjectSymmetry == Permutations(Existing)
Symmetry == Permutations(Existing) \cup Permutations(Reqs)
================================================================================
