---------------------------- MODULE MCTableHeap ----------------------------
(* Instances of TableHeap for TLC. *)
EXTENDS TableHeap, TLC

ObjectAndRowSymmetry == Permutations(Objects) \cup Permutations(Rows)
=============================================================================
