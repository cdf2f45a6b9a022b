-------------------------- MODULE MCDiskHashIndex --------------------------
(* Four keys; k1 and k5 collide in every mask up to 3, k1 and k1b always. *)
EXTENDS DiskHashIndex, Bitwise

CONSTANTS k1, k1b, k2, k5
MCHash == (k1 :> 1) @@ (k1b :> 1) @@ (k2 :> 2) @@ (k5 :> 5)
\* VARCHAR keys differ in length.
MCEntrySize == (k1 :> 1) @@ (k1b :> 1) @@ (k2 :> 2) @@ (k5 :> 2)

\* `hash & mask' is hash % (mask + 1) for the masks the index uses.
ASSUME MaskIsModulo ==
  \A h \in 0 .. 70 : \A m \in {0, 1, 3, 7, 15, 31} : (h & m) = h % (m + 1)
=============================================================================
