-------------------------- MODULE MCDiskBTreeIndex --------------------------
(* Integer keys: one row for most values, or many rows for one value. *)
EXTENDS DiskBTreeIndex

\* Keys on both sides of the zero that a page of zeros holds.
AroundZero == {-2, -1, 1, 2, 3}
InnerKeys == {-1, 2}

FixedSize == [k \in Keys |-> 2]
OneTwice == [k \in Keys |-> IF k = 2 THEN 2 ELSE 1]
ManyRows == [k \in Keys |-> IF k = 2 THEN 6 ELSE 1]
=============================================================================
