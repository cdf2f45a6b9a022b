----------------------------- MODULE MCHeapPage -----------------------------
(* A page small enough to be filled in every way, and large enough to use
   both bytes of the 16-bit fields. *)
EXTENDS HeapPage

Record(length, byte) == [j \in 1 .. length |-> byte]

\* 286 fills an empty page, 252 and 30 together fill it, 254 and 288 are
\* refused although the record without its slot would fit.
MCRecords == {Record(n, n % 256) : n \in {30, 60, 252, 254, 286, 288}}
             \cup {Record(30, 255)}
=============================================================================
