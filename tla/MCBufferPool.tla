---------------------------- MODULE MCBufferPool ----------------------------
(***************************************************************************)
(* BufferPool for TLC.  Pages other than those of Edited are created and   *)
(* read but never changed: they are there to take the slots of the others. *)
(* The bytes of a page that is not in Varied are always Blank.             *)
(***************************************************************************)
EXTENDS BufferPool

CONSTANTS Edited, Varied, Blank

Bounded ==
  /\ editing' \subseteq Edited
  /\ \A k \in Keys \ Varied : {page'[k], work'[k]} \subseteq {Blank, NoPage}

MCNext == Next /\ Bounded

MCSpec == Init /\ [][MCNext]_vars /\ Checkpoints
=============================================================================
