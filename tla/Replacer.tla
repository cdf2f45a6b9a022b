------------------------------ MODULE Replacer ------------------------------
(***************************************************************************)
(* The interface Replacer as the buffer pool uses it: a set of candidates  *)
(* for eviction.  Which candidate PickVictim takes is left open.           *)
(***************************************************************************)
CONSTANTS Keys,      \* page keys
          None,      \* the last call was no PickVictim
          Nil        \* PickVictim returned nil

VARIABLES candidates,  \* pushed, and neither deleted nor picked since
          picked       \* what the last call returned: a key, Nil or None

vars == <<candidates, picked>>

Init == candidates = {} /\ picked = None

Push(k) == candidates' = candidates \cup {k} /\ picked' = None

Delete(k) == candidates' = candidates \ {k} /\ picked' = None

PickVictim ==
  \/ /\ candidates = {}
     /\ picked' = Nil
     /\ UNCHANGED candidates
  \/ \E k \in candidates : picked' = k /\ candidates' = candidates \ {k}

Next == (\E k \in Keys : Push(k) \/ Delete(k)) \/ PickVictim

Spec == Init /\ [][Next]_vars
=============================================================================
