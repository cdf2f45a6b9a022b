---------------------------- MODULE ClockReplacer ----------------------------
(***************************************************************************)
(* ClockReplacer: a ring of slots, a hand and one reference bit per slot.  *)
(* Every method runs under the replacer's mutex.  Positions are 0-based as *)
(* in the code.  Push of a pinned slot returns at once and is not          *)
(* modelled: the pool never asks for it.                                   *)
(***************************************************************************)
EXTENDS Integers, Sequences, FiniteSets, SequencesExt

CONSTANTS Keys, None, Nil

VARIABLES ring,      \* keys of the slots, in ring order
          head,      \* position of the hand
          inRing,    \* keys of the map inRing
          ref,       \* keys of the map ref
          picked,    \* what the last call returned: a key, Nil or None
          survived   \* history: picks that passed k since its last Push

vars == <<ring, head, inRing, ref, picked, survived>>

At(i) == ring[i + 1]

Init ==
  /\ ring = <<>>
  /\ head = 0
  /\ inRing = {}
  /\ ref = {}
  /\ picked = None
  /\ survived = [k \in Keys |-> 0]

PushAlwaysAppends(k) ==
  /\ ring' = Append(ring, k)
  /\ inRing' = inRing \cup {k}
  /\ ref' = ref \cup {k}
  /\ picked' = None
  /\ survived' = [survived EXCEPT ![k] = 0]
  /\ UNCHANGED head
Push(k) ==
  /\ ring' = IF k \in inRing THEN ring ELSE Append(ring, k)
  /\ inRing' = inRing \cup {k}
  /\ ref' = ref \cup {k}
  /\ picked' = None
  /\ survived' = [survived EXCEPT ![k] = 0]
  /\ UNCHANGED head

\* The hand moves back when a slot before it leaves the ring.
Delete(k) ==
  /\ IF k \in inRing
     THEN LET i == CHOOSE i \in 0 .. Len(ring) - 1 : At(i) = k
          IN  /\ ring' = RemoveAt(ring, i + 1)
              /\ head' = IF ring' = <<>> THEN 0
                         ELSE IF i < head THEN head - 1
                         ELSE IF head >= Len(ring') THEN 0 ELSE head
     ELSE UNCHANGED <<ring, head>>
  /\ inRing' = inRing \ {k}
  /\ ref' = ref \ {k}
  /\ picked' = None
  /\ survived' = [survived EXCEPT ![k] = 0]

\* The position the hand reaches after d steps.
HandAfter(d) == (head + d) % Len(ring)

\* How many referenced slots the hand passes before it stops; after a full
\* turn all bits are clear and it stops where it started.
PassedAtMostOne == IF At(head) \in ref THEN 1 ELSE 0
Passed ==
  CHOOSE d \in 0 .. Len(ring) :
    /\ \A i \in 0 .. d - 1 : At(HandAfter(i)) \in ref
    /\ d < Len(ring) => At(HandAfter(d)) \notin ref

PickVictimAdvances ==
  /\ IF ring = <<>>
     THEN picked' = Nil /\ UNCHANGED <<ring, head, inRing, ref, survived>>
     ELSE LET stop == HandAfter(Passed) IN
          /\ picked' = At(stop)
          /\ ring' = RemoveAt(ring, stop + 1)
          /\ inRing' = inRing \ {At(stop)}
          /\ ref' = ref \ {At(HandAfter(i)) : i \in 0 .. Passed - 1}
          /\ head' = IF stop + 1 >= Len(ring') THEN 0 ELSE stop + 1
          /\ survived' = [k \in Keys |->
               IF k \in inRing' THEN survived[k] + 1 ELSE 0]
PickVictim ==
  /\ IF ring = <<>>
     THEN picked' = Nil /\ UNCHANGED <<ring, head, inRing, ref, survived>>
     ELSE LET stop == HandAfter(Passed) IN
          /\ picked' = At(stop)
          /\ ring' = RemoveAt(ring, stop + 1)
          /\ inRing' = inRing \ {At(stop)}
          /\ ref' = ref \ {At(HandAfter(i)) : i \in 0 .. Passed - 1}
          /\ head' = IF stop >= Len(ring') THEN 0 ELSE stop
          /\ survived' = [k \in Keys |->
               IF k \in inRing' THEN survived[k] + 1 ELSE 0]

Next == (\E k \in Keys : Push(k) \/ Delete(k)) \/ PickVictim

Spec == Init /\ [][Next]_vars

-----------------------------------------------------------------------------

(* Second chance: a slot used since the hand last passed it is only evicted
   when every slot was. *)
SecondChance ==
  [][picked' \in Keys \cap ref => inRing \subseteq ref]_vars

(* No slot is passed over for ever: however the others are pushed, deleted
   and picked around it, a slot that is not used again is evicted before the
   hand completes its second turn. *)
NoStarvation == \A k \in Keys : survived[k] <= 2 * Cardinality(Keys) - 3

Abstract == INSTANCE Replacer WITH candidates <- inRing

(* PickVictim always finds a victim when there is a candidate. *)
ImplementsReplacer == Abstract!Spec
==============================================================================
