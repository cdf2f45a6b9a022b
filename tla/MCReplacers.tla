----------------------------- MODULE MCReplacers -----------------------------
(***************************************************************************)
(* Both replacers side by side: each gets the same calls, and each answers *)
(* PickVictim in its own way.                                              *)
(***************************************************************************)
EXTENDS FiniteSets

CONSTANTS Keys, None, Nil

ASSUME ResultsAssumption == Keys \cap {None, Nil} = {} /\ None # Nil

VARIABLES linkedList, lru, lruPicked, younger,
          ring, head, inRing, ref, clockPicked, survived

LRU == INSTANCE LRUReplacer WITH picked <- lruPicked
Clock == INSTANCE ClockReplacer WITH picked <- clockPicked

vars == <<LRU!vars, Clock!vars>>

Init == LRU!Init /\ Clock!Init

Next ==
  \/ \E k \in Keys : LRU!Push(k) /\ Clock!Push(k)
  \/ \E k \in Keys : LRU!Delete(k) /\ Clock!Delete(k)
  \/ LRU!PickVictim /\ Clock!PickVictim

Spec == Init /\ [][Next]_vars

(* The victim is the one the policy names: LRUReplacer evicts the least
   recently used candidate, and ClockReplacer evicts a used slot only if all
   were used. *)
VictimsFollowPolicy == LRU!VictimIsLeastRecent /\ Clock!SecondChance

(* ClockReplacer passes no slot over for ever. *)
NoStarvation == Clock!NoStarvation

(* Both implement the interface the pool is written against: list, map, ring
   and bits stay in step, and a victim is found whenever there is one. *)
BothImplementReplacer == LRU!ImplementsReplacer /\ Clock!ImplementsReplacer
=============================================================================
