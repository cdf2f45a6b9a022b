----------------------------- MODULE LRUReplacer -----------------------------
(***************************************************************************)
(* LRUReplacer: a linked list in order of use, and a map from key to list  *)
(* element.  Every method runs under the replacer's mutex.  Push of a      *)
(* pinned slot returns at once and is not modelled: the pool never asks    *)
(* for it (touch and UnpinPage).                                           *)
(***************************************************************************)
EXTENDS Sequences, SequencesExt

CONSTANTS Keys, None, Nil

VARIABLES linkedList,  \* keys, least recently pushed first
          lru,         \* keys of the map
          picked,      \* what the last call returned: a key, Nil or None
          younger      \* history: younger[k], the keys pushed after k was

vars == <<linkedList, lru, picked, younger>>

Init ==
  /\ linkedList = <<>>
  /\ lru = {}
  /\ picked = None
  /\ younger = [k \in Keys |-> {}]

\* The list without the element that the map has for k.
Unlink(k) == RemoveAt(linkedList, CHOOSE n \in DOMAIN linkedList : linkedList[n] = k)

PushKeepsPlace(k) ==
  /\ linkedList' = IF k \in lru THEN linkedList ELSE Append(linkedList, k)
  /\ lru' = lru \cup {k}
  /\ picked' = None
  /\ younger' = [j \in Keys |-> IF j = k THEN {} ELSE younger[j] \cup {k}]
Push(k) ==
  /\ linkedList' = Append(IF k \in lru THEN Unlink(k) ELSE linkedList, k)
  /\ lru' = lru \cup {k}
  /\ picked' = None
  /\ younger' = [j \in Keys |-> IF j = k THEN {} ELSE younger[j] \cup {k}]

DeleteMapOnly(k) ==
  /\ lru' = lru \ {k}
  /\ picked' = None
  /\ UNCHANGED <<linkedList, younger>>
Delete(k) ==
  /\ linkedList' = IF k \in lru THEN Unlink(k) ELSE linkedList
  /\ lru' = lru \ {k}
  /\ picked' = None
  /\ UNCHANGED younger

PickVictim ==
  /\ IF linkedList = <<>>
     THEN picked' = Nil /\ UNCHANGED <<linkedList, lru>>
     ELSE /\ picked' = Head(linkedList)
          /\ linkedList' = Tail(linkedList)
          /\ lru' = lru \ {Head(linkedList)}
  /\ UNCHANGED younger

Next == (\E k \in Keys : Push(k) \/ Delete(k)) \/ PickVictim

Spec == Init /\ [][Next]_vars

-----------------------------------------------------------------------------

(* PickVictim evicts the least recently used candidate: every candidate it
   keeps was pushed after the victim was last pushed. *)
VictimIsLeastRecent ==
  [][picked' \in Keys => lru' \subseteq younger[picked']]_vars

\* The candidates are the keys of the map.
Abstract == INSTANCE Replacer WITH candidates <- lru

(* List and map stay in step: whatever the map says is a candidate is what
   PickVictim can return, and it returns nil only when there is none. *)
ImplementsReplacer == Abstract!Spec
==============================================================================
