-------------------------- MODULE BufferPoolProofs --------------------------
(***************************************************************************)
(* Proofs about BufferPool, for every set of keys and contents, every pool *)
(* size, batch size and number of I/O errors.                              *)
(***************************************************************************)
EXTENDS BufferPool, FiniteSetTheorems, TLAPS

\* The conjunction of the invariants TLC checks; it is inductive as it is.
IndInv ==
  /\ TypeOK
  /\ SlotsConsistent
  /\ OwnerSeesDirtySlot
  /\ NoStaleRead
  /\ CleanIsDurable

USE DEF Bytes

(* ensureSpaceLocked only takes resident pages that are not pinned, and
   flushSlotLocked writes well-formed files. *)
LEMMA VictimsResident ==
  ASSUME TypeOK, SlotsConsistent, NEW V \in Victims
  PROVE  /\ V \subseteq evictable
         /\ V \subseteq pageTable
         /\ V \cap pinned = {}
BY DEF Victims, SlotsConsistent

LEMMA WriteBackType ==
  ASSUME TypeOK, NEW S
  PROVE  WriteBack(S) \in [Keys -> Bytes]
BY DEF TypeOK, WriteBack

LEMMA LastWithoutType ==
  ASSUME TypeOK, NEW V
  PROVE  LastWithout(V) \in [Keys -> Bytes]
BY DEF TypeOK, LastWithout

(* The initial state satisfies the invariant. *)
LEMMA InitIndInv == Init => IndInv
BY BatchSizeAssumption, MaxFaultsAssumption
   DEF Init, IndInv, TypeOK, SlotsConsistent, OwnerSeesDirtySlot, NoStaleRead,
       CleanIsDurable, View

(* Every operation keeps the variables in their types. *)
LEMMA TypeStep == TypeOK /\ SlotsConsistent /\ [Next]_vars => TypeOK'
<1> SUFFICES ASSUME TypeOK, SlotsConsistent, [Next]_vars PROVE TypeOK'
  OBVIOUS
<1> USE BatchSizeAssumption, MaxFaultsAssumption
<1>1. ASSUME NEW k \in Keys, GetPageHit(k) PROVE TypeOK'
  BY <1>1 DEF GetPageHit, TypeOK, Touch, writerVars, historyVars
<1>2. ASSUME NEW k \in Keys, GetPageMiss(k) PROVE TypeOK'
  <2> PICK V \in Victims : GetPageMiss(k)!3!(V)
    BY <1>2 DEF GetPageMiss
  <2> QED
    BY <1>2, VictimsResident, WriteBackType, LastWithoutType
       DEF GetPageMiss, Replace, TypeOK, writerVars
<1>3. ASSUME NEW k \in Keys, NEW pg \in Contents, NewPage(k, pg) PROVE TypeOK'
  <2> PICK V \in Victims : NewPage(k, pg)!2!(V)
    BY <1>3 DEF NewPage
  <2> QED
    BY <1>3, VictimsResident, WriteBackType, LastWithoutType
       DEF NewPage, Replace, TypeOK, writerVars
<1>4. ASSUME NEW k \in Keys, NEW pg \in Contents, EditInPlace(k, pg) PROVE TypeOK'
  BY <1>4 DEF EditInPlace, TypeOK, writerVars, historyVars
<1>5. ASSUME NEW k \in Keys, UpdatePageHit(k) PROVE TypeOK'
  BY <1>5 DEF UpdatePageHit, TypeOK, Touch, writerVars
<1>6. ASSUME NEW k \in Keys, UpdatePageMiss(k) PROVE TypeOK'
  <2> PICK V \in Victims : UpdatePageMiss(k)!3!(V)
    BY <1>6 DEF UpdatePageMiss
  <2> QED
    BY <1>6, VictimsResident, WriteBackType, LastWithoutType
       DEF UpdatePageMiss, Replace, TypeOK, writerVars
<1>7. ASSUME NEW k \in Keys, PinPageHit(k) PROVE TypeOK'
  BY <1>7 DEF PinPageHit, TypeOK, callerVars, writerVars, historyVars
<1>8. ASSUME NEW k \in Keys, PinPageMiss(k) PROVE TypeOK'
  <2> PICK V \in Victims : PinPageMiss(k)!3!(V)
    BY <1>8 DEF PinPageMiss
  <2> QED
    BY <1>8, VictimsResident, WriteBackType, LastWithoutType
       DEF PinPageMiss, Replace, TypeOK, writerVars
<1>9. ASSUME NEW k \in Keys, UnpinPage(k) PROVE TypeOK'
  BY <1>9 DEF UnpinPage, TypeOK, callerVars, writerVars, historyVars
<1>10. ASSUME NEW k \in Keys, FlushPage(k) PROVE TypeOK'
  BY <1>10, WriteBackType
     DEF FlushPage, FlushSlots, Fault, TypeOK, poolVars, callerVars, writerVars, historyVars
<1>11. CASE FlushAllPages
  BY <1>11, WriteBackType
     DEF FlushAllPages, FlushSlots, Fault, TypeOK, callerVars, writerVars, historyVars
<1>12. ASSUME NEW k \in Keys, AccessFails(k) PROVE TypeOK'
  BY <1>12, VictimsResident, WriteBackType, LastWithoutType
     DEF AccessFails, VictimFlushFails, ReadFails, Fault, TypeOK, writerVars
<1>13. ASSUME NEW k \in Keys, UpdatePageFails(k) PROVE TypeOK'
  BY <1>13, VictimsResident, WriteBackType, LastWithoutType
     DEF UpdatePageFails, VictimFlushFails, ReadFails, Fault, TypeOK, writerVars
<1>14. ASSUME NEW k \in Keys, Release(k) PROVE TypeOK'
  BY <1>14 DEF Release, TypeOK, poolVars, writerVars, historyVars
<1>15. CASE StartBatch
  BY <1>15 DEF StartBatch, TypeOK, poolVars, callerVars, historyVars
<1>16. CASE FlushBatchStep
  BY <1>16, WriteBackType
     DEF FlushBatchStep, FlushSlots, Fault, TypeOK, poolVars, callerVars, historyVars
<1>17. CASE Restart
  BY <1>17 DEF Restart, TypeOK
<1>18. CASE UNCHANGED vars
  BY <1>18 DEF vars, TypeOK, poolVars, callerVars, writerVars, historyVars
<1> QED
  BY <1>1, <1>2, <1>3, <1>4, <1>5, <1>6, <1>7, <1>8, <1>9, <1>10, <1>11,
     <1>12, <1>13, <1>14, <1>15, <1>16, <1>17, <1>18 DEF Next

-----------------------------------------------------------------------------

(* An eviction keeps contents: what is left in the file of an evicted page
   is its committed contents, and no other file or page is touched. *)
LEMMA EvictionKeepsContents ==
  ASSUME IndInv, NEW V \in Victims, NEW j \in Keys
  PROVE  /\ j \notin V => WriteBack(V)[j] = disk[j] /\ LastWithout(V)[j] = last[j]
         /\ j \in V \ editing => WriteBack(V)[j] = LastWithout(V)[j]
<1>1. V \subseteq pageTable
  BY VictimsResident DEF IndInv
<1> QED
  BY <1>1 DEF IndInv, TypeOK, SlotsConsistent, NoStaleRead, CleanIsDurable, View,
              WriteBack, LastWithout

(* A flush writes committed contents, and leaves the other files alone. *)
LEMMA FlushKeepsContents ==
  ASSUME IndInv, NEW S, NEW j \in Keys
  PROVE  /\ j \notin S \cap dirty => WriteBack(S)[j] = disk[j]
         /\ j \in (S \cap dirty) \ editing => WriteBack(S)[j] = last[j]
BY DEF IndInv, TypeOK, SlotsConsistent, NoStaleRead, View, WriteBack

(* Every operation keeps the flags of the slots consistent. *)
LEMMA SlotsStep == IndInv /\ [Next]_vars => SlotsConsistent'
<1> SUFFICES ASSUME IndInv, [Next]_vars PROVE SlotsConsistent'
  OBVIOUS
<1> USE DEF IndInv, SlotsConsistent
<1>1. ASSUME NEW k \in Keys, GetPageHit(k) PROVE SlotsConsistent'
  BY <1>1 DEF GetPageHit, Touch, historyVars
<1>2. ASSUME NEW k \in Keys, GetPageMiss(k) PROVE SlotsConsistent'
  <2> PICK V \in Victims : GetPageMiss(k)!3!(V)
    BY <1>2 DEF GetPageMiss
  <2> QED
    BY <1>2, VictimsResident DEF GetPageMiss, Replace
<1>3. ASSUME NEW k \in Keys, NEW pg \in Contents, NewPage(k, pg) PROVE SlotsConsistent'
  <2> PICK V \in Victims : NewPage(k, pg)!2!(V)
    BY <1>3 DEF NewPage
  <2> QED
    BY <1>3, VictimsResident DEF NewPage, Replace
<1>4. ASSUME NEW k \in Keys, NEW pg \in Contents, EditInPlace(k, pg) PROVE SlotsConsistent'
  BY <1>4 DEF EditInPlace, historyVars
<1>5. ASSUME NEW k \in Keys, UpdatePageHit(k) PROVE SlotsConsistent'
  BY <1>5 DEF UpdatePageHit, Touch
<1>6. ASSUME NEW k \in Keys, UpdatePageMiss(k) PROVE SlotsConsistent'
  <2> PICK V \in Victims : UpdatePageMiss(k)!3!(V)
    BY <1>6 DEF UpdatePageMiss
  <2> QED
    BY <1>6, VictimsResident DEF UpdatePageMiss, Replace
<1>7. ASSUME NEW k \in Keys, PinPageHit(k) PROVE SlotsConsistent'
  BY <1>7 DEF PinPageHit, callerVars, historyVars
<1>8. ASSUME NEW k \in Keys, PinPageMiss(k) PROVE SlotsConsistent'
  <2> PICK V \in Victims : PinPageMiss(k)!3!(V)
    BY <1>8 DEF PinPageMiss
  <2> QED
    BY <1>8, VictimsResident DEF PinPageMiss, Replace
<1>9. ASSUME NEW k \in Keys, UnpinPage(k) PROVE SlotsConsistent'
  BY <1>9 DEF UnpinPage, callerVars, historyVars
<1>10. ASSUME NEW k \in Keys, FlushPage(k) PROVE SlotsConsistent'
  BY <1>10 DEF FlushPage, FlushSlots, poolVars, callerVars, historyVars
<1>11. CASE FlushAllPages
  BY <1>11 DEF FlushAllPages, FlushSlots, callerVars, historyVars
<1>12. ASSUME NEW k \in Keys, AccessFails(k) PROVE SlotsConsistent'
  BY <1>12, VictimsResident DEF AccessFails, VictimFlushFails, ReadFails
<1>13. ASSUME NEW k \in Keys, UpdatePageFails(k) PROVE SlotsConsistent'
  BY <1>13, VictimsResident DEF UpdatePageFails, VictimFlushFails, ReadFails
<1>14. ASSUME NEW k \in Keys, Release(k) PROVE SlotsConsistent'
  BY <1>14 DEF Release, poolVars, historyVars
<1>15. CASE StartBatch
  BY <1>15 DEF StartBatch, poolVars, callerVars, historyVars
<1>16. CASE FlushBatchStep
  BY <1>16 DEF FlushBatchStep, FlushSlots, poolVars, callerVars, historyVars
<1>17. CASE Restart
  BY <1>17 DEF Restart
<1>18. CASE UNCHANGED vars
  BY <1>18 DEF vars, poolVars, callerVars, historyVars
<1> QED
  BY <1>1, <1>2, <1>3, <1>4, <1>5, <1>6, <1>7, <1>8, <1>9, <1>10, <1>11,
     <1>12, <1>13, <1>14, <1>15, <1>16, <1>17, <1>18 DEF Next

(* Every operation keeps the owners' copies and the dirty slots together. *)
LEMMA OwnerStep == IndInv /\ [Next]_vars => OwnerSeesDirtySlot'
<1> SUFFICES ASSUME IndInv, [Next]_vars PROVE OwnerSeesDirtySlot'
  OBVIOUS
<1> USE NoPageAssumption DEF IndInv, OwnerSeesDirtySlot, TypeOK, SlotsConsistent
<1>1. ASSUME NEW k \in Keys, GetPageHit(k) PROVE OwnerSeesDirtySlot'
  BY <1>1 DEF GetPageHit, Touch, historyVars
<1>2. ASSUME NEW k \in Keys, GetPageMiss(k) PROVE OwnerSeesDirtySlot'
  <2> PICK V \in Victims : GetPageMiss(k)!3!(V)
    BY <1>2 DEF GetPageMiss
  <2> QED
    BY <1>2, VictimsResident DEF GetPageMiss, Replace
<1>3. ASSUME NEW k \in Keys, NEW pg \in Contents, NewPage(k, pg) PROVE OwnerSeesDirtySlot'
  <2> PICK V \in Victims : NewPage(k, pg)!2!(V)
    BY <1>3 DEF NewPage
  <2> QED
    BY <1>3, VictimsResident DEF NewPage, Replace
<1>4. ASSUME NEW k \in Keys, NEW pg \in Contents, EditInPlace(k, pg) PROVE OwnerSeesDirtySlot'
  BY <1>4 DEF EditInPlace, historyVars
<1>5. ASSUME NEW k \in Keys, UpdatePageHit(k) PROVE OwnerSeesDirtySlot'
  BY <1>5 DEF UpdatePageHit, Touch
<1>6. ASSUME NEW k \in Keys, UpdatePageMiss(k) PROVE OwnerSeesDirtySlot'
  <2> PICK V \in Victims : UpdatePageMiss(k)!3!(V)
    BY <1>6 DEF UpdatePageMiss
  <2> QED
    BY <1>6, VictimsResident DEF UpdatePageMiss, Replace
<1>7. ASSUME NEW k \in Keys, PinPageHit(k) PROVE OwnerSeesDirtySlot'
  BY <1>7 DEF PinPageHit, callerVars, historyVars
<1>8. ASSUME NEW k \in Keys, PinPageMiss(k) PROVE OwnerSeesDirtySlot'
  <2> PICK V \in Victims : PinPageMiss(k)!3!(V)
    BY <1>8 DEF PinPageMiss
  <2> QED
    BY <1>8, VictimsResident DEF PinPageMiss, Replace
<1>9. ASSUME NEW k \in Keys, UnpinPage(k) PROVE OwnerSeesDirtySlot'
  BY <1>9 DEF UnpinPage, callerVars, historyVars
<1>10. ASSUME NEW k \in Keys, FlushPage(k) PROVE OwnerSeesDirtySlot'
  BY <1>10 DEF FlushPage, FlushSlots, poolVars, callerVars, historyVars
<1>11. CASE FlushAllPages
  BY <1>11 DEF FlushAllPages, FlushSlots, callerVars, historyVars
<1>12. ASSUME NEW k \in Keys, AccessFails(k) PROVE OwnerSeesDirtySlot'
  BY <1>12, VictimsResident DEF AccessFails, VictimFlushFails, ReadFails
<1>13. ASSUME NEW k \in Keys, UpdatePageFails(k) PROVE OwnerSeesDirtySlot'
  BY <1>13, VictimsResident DEF UpdatePageFails, VictimFlushFails, ReadFails
<1>14. ASSUME NEW k \in Keys, Release(k) PROVE OwnerSeesDirtySlot'
  BY <1>14 DEF Release, poolVars, historyVars
<1>15. CASE StartBatch
  BY <1>15 DEF StartBatch, poolVars, callerVars, historyVars
<1>16. CASE FlushBatchStep
  BY <1>16 DEF FlushBatchStep, FlushSlots, poolVars, callerVars, historyVars
<1>17. CASE Restart
  BY <1>17 DEF Restart
<1>18. CASE UNCHANGED vars
  BY <1>18 DEF vars, poolVars, callerVars, historyVars
<1> QED
  BY <1>1, <1>2, <1>3, <1>4, <1>5, <1>6, <1>7, <1>8, <1>9, <1>10, <1>11,
     <1>12, <1>13, <1>14, <1>15, <1>16, <1>17, <1>18 DEF Next

(* Every operation keeps pages readable as they were committed, and the
   files of clean pages up to date. *)
LEMMA ContentsStep == IndInv /\ [Next]_vars => NoStaleRead' /\ CleanIsDurable'
<1> SUFFICES ASSUME IndInv, [Next]_vars PROVE NoStaleRead' /\ CleanIsDurable'
  OBVIOUS
<1> USE DEF NoStaleRead, CleanIsDurable, View, IndInv, TypeOK, SlotsConsistent
<1>1. ASSUME NEW k \in Keys, GetPageHit(k) PROVE NoStaleRead' /\ CleanIsDurable'
  BY <1>1 DEF GetPageHit, Touch, historyVars
<1>2. ASSUME NEW k \in Keys, GetPageMiss(k) PROVE NoStaleRead' /\ CleanIsDurable'
  <2> PICK V \in Victims : GetPageMiss(k)!3!(V)
    BY <1>2 DEF GetPageMiss
  <2> QED
    BY <1>2, VictimsResident, EvictionKeepsContents DEF GetPageMiss, Replace
<1>3. ASSUME NEW k \in Keys, NEW pg \in Contents, NewPage(k, pg) PROVE NoStaleRead' /\ CleanIsDurable'
  <2> PICK V \in Victims : NewPage(k, pg)!2!(V)
    BY <1>3 DEF NewPage
  <2> QED
    BY <1>3, VictimsResident, EvictionKeepsContents, LastWithoutType
       DEF NewPage, Replace
<1>4. ASSUME NEW k \in Keys, NEW pg \in Contents, EditInPlace(k, pg) PROVE NoStaleRead' /\ CleanIsDurable'
  BY <1>4 DEF EditInPlace, historyVars
<1>5. ASSUME NEW k \in Keys, UpdatePageHit(k) PROVE NoStaleRead' /\ CleanIsDurable'
  BY <1>5 DEF UpdatePageHit, Touch
<1>6. ASSUME NEW k \in Keys, UpdatePageMiss(k) PROVE NoStaleRead' /\ CleanIsDurable'
  <2> PICK V \in Victims : UpdatePageMiss(k)!3!(V)
    BY <1>6 DEF UpdatePageMiss
  <2> QED
    BY <1>6, VictimsResident, EvictionKeepsContents, LastWithoutType
       DEF UpdatePageMiss, Replace
<1>7. ASSUME NEW k \in Keys, PinPageHit(k) PROVE NoStaleRead' /\ CleanIsDurable'
  BY <1>7 DEF PinPageHit, callerVars, historyVars
<1>8. ASSUME NEW k \in Keys, PinPageMiss(k) PROVE NoStaleRead' /\ CleanIsDurable'
  <2> PICK V \in Victims : PinPageMiss(k)!3!(V)
    BY <1>8 DEF PinPageMiss
  <2> QED
    BY <1>8, VictimsResident, EvictionKeepsContents DEF PinPageMiss, Replace
<1>9. ASSUME NEW k \in Keys, UnpinPage(k) PROVE NoStaleRead' /\ CleanIsDurable'
  BY <1>9 DEF UnpinPage, callerVars, historyVars
<1>10. ASSUME NEW k \in Keys, FlushPage(k) PROVE NoStaleRead' /\ CleanIsDurable'
  BY <1>10, FlushKeepsContents DEF FlushPage, FlushSlots, poolVars, callerVars, historyVars
<1>11. CASE FlushAllPages
  BY <1>11, FlushKeepsContents DEF FlushAllPages, FlushSlots, callerVars, historyVars
<1>12. ASSUME NEW k \in Keys, AccessFails(k) PROVE NoStaleRead' /\ CleanIsDurable'
  BY <1>12, VictimsResident, EvictionKeepsContents DEF AccessFails, VictimFlushFails, ReadFails
<1>13. ASSUME NEW k \in Keys, UpdatePageFails(k) PROVE NoStaleRead' /\ CleanIsDurable'
  <2>1. \/ disk' = disk /\ last' = [last EXCEPT ![k] = disk[k]]
           /\ UNCHANGED <<pageTable, page, dirty, fresh>>
        \/ \E V \in Victims :
             /\ ReadFails(k, V)
             /\ last' = [LastWithout(V) EXCEPT ![k] = disk[k]]
    BY <1>13 DEF UpdatePageFails, VictimFlushFails
  <2>2. k \in editing \ pageTable /\ editing' = editing \ {k}
    BY <1>13 DEF UpdatePageFails
  <2>3. CASE disk' = disk /\ last' = [last EXCEPT ![k] = disk[k]]
             /\ UNCHANGED <<pageTable, page, dirty, fresh>>
    BY <2>2, <2>3
  <2>4. ASSUME NEW V \in Victims, ReadFails(k, V),
               last' = [LastWithout(V) EXCEPT ![k] = disk[k]]
        PROVE  NoStaleRead' /\ CleanIsDurable'
    BY <2>2, <2>4, VictimsResident, EvictionKeepsContents, LastWithoutType DEF ReadFails
  <2> QED
    BY <2>1, <2>3, <2>4
<1>14. ASSUME NEW k \in Keys, Release(k) PROVE NoStaleRead' /\ CleanIsDurable'
  BY <1>14 DEF Release, poolVars, historyVars
<1>15. CASE StartBatch
  BY <1>15 DEF StartBatch, poolVars, callerVars, historyVars
<1>16. CASE FlushBatchStep
  BY <1>16, FlushKeepsContents DEF FlushBatchStep, FlushSlots, poolVars, callerVars, historyVars
<1>17. CASE Restart
  BY <1>17 DEF Restart
<1>18. CASE UNCHANGED vars
  BY <1>18 DEF vars, poolVars, callerVars, historyVars
<1> QED
  BY <1>1, <1>2, <1>3, <1>4, <1>5, <1>6, <1>7, <1>8, <1>9, <1>10, <1>11,
     <1>12, <1>13, <1>14, <1>15, <1>16, <1>17, <1>18 DEF Next

(* The invariant is inductive. *)
LEMMA IndInvStep == IndInv /\ [Next]_vars => IndInv'
BY TypeStep, SlotsStep, OwnerStep, ContentsStep DEF IndInv

(* IndInv holds in every reachable state. *)
THEOREM Invariance == Spec => []IndInv
BY InitIndInv, IndInvStep, PTL DEF Spec

(* The buffer pool's variables keep their types. *)
THEOREM TypeCorrect == Spec => []TypeOK
BY Invariance, PTL DEF IndInv

(* Whatever is evicted, reloaded, flushed, failed or restarted, GetPage
   returns the last committed bytes of a page nobody is editing. *)
THEOREM ReadsAreNotStale == Spec => []NoStaleRead
BY Invariance, PTL DEF IndInv

(* A page the pool considers clean is in its file. *)
THEOREM CleanPagesAreDurable == Spec => []CleanIsDurable
BY Invariance, PTL DEF IndInv

(* Pinned pages are resident and never candidates for eviction. *)
THEOREM SlotFlagsAgree == Spec => []SlotsConsistent
BY Invariance, PTL DEF IndInv

-----------------------------------------------------------------------------

(* Adding an element to a finite set adds at most one to its size. *)
LEMMA AddOne ==
  ASSUME NEW S, NEW x, IsFiniteSet(S)
  PROVE  /\ Cardinality(S) \in Nat
         /\ Cardinality(S \cup {x}) \in {Cardinality(S), Cardinality(S) + 1}
<1>1. Cardinality(S) \in Nat
  BY FS_CardinalityType, Zenon
<1>2. Cardinality(S \cup {x}) =
        IF x \in S THEN Cardinality(S) ELSE Cardinality(S) + 1
  BY FS_AddElement, Zenon
<1> QED
  BY <1>1, <1>2, Zenon

(* ensureSpaceLocked makes room for one more page. *)
LEMMA RoomForOne ==
  ASSUME TypeOK, SlotsConsistent, PoolBound, NEW V \in Victims, NEW k
  PROVE  /\ Cardinality(pageTable \ V) <= PoolSize
         /\ Cardinality((pageTable \ V) \cup {k}) <= PoolSize
<1> DEFINE R == pageTable \ V
<1>1. IsFiniteSet(pageTable)
  BY KeysAssumption, FS_Subset DEF TypeOK
<1>2. IsFiniteSet(R) /\ Cardinality(R) \in Nat /\ Cardinality(R) < PoolSize
  <2>1. CASE Cardinality(pageTable) < PoolSize
    <3>1. R = pageTable
      BY <2>1 DEF Victims
    <3> QED
      BY <1>1, <2>1, <3>1, FS_CardinalityType, Zenon
  <2>2. ASSUME NEW v \in evictable, V = {v} PROVE <1>2!:
    <3>1. v \in pageTable /\ R = pageTable \ {v}
      BY <2>2 DEF SlotsConsistent
    <3>2. Cardinality(pageTable \ {v}) =
            IF v \in pageTable THEN Cardinality(pageTable) - 1
            ELSE Cardinality(pageTable)
      BY <1>1, FS_RemoveElement, Zenon
    <3>3. IsFiniteSet(R)
      BY <1>1, FS_Subset
    <3>4. Cardinality(pageTable) \in Nat
      BY <1>1, FS_CardinalityType, Zenon
    <3>5. Cardinality(R) = Cardinality(pageTable) - 1
      BY <3>1, <3>2, Zenon
    <3>6. Cardinality(R) \in Nat
      BY <3>3, FS_CardinalityType, Zenon
    <3> QED
      BY <3>3, <3>4, <3>5, <3>6, PoolSizeAssumption DEF PoolBound
  <2> QED
    BY <2>1, <2>2 DEF Victims
<1>3. Cardinality(R \cup {k}) \in {Cardinality(R), Cardinality(R) + 1}
  BY <1>2, AddOne, Zenon
<1> QED
  BY <1>2, <1>3, PoolSizeAssumption

(* No operation leaves more slots than the pool may hold. *)
LEMMA PoolBoundStep == IndInv /\ PoolBound /\ [Next]_vars => PoolBound'
<1> SUFFICES ASSUME IndInv, PoolBound, [Next]_vars PROVE PoolBound'
  OBVIOUS
<1>1. CASE pageTable' = pageTable
  BY <1>1 DEF PoolBound
<1>2. CASE Restart
  BY <1>2, FS_EmptySet, PoolSizeAssumption DEF Restart, PoolBound
<1>3. CASE \E V \in Victims, k \in Keys :
             \/ pageTable' = pageTable \ V
             \/ pageTable' = (pageTable \ V) \cup {k}
  BY <1>3, RoomForOne DEF PoolBound, IndInv
<1>4. ASSUME NEW k \in Keys,
             \/ GetPageMiss(k) \/ UpdatePageMiss(k) \/ PinPageMiss(k)
             \/ \E pg \in Contents : NewPage(k, pg)
      PROVE  PoolBound'
  BY <1>3, <1>4 DEF GetPageMiss, UpdatePageMiss, PinPageMiss, NewPage, Replace
<1>5. ASSUME NEW k \in Keys, AccessFails(k) \/ UpdatePageFails(k)
      PROVE  PoolBound'
  BY <1>1, <1>3, <1>5 DEF AccessFails, UpdatePageFails, VictimFlushFails, ReadFails
<1>6. \/ Restart
      \/ \E k \in Keys :
           \/ GetPageMiss(k) \/ UpdatePageMiss(k) \/ PinPageMiss(k)
           \/ AccessFails(k) \/ UpdatePageFails(k)
           \/ \E pg \in Contents : NewPage(k, pg)
      \/ pageTable' = pageTable
  BY DEF Next, vars, poolVars, GetPageHit, UpdatePageHit, PinPageHit, UnpinPage,
         FlushPage, Release, EditInPlace, FlushAllPages, StartBatch,
         FlushBatchStep, FlushSlots
<1> QED
  BY <1>1, <1>2, <1>4, <1>5, <1>6

(* len(pageTable) never exceeds poolSize. *)
THEOREM PoolNeverOverflows == Spec => []PoolBound
<1>1. Init => PoolBound
  BY FS_EmptySet, PoolSizeAssumption DEF Init, PoolBound
<1> QED
  BY <1>1, PoolBoundStep, Invariance, PTL DEF Spec

(* The pool keeps its books, for every pool size: bounded, with flags that
   describe resident slots only. *)
THEOREM PoolStaysConsistent == Spec => []PoolConsistent
BY SlotFlagsAgree, PoolNeverOverflows, PTL DEF PoolConsistent

-----------------------------------------------------------------------------
(* Candidates for eviction. *)

\* The resident pages that are neither pinned nor known to the replacer.
Lost == pageTable \ (pinned \cup evictable)

(* Only a failed write-back of a victim takes a page away from the replacer. *)
LEMMA LostStep ==
  ASSUME IndInv, [Next]_vars
  PROVE  \/ Lost' \subseteq Lost /\ faults' \in {faults, faults + 1}
         \/ faults' = faults + 1 /\ \E v \in Keys : Lost' \subseteq Lost \cup {v}
<1> DEFINE Goal == \/ Lost' \subseteq Lost /\ faults' \in {faults, faults + 1}
                   \/ faults' = faults + 1 /\ \E v \in Keys : Lost' \subseteq Lost \cup {v}
<1> USE DEF Lost
<1>1. ASSUME NEW k \in Keys,
             \/ GetPageHit(k) \/ UpdatePageHit(k) \/ PinPageHit(k) \/ UnpinPage(k)
             \/ Release(k) \/ \E pg \in Contents : EditInPlace(k, pg)
      PROVE  Goal
  BY <1>1 DEF GetPageHit, UpdatePageHit, PinPageHit, UnpinPage, Release, EditInPlace,
              Touch, poolVars
<1>2. ASSUME NEW k \in Keys, GetPageMiss(k) PROVE Goal
  BY <1>2 DEF GetPageMiss, Replace
<1>3. ASSUME NEW k \in Keys, UpdatePageMiss(k) PROVE Goal
  BY <1>3 DEF UpdatePageMiss, Replace
<1>4. ASSUME NEW k \in Keys, PinPageMiss(k) PROVE Goal
  BY <1>4 DEF PinPageMiss, Replace
<1>5. ASSUME NEW k \in Keys, NEW pg \in Contents, NewPage(k, pg) PROVE Goal
  BY <1>5 DEF NewPage, Replace
<1>6. CASE VictimFlushFails /\ UNCHANGED pinned
  <2> PICK v \in evictable : evictable' = evictable \ {v}
    BY <1>6 DEF VictimFlushFails
  <2>1. v \in Keys
    BY DEF IndInv, TypeOK
  <2> QED
    BY <1>6, <2>1 DEF VictimFlushFails, Fault
<1>7. ASSUME NEW k \in Keys, NEW V, ReadFails(k, V), UNCHANGED pinned PROVE Goal
  BY <1>7 DEF ReadFails, Fault
<1>8. ASSUME NEW k \in Keys, AccessFails(k) \/ UpdatePageFails(k) PROVE Goal
  BY <1>6, <1>7, <1>8 DEF AccessFails, UpdatePageFails
<1>9. ASSUME NEW S, FlushSlots(S), faults' \in {faults, faults + 1} PROVE Goal
  BY <1>9 DEF FlushSlots
<1>10. ASSUME NEW k \in Keys, FlushPage(k) PROVE Goal
  BY <1>9, <1>10 DEF FlushPage, Fault, poolVars
<1>11. CASE FlushAllPages
  BY <1>9, <1>11 DEF FlushAllPages, Fault
<1>12. CASE FlushBatchStep
  BY <1>9, <1>12 DEF FlushBatchStep, Fault, poolVars
<1>13. CASE StartBatch \/ Restart \/ UNCHANGED vars
  BY <1>13 DEF StartBatch, Restart, vars, poolVars
<1> QED
  BY <1>1, <1>2, <1>3, <1>4, <1>5, <1>8, <1>10, <1>11, <1>12, <1>13 DEF Next

(* A step adds no more lost candidates than I/O errors. *)
LEMMA CandidatesStep ==
  IndInv /\ CandidatesLostOnlyToErrors /\ [Next]_vars => CandidatesLostOnlyToErrors'
<1> SUFFICES ASSUME IndInv, CandidatesLostOnlyToErrors, [Next]_vars
             PROVE  CandidatesLostOnlyToErrors'
  OBVIOUS
<1>1. IsFiniteSet(Lost) /\ IsFiniteSet(Lost')
  BY TypeStep, KeysAssumption, FS_Subset DEF IndInv, TypeOK, Lost
<1>2. Cardinality(Lost) \in Nat /\ Cardinality(Lost') \in Nat /\ faults \in Nat
  BY <1>1, FS_CardinalityType, MaxFaultsAssumption DEF IndInv, TypeOK
<1>3. Cardinality(Lost) <= faults
  BY DEF CandidatesLostOnlyToErrors, Lost
<1>4. CASE Lost' \subseteq Lost /\ faults' \in {faults, faults + 1}
  <2>1. Cardinality(Lost') <= Cardinality(Lost)
    BY <1>1, <1>4, FS_Subset, Zenon
  <2> QED
    BY <1>2, <1>3, <1>4, <2>1 DEF CandidatesLostOnlyToErrors, Lost
<1>5. ASSUME NEW v \in Keys, Lost' \subseteq Lost \cup {v}, faults' = faults + 1
      PROVE  CandidatesLostOnlyToErrors'
  <2>1. Cardinality(Lost \cup {v}) \in {Cardinality(Lost), Cardinality(Lost) + 1}
    BY <1>1, AddOne, Zenon
  <2>2. IsFiniteSet(Lost \cup {v})
    BY <1>1, FS_AddElement, Zenon
  <2>3. Cardinality(Lost') <= Cardinality(Lost \cup {v})
    BY <1>5, <2>2, FS_Subset, Zenon
  <2> QED
    BY <1>2, <1>3, <1>5, <2>1, <2>3 DEF CandidatesLostOnlyToErrors, Lost
<1> QED
  BY <1>4, <1>5, LostStep

(* Every page that is not pinned can be evicted, but for one per failed
   write-back, whatever the pool size and the order of the operations. *)
THEOREM OnlyErrorsLoseCandidates == Spec => []CandidatesLostOnlyToErrors
<1>1. Init => CandidatesLostOnlyToErrors
  <2> SUFFICES ASSUME Init PROVE Cardinality(pageTable \ (pinned \cup evictable)) <= faults
    BY DEF CandidatesLostOnlyToErrors
  <2>1. pageTable \ (pinned \cup evictable) = {} /\ faults = 0
    BY DEF Init
  <2> QED
    BY <2>1, FS_EmptySet
<1> QED
  BY <1>1, CandidatesStep, Invariance, PTL DEF Spec

-----------------------------------------------------------------------------
(* Refinement: the pool implements PageStore. *)

(* What ensureSpaceLocked, FlushPage and FlushAllPages write is what the page
   store allows to be written back: committed bytes, or the bytes of a page
   that is being edited. *)
LEMMA WriteBackRefines ==
  ASSUME IndInv, NEW S, disk' = WriteBack(S)
  PROVE  Store!WriteBack
BY WriteBackType
   DEF IndInv, TypeOK, SlotsConsistent, OwnerSeesDirtySlot, NoStaleRead, View,
       WriteBack, Store!WriteBack

LEMMA NoWriteBackRefines ==
  ASSUME TypeOK, UNCHANGED disk
  PROVE  Store!WriteBack
BY DEF TypeOK, Store!WriteBack

LEMMA LastWithoutRefines ==
  ASSUME TypeOK, SlotsConsistent, NEW V \in Victims
  PROVE  /\ V \cap fresh \in SUBSET fresh
         /\ Store!Without(V \cap fresh) = LastWithout(V)
         /\ fresh \ (V \cap fresh) = fresh \ V
BY DEF TypeOK, Store!Without, LastWithout

LEMMA NothingDropped ==
  ASSUME TypeOK PROVE Store!Without({}) = last
BY DEF TypeOK, Store!Without

(* A step that leaves the page store's variables alone is a stutter. *)
LEMMA Stutter ==
  ASSUME UNCHANGED <<last, disk, work, fresh, editing>>
  PROVE  [Store!Next]_(Store!vars)
BY DEF Store!vars

(* Every step of the pool is a step of the page store, or a stutter. *)
LEMMA StepRefines == IndInv /\ [Next]_vars => [Store!Next]_(Store!vars)
<1> SUFFICES ASSUME IndInv, [Next]_vars PROVE [Store!Next]_(Store!vars)
  OBVIOUS
<1> USE DEF IndInv
<1>1. ASSUME NEW k \in Keys, GetPageHit(k) PROVE Store!Next
  <2>1. Store!Fetch(k, {})
    BY <1>1, NothingDropped
       DEF GetPageHit, historyVars, TypeOK, NoStaleRead, OwnerSeesDirtySlot, View, Store!Fetch
  <2> QED
    BY <1>1, <2>1, NoWriteBackRefines DEF GetPageHit, Store!Next, Store!Operation
<1>2. ASSUME NEW k \in Keys, GetPageMiss(k) PROVE Store!Next
  <2> PICK V \in Victims : GetPageMiss(k)!3!(V)
    BY <1>2 DEF GetPageMiss
  <2>1. Store!Fetch(k, V \cap fresh)
    BY <1>2, VictimsResident, LastWithoutRefines
       DEF GetPageMiss, NoStaleRead, View, Store!Fetch
  <2>2. Store!WriteBack
    BY <1>2, WriteBackRefines DEF Replace
  <2> QED
    BY <2>1, <2>2, LastWithoutRefines DEF Store!Next, Store!Operation
<1>3. ASSUME NEW k \in Keys, NEW pg \in Contents, NewPage(k, pg) PROVE Store!Next
  <2> PICK V \in Victims : NewPage(k, pg)!2!(V)
    BY <1>3 DEF NewPage
  <2>1. Store!Create(k, pg, V \cap fresh)
    BY <1>3, VictimsResident, LastWithoutRefines DEF NewPage, Store!Create
  <2>2. Store!WriteBack
    BY <1>3, WriteBackRefines DEF Replace
  <2> QED
    BY <2>1, <2>2, LastWithoutRefines DEF Store!Next, Store!Operation
<1>4. ASSUME NEW k \in Keys, NEW pg \in Contents, EditInPlace(k, pg) PROVE Store!Next
  <2>1. Store!Edit(k, pg)
    BY <1>4 DEF EditInPlace, historyVars, Store!Edit
  <2> QED
    BY <1>4, <2>1, NoWriteBackRefines DEF EditInPlace, Store!Next, Store!Operation
<1>5. ASSUME NEW k \in Keys, UpdatePageHit(k) PROVE Store!Next
  <2>1. Store!Commit(k, {})
    BY <1>5, NothingDropped DEF UpdatePageHit, Store!Commit
  <2> QED
    BY <1>5, <2>1, NoWriteBackRefines DEF UpdatePageHit, Store!Next, Store!Operation
<1>6. ASSUME NEW k \in Keys, UpdatePageMiss(k) PROVE Store!Next
  <2> PICK V \in Victims : UpdatePageMiss(k)!3!(V)
    BY <1>6 DEF UpdatePageMiss
  <2>a. k \in editing /\ k \notin fresh
    BY <1>6 DEF UpdatePageMiss, SlotsConsistent
  <2>b. (fresh \ (V \cap fresh)) \ {k} = fresh \ V
    BY <2>a
  <2>1. Store!Commit(k, V \cap fresh)
    BY <1>6, <2>a, <2>b, LastWithoutRefines DEF UpdatePageMiss, Store!Commit
  <2>2. Store!WriteBack
    BY <1>6, WriteBackRefines DEF Replace
  <2> QED
    BY <2>1, <2>2, LastWithoutRefines DEF Store!Next, Store!Operation
<1>7. ASSUME NEW k \in Keys, PinPageHit(k) \/ UnpinPage(k)
      PROVE  [Store!Next]_(Store!vars)
  BY <1>7, Stutter DEF PinPageHit, UnpinPage, callerVars, historyVars
<1>8. ASSUME NEW k \in Keys, PinPageMiss(k) PROVE Store!Next
  <2> PICK V \in Victims : PinPageMiss(k)!3!(V)
    BY <1>8 DEF PinPageMiss
  <2>1. Store!Settle(V \cap fresh)
    BY <1>8, LastWithoutRefines DEF PinPageMiss, Store!Settle
  <2>2. Store!WriteBack
    BY <1>8, WriteBackRefines DEF Replace
  <2> QED
    BY <2>1, <2>2, LastWithoutRefines DEF Store!Next, Store!Operation
<1>9. ASSUME NEW S, FlushSlots(S) PROVE Store!Next
  <2>1. Store!Settle({})
    BY <1>9, NothingDropped DEF FlushSlots, callerVars, historyVars, Store!Settle
  <2>2. Store!WriteBack
    BY <1>9, WriteBackRefines DEF FlushSlots
  <2> QED
    BY <2>1, <2>2 DEF Store!Next, Store!Operation
<1>10. ASSUME NEW k \in Keys, FlushPage(k) PROVE [Store!Next]_(Store!vars)
  BY <1>9, <1>10, Stutter DEF FlushPage, callerVars, historyVars
<1>11. CASE FlushAllPages
  BY <1>9, <1>11 DEF FlushAllPages
<1>12. CASE FlushBatchStep
  BY <1>9, <1>12, Stutter DEF FlushBatchStep, callerVars, historyVars
<1>13. ASSUME NEW k \in Keys, AccessFails(k) PROVE [Store!Next]_(Store!vars)
  <2>1. CASE VictimFlushFails /\ UNCHANGED last
    BY <1>13, <2>1, Stutter DEF AccessFails, VictimFlushFails
  <2>2. ASSUME NEW V \in Victims, ReadFails(k, V), last' = LastWithout(V)
        PROVE  Store!Next
    <3>1. Store!Settle(V \cap fresh)
      BY <1>13, <2>2, LastWithoutRefines DEF AccessFails, ReadFails, Store!Settle
    <3>2. Store!WriteBack
      BY <2>2, WriteBackRefines DEF ReadFails
    <3> QED
      BY <3>1, <3>2, LastWithoutRefines DEF Store!Next, Store!Operation
  <2> QED
    BY <1>13, <2>1, <2>2 DEF AccessFails
<1>14. ASSUME NEW k \in Keys, UpdatePageFails(k) PROVE Store!Next
  <2>1. ASSUME UNCHANGED <<disk, fresh>>, last' = [last EXCEPT ![k] = disk[k]]
        PROVE  Store!Next
    <3>1. Store!Abandon(k, {})
      BY <1>14, <2>1, NothingDropped
         DEF UpdatePageFails, SlotsConsistent, Store!Abandon
    <3> QED
      BY <2>1, <3>1, NoWriteBackRefines DEF Store!Next, Store!Operation
  <2>2. ASSUME NEW V \in Victims, ReadFails(k, V),
               last' = [LastWithout(V) EXCEPT ![k] = disk[k]]
        PROVE  Store!Next
    <3>a. k \in editing /\ k \notin fresh
      BY <1>14 DEF UpdatePageFails, SlotsConsistent
    <3>b. (fresh \ (V \cap fresh)) \ {k} = fresh \ V
      BY <3>a
    <3>1. Store!Abandon(k, V \cap fresh)
      BY <1>14, <2>2, <3>a, <3>b, LastWithoutRefines
         DEF UpdatePageFails, ReadFails, Store!Abandon
    <3>2. Store!WriteBack
      BY <2>2, WriteBackRefines DEF ReadFails
    <3> QED
      BY <3>1, <3>2, LastWithoutRefines DEF Store!Next, Store!Operation
  <2> QED
    BY <1>14, <2>1, <2>2 DEF UpdatePageFails, VictimFlushFails
<1>15. ASSUME NEW k \in Keys, Release(k) PROVE Store!Next
  <2>1. Store!Release(k)
    BY <1>15 DEF Release, historyVars, Store!Release
  <2> QED
    BY <1>15, <2>1, NoWriteBackRefines DEF Release, Store!Next, Store!Operation
<1>16. CASE StartBatch
  BY <1>16, Stutter DEF StartBatch, callerVars, historyVars
<1>17. CASE Restart
  BY <1>17 DEF Restart, Store!Next, Store!Restart
<1>18. CASE UNCHANGED vars
  BY <1>18, Stutter DEF vars, callerVars, historyVars
<1> QED
  BY <1>1, <1>2, <1>3, <1>4, <1>5, <1>6, <1>7, <1>8, <1>10, <1>11, <1>12,
     <1>13, <1>14, <1>15, <1>16, <1>17, <1>18 DEF Next

(* The buffer pool, with its evictions, failures and restarts, implements the
   page store its callers rely on. *)
THEOREM Refinement == Spec => ImplementsPageStore
<1>1. Init => Store!Init
  BY DEF Init, Store!Init
<1> QED
  BY <1>1, StepRefines, Invariance, PTL DEF Spec, ImplementsPageStore, Store!Spec
=============================================================================
