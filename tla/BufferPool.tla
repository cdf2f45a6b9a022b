----------------------------- MODULE BufferPool -----------------------------
(***************************************************************************)
(* HeapBufferPoolManager, the page files below it and the background       *)
(* writer above it.                                                        *)
(*                                                                         *)
(* Every method of the pool runs under its mutex, so a method is one       *)
(* action.  A caller owns its page through the lock of its structure       *)
(* (DiskHashIndex.mu, DiskBTreeIndex.mu, DefaultCatalogManager.mu): it     *)
(* gets the page, changes its bytes IN PLACE outside the pool's mutex and  *)
(* then calls UpdatePage, so evictions and flushes can come in between.    *)
(* (Table files have no such lock; TableHeap models them.)                 *)
(*                                                                         *)
(* The bytes a caller holds are the slot's own bytes as long as the slot   *)
(* stays in the pool: `shared' is the set of pages for which the caller's  *)
(* copy and the slot's page are the same object.                           *)
(*                                                                         *)
(* The victim is any page the replacer knows: the pool is written against  *)
(* the Replacer interface, and LRUReplacer and ClockReplacer are shown to  *)
(* implement it in their own modules.  usageCount is never read by the     *)
(* code and is left out.                                                   *)
(***************************************************************************)
EXTENDS Integers, FiniteSets

CONSTANTS Keys,       \* page keys (file, page number)
          Contents,   \* possible bytes of a valid page
          NoPage,     \* no such page: Read would fail
          PoolSize,   \* poolSize
          BatchSize,  \* batchSize of the background writer
          MaxFaults   \* bound on the I/O errors of a behaviour

ASSUME KeysAssumption == IsFiniteSet(Keys)
ASSUME NoPageAssumption == NoPage \notin Contents
ASSUME PoolSizeAssumption == PoolSize \in Nat \ {0}
ASSUME BatchSizeAssumption == BatchSize \in Nat \ {0}
ASSUME MaxFaultsAssumption == MaxFaults \in Nat

VARIABLES pageTable,  \* the keys that have a slot
          page,       \* page[k]: the bytes of the slot's page
          dirty,      \* slots with dirty = true
          pinned,     \* slots with pinned = true
          evictable,  \* keys the replacer knows
          disk,       \* disk[k]: the bytes in the page file
          work,       \* work[k]: the bytes the page's owner holds
          shared,     \* owner's bytes and slot's bytes are one object
          editing,    \* changed in place, UpdatePage not called yet
          batch,      \* DirtyPages() snapshot still to flush
          flushed,    \* successful flushes of the current batch
          faults,     \* I/O errors so far
          last,       \* history: last committed contents
          fresh       \* history: created by NewPage, not updated since

poolVars == <<pageTable, page, dirty, pinned, evictable>>
callerVars == <<work, shared, editing>>
writerVars == <<batch, flushed>>
historyVars == <<last, fresh>>
vars == <<poolVars, disk, callerVars, writerVars, faults, historyVars>>

Bytes == Contents \cup {NoPage}

Init ==
  /\ pageTable = {}
  /\ page = [k \in Keys |-> NoPage]
  /\ dirty = {}
  /\ pinned = {}
  /\ evictable = {}
  /\ disk = [k \in Keys |-> NoPage]
  /\ work = [k \in Keys |-> NoPage]
  /\ shared = {}
  /\ editing = {}
  /\ batch = {}
  /\ flushed = 0
  /\ faults = 0
  /\ last = [k \in Keys |-> NoPage]
  /\ fresh = {}

-----------------------------------------------------------------------------
(* The private helpers of the pool. *)

\* An I/O error happens.
Fault == faults < MaxFaults /\ faults' = faults + 1

\* touch: a slot that is not pinned is (re)pushed to the replacer.
TouchPinnedToo(E, k) == E \cup {k}
Touch(E, k) == IF k \in pinned THEN E ELSE E \cup {k}

\* ensureSpaceLocked: the slots that may have to go to make room for one.
VictimsOneLate ==
  IF Cardinality(pageTable) <= PoolSize THEN {{}} ELSE {{v} : v \in evictable}
Victims ==
  IF Cardinality(pageTable) < PoolSize THEN {{}} ELSE {{v} : v \in evictable}

\* flushSlotLocked: the files after the dirty slots of S were written.
WriteBackNothing(S) == disk
WriteBack(S) == [k \in Keys |-> IF k \in S \cap dirty THEN page[k] ELSE disk[k]]

\* The committed contents once the slots of V are gone: a fresh page was
\* never written, so the file's old contents show again.
LastWithout(V) ==
  [k \in Keys |-> IF k \in V \cap fresh THEN disk[k] ELSE last[k]]

\* The slots of V leave the pool, a slot with page pg enters it for key k.
Replace(V, k, pg) ==
  /\ pageTable' = (pageTable \ V) \cup {k}
  /\ page' = [j \in Keys |-> IF j = k THEN pg
                             ELSE IF j \in V THEN NoPage ELSE page[j]]
  /\ disk' = WriteBack(V)

-----------------------------------------------------------------------------
(* Methods of the pool, each under its mutex. *)

GetPageHit(k) ==
  /\ k \in pageTable \ editing
  /\ work' = [work EXCEPT ![k] = page[k]]
  /\ shared' = shared \cup {k}
  /\ evictable' = Touch(evictable, k)
  /\ UNCHANGED <<pageTable, page, dirty, pinned, disk, editing,
                 writerVars, faults, historyVars>>

GetPageMiss(k) ==
  /\ k \notin pageTable \cup editing
  /\ disk[k] # NoPage
  /\ \E V \in Victims :
       /\ Replace(V, k, disk[k])
       /\ work' = [work EXCEPT ![k] = disk[k]]
       /\ shared' = (shared \ V) \cup {k}
       /\ dirty' = dirty \ V
       /\ evictable' = (evictable \ V) \cup {k}
       /\ last' = LastWithout(V)
       /\ fresh' = fresh \ V
  /\ UNCHANGED <<pinned, editing, writerVars, faults>>

\* The new slot is NOT dirty (NewBufferSlot): nothing will write it before
\* somebody calls UpdatePage.
NewPage(k, pg) ==
  /\ k \notin pageTable \cup editing
  /\ \E V \in Victims :
       /\ Replace(V, k, pg)
       /\ work' = [work EXCEPT ![k] = pg]
       /\ shared' = (shared \ V) \cup {k}
       /\ dirty' = dirty \ V
       /\ evictable' = (evictable \ V) \cup {k}
       /\ last' = [LastWithout(V) EXCEPT ![k] = pg]
       /\ fresh' = (fresh \ V) \cup {k}
  /\ UNCHANGED <<pinned, editing, writerVars, faults>>

\* The owner changes the bytes it holds, outside the pool's mutex.
EditInPlace(k, pg) ==
  /\ work[k] # NoPage
  /\ work' = [work EXCEPT ![k] = pg]
  /\ page' = IF k \in shared THEN [page EXCEPT ![k] = pg] ELSE page
  /\ editing' = editing \cup {k}
  /\ UNCHANGED <<pageTable, dirty, pinned, evictable, disk, shared,
                 writerVars, faults, historyVars>>

\* UpdatePage on a resident page; the owner does not use its copy afterwards.
UpdatePageHitKeepsClean(k) ==
  /\ k \in editing \cap pageTable
  /\ page' = [page EXCEPT ![k] = work[k]]
  /\ evictable' = Touch(evictable, k)
  /\ work' = [work EXCEPT ![k] = NoPage]
  /\ shared' = shared \ {k}
  /\ editing' = editing \ {k}
  /\ last' = [last EXCEPT ![k] = work[k]]
  /\ fresh' = fresh \ {k}
  /\ UNCHANGED <<pageTable, dirty, pinned, disk, writerVars, faults>>
UpdatePageHit(k) ==
  /\ k \in editing \cap pageTable
  /\ page' = [page EXCEPT ![k] = work[k]]
  /\ dirty' = dirty \cup {k}
  /\ evictable' = Touch(evictable, k)
  /\ work' = [work EXCEPT ![k] = NoPage]
  /\ shared' = shared \ {k}
  /\ editing' = editing \ {k}
  /\ last' = [last EXCEPT ![k] = work[k]]
  /\ fresh' = fresh \ {k}
  /\ UNCHANGED <<pageTable, pinned, disk, writerVars, faults>>

\* UpdatePage on a page that was evicted meanwhile: it is read again from
\* the file (which must succeed) and its bytes are replaced.
UpdatePageMissKeepsFile(k) ==
  /\ k \in editing \ pageTable
  /\ disk[k] # NoPage
  /\ \E V \in Victims :
       /\ Replace(V, k, disk[k])
       /\ work' = [work EXCEPT ![k] = NoPage]
       /\ shared' = shared \ V
       /\ editing' = editing \ {k}
       /\ dirty' = (dirty \ V) \cup {k}
       /\ evictable' = (evictable \ V) \cup {k}
       /\ last' = [LastWithout(V) EXCEPT ![k] = work[k]]
       /\ fresh' = fresh \ V
  /\ UNCHANGED <<pinned, writerVars, faults>>
UpdatePageMiss(k) ==
  /\ k \in editing \ pageTable
  /\ disk[k] # NoPage
  /\ \E V \in Victims :
       /\ Replace(V, k, work[k])
       /\ work' = [work EXCEPT ![k] = NoPage]
       /\ shared' = shared \ V
       /\ editing' = editing \ {k}
       /\ dirty' = (dirty \ V) \cup {k}
       /\ evictable' = (evictable \ V) \cup {k}
       /\ last' = [LastWithout(V) EXCEPT ![k] = work[k]]
       /\ fresh' = fresh \ V
  /\ UNCHANGED <<pinned, writerVars, faults>>

PinPageHit(k) ==
  /\ k \in pageTable
  /\ pinned' = pinned \cup {k}
  /\ evictable' = evictable \ {k}
  /\ UNCHANGED <<pageTable, page, dirty, disk, callerVars,
                 writerVars, faults, historyVars>>

PinPageMiss(k) ==
  /\ k \notin pageTable
  /\ disk[k] # NoPage
  /\ \E V \in Victims :
       /\ Replace(V, k, disk[k])
       /\ pinned' = pinned \cup {k}
       /\ shared' = shared \ V
       /\ dirty' = dirty \ V
       /\ evictable' = evictable \ V
       /\ last' = LastWithout(V)
       /\ fresh' = fresh \ V
  /\ UNCHANGED <<work, editing, writerVars, faults>>

UnpinPageForgets(k) ==
  /\ k \in pageTable \cap pinned
  /\ pinned' = pinned \ {k}
  /\ UNCHANGED <<pageTable, page, dirty, evictable, disk, callerVars,
                 writerVars, faults, historyVars>>
UnpinPage(k) ==
  /\ k \in pageTable \cap pinned
  /\ pinned' = pinned \ {k}
  /\ evictable' = evictable \cup {k}
  /\ UNCHANGED <<pageTable, page, dirty, disk, callerVars,
                 writerVars, faults, historyVars>>

\* flushSlotLocked on the slots of S, then SetDirty(false).
FlushSlots(S) ==
  /\ disk' = WriteBack(S)
  /\ dirty' = dirty \ S
  /\ UNCHANGED <<pageTable, page, pinned, evictable, callerVars, historyVars>>

FlushPage(k) ==
  /\ k \in dirty
  /\ \/ FlushSlots({k}) /\ UNCHANGED faults
     \/ Fault /\ UNCHANGED <<disk, poolVars, callerVars, historyVars>>
  /\ UNCHANGED writerVars

\* FlushAllPages visits the slots in an arbitrary order and returns at the
\* first write that fails.
FlushAllClearsFirst ==
  /\ dirty # {}
  /\ \/ FlushSlots(dirty) /\ UNCHANGED faults
     \/ /\ \E S \in SUBSET dirty : S # dirty /\ disk' = WriteBack(S)
        /\ Fault
        /\ dirty' = {}
        /\ UNCHANGED <<pageTable, page, pinned, evictable, callerVars, historyVars>>
  /\ UNCHANGED writerVars
FlushAllPages ==
  /\ dirty # {}
  /\ \/ FlushSlots(dirty) /\ UNCHANGED faults
     \/ \E S \in SUBSET dirty : S # dirty /\ FlushSlots(S) /\ Fault
  /\ UNCHANGED writerVars

-----------------------------------------------------------------------------
(* Error paths that still change the pool. *)

\* ensureSpaceLocked took a dirty victim from the replacer, then its flush
\* failed: the slot stays in the pool, unknown to the replacer.
VictimFlushFails ==
  /\ Cardinality(pageTable) >= PoolSize
  /\ Fault
  /\ \E v \in evictable \cap dirty : evictable' = evictable \ {v}
  /\ UNCHANGED <<pageTable, page, dirty, disk, shared, fresh>>

\* ensureSpaceLocked made room by evicting V, then page k cannot be read.
ReadFails(k, V) ==
  /\ IF disk[k] = NoPage THEN UNCHANGED faults ELSE Fault
  /\ pageTable' = pageTable \ V
  /\ page' = [j \in Keys |-> IF j \in V THEN NoPage ELSE page[j]]
  /\ disk' = WriteBack(V)
  /\ shared' = shared \ V
  /\ dirty' = dirty \ V
  /\ evictable' = evictable \ V
  /\ fresh' = fresh \ V

\* GetPage or PinPage returns an error (NewPage: only the first way).
AccessFails(k) ==
  /\ k \notin pageTable
  /\ \/ VictimFlushFails /\ UNCHANGED last
     \/ \E V \in Victims : ReadFails(k, V) /\ last' = LastWithout(V)
  /\ UNCHANGED <<pinned, work, editing, writerVars>>

\* UpdatePage returns an error; the owner gives its edit up.
UpdatePageFails(k) ==
  /\ k \in editing \ pageTable
  /\ \/ /\ Victims = {}                                  \* ErrNoVictim
        /\ last' = [last EXCEPT ![k] = disk[k]]
        /\ UNCHANGED <<pageTable, page, dirty, evictable, disk, shared,
                       fresh, faults>>
     \/ VictimFlushFails /\ last' = [last EXCEPT ![k] = disk[k]]
     \/ \E V \in Victims :
          /\ ReadFails(k, V)
          /\ last' = [LastWithout(V) EXCEPT ![k] = disk[k]]
  /\ work' = [work EXCEPT ![k] = NoPage]
  /\ editing' = editing \ {k}
  /\ UNCHANGED <<pinned, writerVars>>

-----------------------------------------------------------------------------
(* The owner, the background writer, the process. *)

\* The owner returns without having changed the page.
Release(k) ==
  /\ work[k] # NoPage
  /\ k \notin editing
  /\ work' = [work EXCEPT ![k] = NoPage]
  /\ shared' = shared \ {k}
  /\ UNCHANGED <<poolVars, disk, editing, writerVars, faults, historyVars>>

\* flushBatch: a snapshot of the dirty slots, ...
StartBatch ==
  /\ batch = {}
  /\ dirty # {}
  /\ batch' = dirty
  /\ flushed' = 0
  /\ UNCHANGED <<poolVars, disk, callerVars, faults, historyVars>>

\* ... then one FlushPage per element, until batchSize of them succeeded.
FlushBatchStep ==
  \E k \in batch :
    \/ /\ FlushSlots({k})
       /\ batch' = IF flushed + 1 >= BatchSize THEN {} ELSE batch \ {k}
       /\ flushed' = IF batch' = {} THEN 0 ELSE flushed + 1
       /\ UNCHANGED faults
    \/ /\ k \in dirty
       /\ Fault
       /\ batch' = batch \ {k}
       /\ UNCHANGED <<flushed, disk, poolVars, callerVars, historyVars>>

\* The process ends (crash, or exit after a last FlushAllPages) and is
\* started again with an empty pool over the same files.
Restart ==
  /\ pageTable' = {}
  /\ page' = [k \in Keys |-> NoPage]
  /\ dirty' = {}
  /\ pinned' = {}
  /\ evictable' = {}
  /\ work' = [k \in Keys |-> NoPage]
  /\ shared' = {}
  /\ editing' = {}
  /\ batch' = {}
  /\ flushed' = 0
  /\ last' = disk
  /\ fresh' = {}
  /\ UNCHANGED <<disk, faults>>

Next ==
  \/ \E k \in Keys :
       \/ GetPageHit(k) \/ GetPageMiss(k)
       \/ UpdatePageHit(k) \/ UpdatePageMiss(k)
       \/ PinPageHit(k) \/ PinPageMiss(k) \/ UnpinPage(k)
       \/ FlushPage(k)
       \/ AccessFails(k) \/ UpdatePageFails(k)
       \/ Release(k)
  \/ \E k \in Keys, pg \in Contents : NewPage(k, pg) \/ EditInPlace(k, pg)
  \/ FlushAllPages
  \/ StartBatch
  \/ FlushBatchStep
  \/ Restart

Spec == Init /\ [][Next]_vars

\* The checkpointer's ticker calls FlushAllPages every 5 s for as long as
\* the server runs.
Checkpoints == WF_vars(FlushAllPages)

-----------------------------------------------------------------------------
(* Properties. *)

TypeOK ==
  /\ pageTable \subseteq Keys
  /\ page \in [Keys -> Bytes]
  /\ dirty \subseteq Keys
  /\ pinned \subseteq Keys
  /\ evictable \subseteq Keys
  /\ disk \in [Keys -> Bytes]
  /\ work \in [Keys -> Bytes]
  /\ shared \subseteq Keys
  /\ editing \subseteq Keys
  /\ batch \subseteq Keys
  /\ flushed \in 0 .. BatchSize - 1
  /\ faults \in 0 .. MaxFaults
  /\ last \in [Keys -> Bytes]
  /\ fresh \subseteq Keys

\* What GetPage(k) would return now.
View(k) == IF k \in pageTable THEN page[k] ELSE disk[k]

(* GetPage never returns stale bytes: whatever was evicted, reloaded or
   flushed since, a page nobody is editing reads as its last UpdatePage
   left it (GetPage, UpdatePage and ensureSpaceLocked together). *)
NoStaleRead == \A k \in Keys \ editing : View(k) = last[k]

(* dirty = false can be trusted: a page that is neither dirty nor fresh nor
   under edit has its last committed bytes in its file, so evicting it
   without a write (ensureSpaceLocked) and restarting lose nothing. *)
CleanIsDurable ==
  \A k \in Keys \ (dirty \cup fresh \cup editing) : disk[k] = last[k]

(* len(pageTable) never exceeds poolSize. *)
PoolBound == Cardinality(pageTable) <= PoolSize

(* The flags of the slots agree with the page table and the replacer: a
   pinned page keeps its slot and is never a candidate for eviction, a
   dirty page is resident, a page made by NewPage is not dirty (touch,
   PinPage, UnpinPage, ensureSpaceLocked). *)
SlotsConsistent ==
  /\ dirty \cup pinned \cup evictable \cup fresh \subseteq pageTable
  /\ evictable \cap pinned = {}
  /\ fresh \cap dirty = {}

(* The pool keeps its books: bounded, with flags that describe resident slots
   only, after every method and every error path. *)
PoolConsistent == SlotsConsistent /\ PoolBound

(* Evictions and flushes never separate a dirty slot from the bytes its
   owner is changing: only a clean slot is replaced by a second copy of its
   page, so no flush can overwrite the file with an older copy. *)
OwnerSeesDirtySlot ==
  \A k \in Keys :
    /\ k \in pageTable => page[k] # NoPage
    /\ k \in editing => work[k] # NoPage
    /\ k \in shared => k \in pageTable /\ work[k] = page[k]
    /\ k \in dirty /\ work[k] # NoPage => k \in shared

(* What UpdatePage has committed to a dirty slot reaches the page's file as
   long as the checkpointer keeps ticking, though FlushAllPages stops at the
   first error, flushBatch after batchSize slots, and evictions write and
   reload slots in between: at some later time the file holds the committed
   bytes.  Two things excuse it: the owner edits the page again (the
   UpdatePage that ends the edit starts a new wait), and the process ends,
   after which the file's bytes are the committed ones (last' = disk). *)
DirtyIsFlushed ==
  \A k \in Keys :
    k \in dirty \ editing ~> disk[k] = last[k] \/ k \in editing

(* Every page that is not pinned can be evicted, but for one per failed
   write-back: ensureSpaceLocked has taken such a victim out of the replacer
   and does not push it again, so ErrNoVictim ("all pages pinned") can come
   from write errors alone. *)
CandidatesLostOnlyToErrors ==
  Cardinality(pageTable \ (pinned \cup evictable)) <= faults

\* The pool implements the page store its callers rely on.
Store == INSTANCE PageStore WITH store <- last, stable <- disk

(* Every step of the pool, evictions and error paths included, is a step of
   the abstract page store. *)
ImplementsPageStore == Store!Spec
=============================================================================
