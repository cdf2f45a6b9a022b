------------------------------ MODULE TableHeap ------------------------------
(***************************************************************************)
(* TableHeap: the rows of one table, stored in the pages of its file.      *)
(*                                                                         *)
(* Every statement makes a TableHeap of its own over the TableDefinition   *)
(* the analyzer read from the catalog, and nothing locks the table: the    *)
(* steps of sessions interleave between any two calls to the pool, and     *)
(* inside HeapPage.Write, whose header reads and writes are not atomic.    *)
(*                                                                         *)
(* A page is the sequence of its rows (HeapPage keeps every accepted       *)
(* record, see HeapPage.RecordsKept); page objects have identities, because*)
(* a session keeps using the object it got when the pool evicts the page   *)
(* and reads it into a second object.                                      *)
(*                                                                         *)
(* The pool is the one of BufferPool, reduced to this table's file: which  *)
(* pages are evicted depends on the traffic of other files and is left     *)
(* open.                                                                   *)
(***************************************************************************)
EXTENDS Integers, Sequences, FiniteSets, SequencesExt

CONSTANTS Inserters,     \* sessions that run INSERTs
          Readers,       \* sessions that run SELECTs
          Rows,          \* rows; each is inserted at most once
          Torn,          \* a slot two concurrent Writes left behind
          Objects,       \* identities of page objects
          None,
          PageCapacity,  \* rows per page
          MaxPages,      \* bound on the pages of the table
          Evictions,     \* whether the pool is under pressure
          MaxRestarts    \* bound on restarts

ASSUME PageCapacityAssumption == PageCapacity \in Nat \ {0}
ASSUME MaxPagesAssumption == MaxPages \in Nat \ {0}
ASSUME EvictionsAssumption == Evictions \in BOOLEAN
ASSUME MaxRestartsAssumption == MaxRestarts \in Nat
ASSUME NoneAssumption == None \notin Objects

VARIABLES object,        \* object[o]: the rows of page object o
          pageTable,     \* pageTable[p]: the object of page p, or None
          dirty,         \* pages whose slot is dirty
          disk,          \* disk[p]: the rows of page p in the file, or None
          pagesCount,    \* PagesCount of the catalog's TableDefinition
          savedCount,    \* the same in the catalog's file
          session,       \* the state of each session, see Idle
          acked,         \* history: <<page, slot, row>> of finished INSERTs
          lost,          \* history: pages dropped before they were in the file
          restarts

vars == <<object, pageTable, dirty, disk, pagesCount, savedCount, session,
          acked, lost, restarts>>

Sessions == Inserters \cup Readers
Pages == 0 .. MaxPages - 1
Page == UNION {[1 .. n -> Rows \cup {Torn}] : n \in 0 .. PageCapacity}
Tid == Pages \X Nat

ASSUME NonePageAssumption == None \notin Page

\* pc: next step; row: the row to insert; count: the PagesCount the analyzer
\* saw; page, obj: the page at hand; slotID, header: Size() and the slot count
\* Write read; tids, seen: what a scan collected; owed: history, the INSERTs
\* acknowledged before the SELECT was analyzed.
Idle == [pc |-> "idle", row |-> None, count |-> 0, page |-> 0, obj |-> None,
         slotID |-> 0, header |-> 0, tids |-> {}, seen |-> {}, owed |-> {}]

Init ==
  /\ object = [o \in Objects |-> <<>>]
  /\ pageTable = [p \in Pages |-> None]
  /\ dirty = {}
  /\ disk = [p \in Pages |-> None]
  /\ pagesCount = 0
  /\ savedCount = 0
  /\ session = [s \in Sessions |-> Idle]
  /\ acked = {}
  /\ lost = {}
  /\ restarts = 0

-----------------------------------------------------------------------------
(* The buffer pool, as far as this table is concerned. *)

\* Objects nobody can reach: the pool and the sessions hold the others.
Free == {o \in Objects : /\ \A p \in Pages : pageTable[p] # o
                         /\ \A s \in Sessions : session[s].obj # o}

\* GetPage fails for a page that is neither resident nor in the file.
CanGet(p) == pageTable[p] # None \/ disk[p] # None

\* GetPage(p) returns o.
Get(p, o) ==
  \/ /\ pageTable[p] # None
     /\ o = pageTable[p]
     /\ UNCHANGED <<object, pageTable>>
  \/ /\ pageTable[p] = None
     /\ disk[p] # None
     /\ o \in Free
     /\ object' = [object EXCEPT ![o] = disk[p]]
     /\ pageTable' = [pageTable EXCEPT ![p] = o]

\* The file after the pages of S were flushed.
Flushed(S) ==
  [p \in Pages |-> IF p \in S \cap dirty THEN object[pageTable[p]] ELSE disk[p]]

\* The TIDs of a page with these rows.
TidsOf(p, rows) == {<<p, i>> : i \in 0 .. Len(rows) - 1}

-----------------------------------------------------------------------------
(* INSERT. *)

\* The analyzer reads the TableDefinition; InsertRow starts at page 0.
Analyze(s, r) ==
  /\ session[s].pc = "idle"
  /\ \A t \in Sessions : session[t].row # r
  /\ \A a \in acked : a[3] # r
  /\ session' = [session EXCEPT ![s].pc = "try", ![s].row = r,
                                ![s].count = pagesCount, ![s].page = 0]
  /\ UNCHANGED <<object, pageTable, dirty, disk, pagesCount, savedCount, acked, lost, restarts>>

\* tryInsertIntoPage: GetPage.  Any error moves InsertRow to the next page.
TryPage(s) ==
  /\ session[s].pc = "try"
  /\ session[s].page < session[s].count
  /\ \/ \E o \in Objects :
          /\ Get(session[s].page, o)
          /\ session' = [session EXCEPT ![s].pc = "size", ![s].obj = o]
     \/ /\ ~CanGet(session[s].page)
        /\ session' = [session EXCEPT ![s].page = session[s].page + 1]
        /\ UNCHANGED <<object, pageTable>>
  /\ UNCHANGED <<dirty, disk, pagesCount, savedCount, acked, lost, restarts>>

\* slotID := heapPage.Size()
ReadSize(s) ==
  /\ session[s].pc = "size"
  /\ session' = [session EXCEPT ![s].pc = "write",
                                ![s].slotID = Len(object[session[s].obj])]
  /\ UNCHANGED <<object, pageTable, dirty, disk, pagesCount, savedCount, acked, lost, restarts>>

\* HeapPage.Write reads the header and compares with the free space ...
WriteChecks(s) ==
  /\ session[s].pc = "write"
  /\ LET used == Len(object[session[s].obj]) IN
     \/ /\ used >= PageCapacity
        /\ session' = [session EXCEPT ![s].pc = "try", ![s].page = @ + 1,
                                      ![s].obj = None]
     \/ /\ used < PageCapacity
        /\ session' = [session EXCEPT ![s].pc = "store", ![s].header = used]
  /\ UNCHANGED <<object, pageTable, dirty, disk, pagesCount, savedCount, acked, lost, restarts>>

\* ... then stores record, slot and header by what it read: a slot another
\* session filled meanwhile is overwritten, or left with bytes of both.
WriteStores(s) ==
  /\ session[s].pc = "store"
  /\ LET o == session[s].obj
         h == session[s].header
     IN  \E r \in {session[s].row} \cup (IF Len(object[o]) > h THEN {Torn} ELSE {}) :
           object' = [object EXCEPT ![o] = Append(SubSeq(@, 1, h), r)]
  /\ session' = [session EXCEPT ![s].pc = "update"]
  /\ UNCHANGED <<pageTable, dirty, disk, pagesCount, savedCount, acked, lost, restarts>>

\* UpdatePage: the session's object becomes the slot's page.  It fails when
\* the page was evicted and cannot be read; InsertRow goes to the next page.
Update(s) ==
  /\ session[s].pc = "update"
  /\ LET p == session[s].page IN
     \/ /\ CanGet(p)
        /\ pageTable' = [pageTable EXCEPT ![p] = session[s].obj]
        /\ dirty' = dirty \cup {p}
        /\ session' = [session EXCEPT ![s].pc = "ack", ![s].obj = None]
     \/ /\ ~CanGet(p)
        /\ session' = [session EXCEPT ![s].pc = "try", ![s].page = p + 1,
                                      ![s].obj = None]
        /\ UNCHANGED <<pageTable, dirty>>
  /\ UNCHANGED <<object, disk, pagesCount, savedCount, acked, lost, restarts>>

\* insertIntoNewPage: NewPage refuses a page that is already in the pool,
\* and does not mark the new one dirty.
NewPageOneBack(s) ==
  /\ session[s].pc = "try"
  /\ session[s].page = session[s].count
  /\ session[s].count \in Pages
  /\ LET p == IF session[s].count = 0 THEN 0 ELSE session[s].count - 1 IN
     \/ /\ pageTable[p] = None
        /\ \E o \in Free :
             /\ object' = [object EXCEPT ![o] = <<session[s].row>>]
             /\ pageTable' = [pageTable EXCEPT ![p] = o]
        /\ session' = [session EXCEPT ![s].pc = "count", ![s].slotID = 0]
     \/ /\ pageTable[p] # None
        /\ session' = [session EXCEPT ![s] = Idle]
        /\ UNCHANGED <<object, pageTable>>
  /\ UNCHANGED <<dirty, disk, pagesCount, savedCount, acked, lost, restarts>>
NewPage(s) ==
  /\ session[s].pc = "try"
  /\ session[s].page = session[s].count
  /\ session[s].count \in Pages
  /\ LET p == session[s].count IN
     \/ /\ pageTable[p] = None
        /\ \E o \in Free :
             /\ object' = [object EXCEPT ![o] = <<session[s].row>>]
             /\ pageTable' = [pageTable EXCEPT ![p] = o]
        /\ session' = [session EXCEPT ![s].pc = "count", ![s].slotID = 0]
     \/ /\ pageTable[p] # None
        /\ session' = [session EXCEPT ![s] = Idle]
        /\ UNCHANGED <<object, pageTable>>
  /\ UNCHANGED <<dirty, disk, pagesCount, savedCount, acked, lost, restarts>>

\* catalog.UpdatePagesCount: replaces the TableDefinition and appends it to
\* the catalog file (appendRecord flushes).
UpdateCountForgets(s) ==
  /\ session[s].pc = "count"
  /\ savedCount' = session[s].count + 1
  /\ session' = [session EXCEPT ![s].pc = "ack"]
  /\ UNCHANGED <<object, pageTable, dirty, disk, pagesCount, acked, lost, restarts>>
UpdatePagesCount(s) ==
  /\ session[s].pc = "count"
  /\ pagesCount' = session[s].count + 1
  /\ savedCount' = session[s].count + 1
  /\ session' = [session EXCEPT ![s].pc = "ack"]
  /\ UNCHANGED <<object, pageTable, dirty, disk, acked, lost, restarts>>

\* ExecuteWithContext: FlushAllPages, then the client gets its answer.
Acknowledge(s) ==
  /\ session[s].pc = "ack"
  /\ disk' = Flushed(Pages)
  /\ dirty' = {}
  /\ acked' = acked \cup {<<session[s].page, session[s].slotID, session[s].row>>}
  /\ session' = [session EXCEPT ![s] = Idle]
  /\ UNCHANGED <<object, pageTable, pagesCount, savedCount, lost, restarts>>

-----------------------------------------------------------------------------
(* SELECT: ScanTids, then ReadRow for each TID. *)

StartScanOneShort(s) ==
  /\ session[s].pc = "idle"
  /\ session' = [session EXCEPT ![s].pc = "scan", ![s].count = pagesCount - 1,
                                ![s].page = 0, ![s].owed = acked]
  /\ UNCHANGED <<object, pageTable, dirty, disk, pagesCount, savedCount, acked, lost, restarts>>
StartScan(s) ==
  /\ session[s].pc = "idle"
  /\ session' = [session EXCEPT ![s].pc = "scan", ![s].count = pagesCount,
                                ![s].page = 0, ![s].owed = acked]
  /\ UNCHANGED <<object, pageTable, dirty, disk, pagesCount, savedCount, acked, lost, restarts>>

ScanPageOneMore(s) ==
  /\ session[s].pc = "scan"
  /\ session[s].page < session[s].count
  /\ LET p == session[s].page IN
     \E o \in Objects :
       /\ Get(p, o)
       /\ session' = [session EXCEPT ![s].page = p + 1,
                                     ![s].tids = @ \cup {<<p, Len(object'[o])>>}
                                                   \cup TidsOf(p, object'[o])]
  /\ UNCHANGED <<dirty, disk, pagesCount, savedCount, acked, lost, restarts>>
\* A page that cannot be read is skipped without an error.
ScanPage(s) ==
  /\ session[s].pc = "scan"
  /\ session[s].page < session[s].count
  /\ LET p == session[s].page IN
     \/ \E o \in Objects :
          /\ Get(p, o)
          /\ session' = [session EXCEPT ![s].page = p + 1,
                                        ![s].tids = @ \cup TidsOf(p, object'[o])]
     \/ /\ ~CanGet(p)
        /\ session' = [session EXCEPT ![s].page = p + 1]
        /\ UNCHANGED <<object, pageTable>>
  /\ UNCHANGED <<dirty, disk, pagesCount, savedCount, acked, lost, restarts>>

\* ReadRow; an error ends the statement.  The order of the TIDs is left open.
ReadRow(s) ==
  /\ session[s].pc = "scan"
  /\ session[s].page >= session[s].count
  /\ \E tid \in session[s].tids :
       \/ \E o \in Objects :
            /\ Get(tid[1], o)
            /\ IF tid[2] < Len(object'[o])
               THEN session' = [session EXCEPT ![s].tids = @ \ {tid},
                                               ![s].seen = @ \cup {object'[o][tid[2] + 1]}]
               ELSE session' = [session EXCEPT ![s] = Idle]
       \/ /\ ~CanGet(tid[1])
          /\ session' = [session EXCEPT ![s] = Idle]
          /\ UNCHANGED <<object, pageTable>>
  /\ UNCHANGED <<dirty, disk, pagesCount, savedCount, acked, lost, restarts>>

\* The rows are returned to the client.
Return(s) ==
  /\ session[s].pc = "scan"
  /\ session[s].page >= session[s].count
  /\ session[s].tids = {}
  /\ session' = [session EXCEPT ![s] = Idle]
  /\ UNCHANGED <<object, pageTable, dirty, disk, pagesCount, savedCount, acked, lost, restarts>>

-----------------------------------------------------------------------------
(* The pool's other traffic, the background writer, the process. *)

Evict(p) ==
  /\ Evictions
  /\ pageTable[p] # None
  /\ disk' = Flushed({p})
  /\ dirty' = dirty \ {p}
  /\ pageTable' = [pageTable EXCEPT ![p] = None]
  /\ lost' = lost \cup {q \in {p} : disk'[q] = None}
  /\ UNCHANGED <<object, pagesCount, savedCount, session, acked, restarts>>

FlushPage(p) ==
  /\ p \in dirty
  /\ disk' = Flushed({p})
  /\ dirty' = dirty \ {p}
  /\ UNCHANGED <<object, pageTable, pagesCount, savedCount, session, acked, lost, restarts>>

Restart ==
  /\ restarts < MaxRestarts
  /\ restarts' = restarts + 1
  /\ pageTable' = [p \in Pages |-> None]
  /\ dirty' = {}
  /\ pagesCount' = savedCount
  /\ session' = [s \in Sessions |-> Idle]
  /\ object' = [o \in Objects |-> <<>>]
  /\ lost' = lost \cup {p \in Pages : pageTable[p] # None /\ disk[p] = None}
  /\ UNCHANGED <<disk, savedCount, acked>>

Next ==
  \/ \E s \in Inserters :
       \/ \E r \in Rows : Analyze(s, r)
       \/ TryPage(s) \/ ReadSize(s) \/ WriteChecks(s) \/ WriteStores(s)
       \/ Update(s) \/ NewPage(s) \/ UpdatePagesCount(s) \/ Acknowledge(s)
  \/ \E s \in Readers : StartScan(s) \/ ScanPage(s) \/ ReadRow(s) \/ Return(s)
  \/ \E p \in Pages : Evict(p) \/ FlushPage(p)
  \/ Restart

Spec == Init /\ [][Next]_vars

-----------------------------------------------------------------------------
(* Properties. *)

Session ==
  [pc : {"idle", "try", "size", "write", "store", "update", "count", "ack", "scan"},
   row : Rows \cup {None}, count : 0 .. MaxPages, page : 0 .. MaxPages,
   obj : Objects \cup {None}, slotID : Nat, header : Nat, tids : SUBSET Tid,
   seen : SUBSET (Rows \cup {Torn}), owed : SUBSET (Pages \X Nat \X Rows)]

TypeOK ==
  /\ object \in [Objects -> Page]
  /\ pageTable \in [Pages -> Objects \cup {None}]
  /\ dirty \subseteq Pages
  /\ disk \in [Pages -> Page \cup {None}]
  /\ pagesCount \in 0 .. MaxPages
  /\ savedCount \in 0 .. MaxPages
  /\ session \in [Sessions -> Session]
  /\ acked \subseteq Pages \X Nat \X Rows
  /\ lost \subseteq Pages
  /\ restarts \in 0 .. MaxRestarts

\* What GetPage(p) would return, None for an error.
View(p) == IF pageTable[p] # None THEN object[pageTable[p]] ELSE disk[p]

\* The row of a finished INSERT can be selected: its page is scanned and its
\* TID still leads to its row.
Selectable(a) ==
  /\ a[1] < pagesCount
  /\ View(a[1]) # None
  /\ a[2] < Len(View(a[1]))
  /\ View(a[1])[a[2] + 1] = a[3]

(* Every acknowledged INSERT can be selected. *)
AckedNeverLost == \A a \in acked : Selectable(a)

(* Every acknowledged INSERT can be selected, whatever is evicted and whenever
   the process restarts, unless its page was dropped before it was in the
   file: the loss of a page costs the rows of that page only. *)
AckedReadable == \A a \in acked : a[1] \notin lost => Selectable(a)

(* The TID of an acknowledged row, which the indexes keep, never leads to
   another row: it leads to its row, or to nothing. *)
TidNeverReused ==
  \A a \in acked :
    \A rows \in {View(a[1]), disk[a[1]]} \ {None} :
      a[2] < Len(rows) => rows[a[2] + 1] = a[3]

(* A SELECT returns every row acknowledged before it began, whatever is
   inserted or evicted while it scans, but for the rows of dropped pages. *)
SelectComplete ==
  [][\A s \in Readers : Return(s) =>
       \A a \in session[s].owed : a[1] \notin lost => a[3] \in session[s].seen]_vars

\* The slot of an INSERT between HeapPage.Write and UpdatePage: the row is in
\* the object of the session, the slot of the page is not yet dirty.
Unfinished(tid) ==
  \E s \in Inserters : /\ session[s].pc = "update"
                       /\ session[s].page = tid[1]
                       /\ session[s].slotID = tid[2]

(* A SELECT that found a TID can read it: no statement fails between ScanTids
   and ReadRow, unless the page is dropped in between, or is evicted while an
   INSERT has written that very slot and not yet called UpdatePage. *)
ScannedIsReadable ==
  \A s \in Readers : \A tid \in session[s].tids :
    tid[1] \notin lost =>
      /\ View(tid[1]) # None
      /\ tid[2] < Len(View(tid[1])) \/ Unfinished(tid)

(* A TID is good for ever: a scan can read the ones it found, and the ones an
   index keeps never lead to another row. *)
TidsStayValid == TidNeverReused /\ ScannedIsReadable
==============================================================================
