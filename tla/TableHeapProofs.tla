--------------------------- MODULE TableHeapProofs ---------------------------
(***************************************************************************)
(* With one INSERT at a time and any number of SELECTs, whatever the pool  *)
(* evicts and whenever the process restarts: an acknowledged row stays     *)
(* readable (AckedReadable), a TID never leads to another row              *)
(* (TidsStayValid) and a SELECT misses no row (SelectComplete).            *)
(*                                                                         *)
(* The hypothesis OneWriter is needed: two INSERTs that interleave inside  *)
(* HeapPage.Write overwrite each other's slot.                             *)
(***************************************************************************)
EXTENDS TableHeap, TLAPS

OneWriter == \A s, t \in Inserters : s = t

-----------------------------------------------------------------------------
(* The inductive invariant. *)

\* The row r is in the slot i of a page with these rows.
Stored(rows, i, r) == i < Len(rows) /\ rows[i + 1] = r

\* The catalog counts the pages that may hold acknowledged rows; the others
\* were never flushed.
Counted ==
  /\ savedCount = pagesCount
  /\ \A a \in acked : a[1] < pagesCount
  /\ \A p \in dirty : pageTable[p] # None /\ p < pagesCount
  /\ \A p \in Pages : p >= pagesCount => disk[p] = None

\* No two pages share an object.
Apart ==
  \A p, q \in Pages : pageTable[p] = pageTable[q] /\ pageTable[p] # None => p = q

\* The session has an object whose last row its page's slot may not have yet.
Ahead(s, p) == session[s].pc = "update" /\ session[s].page = p

\* A clean page is in the file as it is in the pool, or without the row of an
\* INSERT that has not called UpdatePage.
Clean ==
  \A p \in Pages :
    pageTable[p] # None /\ p \notin dirty /\ disk[p] # None =>
      \/ object[pageTable[p]] = disk[p]
      \/ \E s \in Inserters :
           /\ Ahead(s, p)
           /\ session[s].obj = pageTable[p]
           /\ disk[p] = SubSeq(object[pageTable[p]], 1, session[s].slotID)

\* Every copy of the page of an acknowledged row has the row.
Copies ==
  \A a \in acked :
    /\ disk[a[1]] # None => Stored(disk[a[1]], a[2], a[3])
    /\ pageTable[a[1]] # None => Stored(object[pageTable[a[1]]], a[2], a[3])

\* A page of the table that was not dropped can be read.
Present == \A p \in Pages : p < pagesCount /\ p \notin lost => View(p) # None

Holding == {"size", "write", "store", "update"}

\* What an INSERT knows at each of its steps: the pages the catalog counts,
Sees(s) ==
  /\ s \in Inserters \/ session[s].pc \in {"idle", "scan"}
  /\ session[s].pc \in Holding <=> session[s].obj # None
  /\ session[s].pc \in Holding \cup {"try", "count"} =>
       session[s].row \in Rows /\ session[s].count = pagesCount
  /\ session[s].pc = "try" => session[s].page <= session[s].count

\* that its object belongs to its page, and to no other,
Holds(s) ==
  session[s].pc \in Holding =>
    /\ session[s].page < session[s].count
    /\ \A q \in Pages : pageTable[q] = session[s].obj => q = session[s].page
    /\ session[s].page \in dirty => pageTable[session[s].page] = session[s].obj

\* that the object is what GetPage returns, until it is written,
Current(s) ==
  /\ session[s].pc \in {"size", "write", "store"} =>
       View(session[s].page) \in {None, object[session[s].obj]}
  /\ session[s].pc \in {"write", "store"} =>
       session[s].slotID = Len(object[session[s].obj])
  /\ session[s].pc = "store" =>
       /\ session[s].header = Len(object[session[s].obj])
       /\ session[s].header < PageCapacity

\* and then that it is at most one row ahead,
Written(s) ==
  session[s].pc = "update" =>
    /\ session[s].slotID + 1 = Len(object[session[s].obj])
    /\ object[session[s].obj][session[s].slotID + 1] = session[s].row
    /\ View(session[s].page) \in
         {None, object[session[s].obj],
          SubSeq(object[session[s].obj], 1, session[s].slotID)}

\* and at last that the row is in its slot, or the page was dropped.
Placed(s) ==
  /\ session[s].pc = "count" =>
       /\ session[s].page = session[s].count
       /\ session[s].count \in Pages
       /\ session[s].page \notin lost => View(session[s].page) # None
  /\ session[s].pc = "ack" =>
       session[s].row \in Rows /\ session[s].page < pagesCount
  /\ session[s].pc \in {"count", "ack"} =>
       \/ View(session[s].page) = None
       \/ Stored(View(session[s].page), session[s].slotID, session[s].row)

WriterOK(s) == Sees(s) /\ Holds(s) /\ Current(s) /\ Written(s) /\ Placed(s)

\* What a SELECT has found: every acknowledged row it owes from the pages it
\* has passed is read, or its TID is still to be read.
ScanOK(s) ==
  /\ session[s].pc # "scan" => session[s].tids = {}
  /\ session[s].pc = "scan" =>
       /\ session[s].count <= pagesCount
       /\ session[s].owed \subseteq acked
       /\ \A a \in session[s].owed :
            /\ a[1] < session[s].count
            /\ a[1] < session[s].page /\ a[1] \notin lost =>
                 <<a[1], a[2]>> \in session[s].tids \/ a[3] \in session[s].seen
  /\ \A tid \in session[s].tids :
       /\ tid[1] < pagesCount
       /\ tid[1] \notin lost =>
            tid[2] < Len(View(tid[1])) \/ Unfinished(tid)

Frame == UNCHANGED <<dirty, disk, pagesCount, savedCount, acked, lost, restarts>>

Pool == Counted /\ Apart /\ Clean /\ Copies /\ Present
Inv ==
  /\ TypeOK
  /\ Pool
  /\ \A s \in Sessions : WriterOK(s) /\ ScanOK(s)

-----------------------------------------------------------------------------
(* Pages as sequences of rows. *)

LEMMA PageFacts ==
  ASSUME NEW x \in Page
  PROVE  /\ x \in Seq(Rows \cup {Torn})
         /\ Len(x) \in Nat
         /\ Len(x) <= PageCapacity
         /\ x # None
  <1>1. PICK n \in 0 .. PageCapacity : x \in [1 .. n -> Rows \cup {Torn}]
    BY DEF Page
  <1>2. n \in Nat
    BY PageCapacityAssumption
  <1>3. x \in Seq(Rows \cup {Torn}) /\ Len(x) = n
    BY <1>1, <1>2
  <1> QED
    BY <1>2, <1>3, PageCapacityAssumption, NonePageAssumption

LEMMA PageIntro ==
  ASSUME NEW x \in Seq(Rows \cup {Torn}), Len(x) <= PageCapacity
  PROVE  x \in Page
  <1>1. Len(x) \in 0 .. PageCapacity /\ x \in [1 .. Len(x) -> Rows \cup {Torn}]
    BY PageCapacityAssumption
  <1> QED
    BY <1>1 DEF Page

LEMMA EmptyPage == <<>> \in Page
  <1>1. <<>> \in Seq(Rows \cup {Torn}) /\ Len(<<>>) <= PageCapacity
    BY PageCapacityAssumption
  <1> QED
    BY <1>1, PageIntro

\* HeapPage.Write on a page with room keeps the rows and adds one.
LEMMA AppendPage ==
  ASSUME NEW x \in Page, Len(x) < PageCapacity, NEW r \in Rows \cup {Torn}
  PROVE  /\ Append(SubSeq(x, 1, Len(x)), r) = Append(x, r)
         /\ Append(x, r) \in Page
         /\ Len(Append(x, r)) = Len(x) + 1
         /\ Append(x, r)[Len(x) + 1] = r
         /\ SubSeq(Append(x, r), 1, Len(x)) = x
         /\ \A i \in Nat : i < Len(x) => Append(x, r)[i + 1] = x[i + 1]
  <1>1. x \in Seq(Rows \cup {Torn}) /\ Len(x) \in Nat /\ Len(x) <= PageCapacity
    BY PageFacts
  <1>2. SubSeq(x, 1, Len(x)) = x
    BY <1>1
  <1>3. /\ Append(x, r) \in Seq(Rows \cup {Torn})
        /\ Len(Append(x, r)) = Len(x) + 1
        /\ Append(x, r)[Len(x) + 1] = r
        /\ \A i \in 1 .. Len(x) : Append(x, r)[i] = x[i]
    BY <1>1
  <1>4. SubSeq(Append(x, r), 1, Len(x)) = x
    BY <1>1, <1>3
  <1>5. Len(Append(x, r)) <= PageCapacity
    BY <1>1, <1>3, PageCapacityAssumption
  <1>7. Append(x, r) \in Page
    BY <1>3, <1>5, PageIntro
  <1>6. \A i \in Nat : i < Len(x) => Append(x, r)[i + 1] = x[i + 1]
    BY <1>1, <1>3
  <1> QED
    BY <1>2, <1>3, <1>4, <1>6, <1>7

LEMMA PagesFacts == Pages \subseteq Nat /\ MaxPages \in Nat /\ 0 \in Pages
  BY MaxPagesAssumption DEF Pages

-----------------------------------------------------------------------------
(* GetPage changes nothing that a session can see. *)

LEMMA GetEffect ==
  ASSUME Inv, NEW p \in Pages, NEW o \in Objects, Get(p, o), Frame,
         \A s \in Inserters : session[s].pc = "update" => session'[s] = session[s]
  PROVE  /\ object' \in [Objects -> Page]
         /\ pageTable' \in [Pages -> Objects \cup {None}]
         /\ \A q \in Pages : q # p => pageTable'[q] = pageTable[q]
         /\ pageTable[p] = None \/ pageTable'[p] = pageTable[p]
         /\ pageTable'[p] = o
         /\ object'[o] = View(p) /\ View(p) # None
         /\ \A q \in Pages : View(q)' = View(q)
         /\ \A x \in Objects : x \notin Free => object'[x] = object[x]
         /\ pageTable[p] = o \/ o \in Free
         /\ Pool'
  <1> USE PagesFacts
  <1>0. /\ TypeOK /\ Counted /\ Apart /\ Clean /\ Copies /\ Present
        /\ object \in [Objects -> Page] /\ pageTable \in [Pages -> Objects \cup {None}]
        /\ disk \in [Pages -> Page \cup {None}] /\ None \notin Objects
        /\ None \notin Page
    BY NoneAssumption, NonePageAssumption DEF Inv, Pool, TypeOK
  <1>1. /\ object' \in [Objects -> Page]
        /\ pageTable' \in [Pages -> Objects \cup {None}]
        /\ \A q \in Pages : q # p => pageTable'[q] = pageTable[q]
        /\ pageTable[p] = None \/ pageTable'[p] = pageTable[p]
        /\ pageTable'[p] = o
        /\ object'[o] = View(p) /\ View(p) # None
        /\ pageTable[p] = o \/ o \in Free
        /\ \A x \in Objects : x \notin Free => object'[x] = object[x]
    BY <1>0 DEF Get, View, Frame
  <1>2. \A q \in Pages : pageTable[q] # None =>
          pageTable'[q] = pageTable[q] /\ object'[pageTable[q]] = object[pageTable[q]]
    BY <1>0, <1>1 DEF Free
  <1>3. \A q \in Pages : View(q)' = View(q)
    BY <1>0, <1>1, <1>2 DEF View, Frame
  <1>4. Counted'
    BY <1>0, <1>1, <1>2 DEF Counted, Frame, TypeOK
  <1>5. Apart'
    BY <1>0, <1>1, <1>2 DEF Apart, Free
  <1>6. Clean'
    <2> SUFFICES ASSUME NEW q \in Pages, pageTable'[q] # None, q \notin dirty,
                        disk[q] # None
                 PROVE  \/ object'[pageTable'[q]] = disk[q]
                        \/ \E s \in Inserters :
                             /\ Ahead(s, q)'
                             /\ session'[s].obj = pageTable'[q]
                             /\ disk[q] = SubSeq(object'[pageTable'[q]], 1, session'[s].slotID)
      BY DEF Clean, Frame
    <2>1. CASE pageTable[q] = None
      BY <1>0, <1>1, <2>1 DEF View
    <2>2. CASE pageTable[q] # None /\ object[pageTable[q]] = disk[q]
      BY <1>2, <2>2
    <2>3. CASE pageTable[q] # None /\ object[pageTable[q]] # disk[q]
      <3>1. PICK s \in Inserters :
              /\ Ahead(s, q)
              /\ session[s].obj = pageTable[q]
              /\ disk[q] = SubSeq(object[pageTable[q]], 1, session[s].slotID)
        BY <1>0, <2>3 DEF Clean
      <3>2. session'[s] = session[s]
        BY <3>1 DEF Ahead
      <3>3. pageTable'[q] = pageTable[q] /\ object'[pageTable'[q]] = object[pageTable[q]]
        BY <1>2, <2>3
      <3>4. /\ Ahead(s, q)'
            /\ session'[s].obj = pageTable'[q]
            /\ disk[q] = SubSeq(object'[pageTable'[q]], 1, session'[s].slotID)
        BY <3>1, <3>2, <3>3 DEF Ahead
      <3> QED
        BY <3>4
    <2> QED
      BY <2>1, <2>2, <2>3
  <1>7. Copies'
    <2> SUFFICES ASSUME NEW a \in acked
                 PROVE  /\ disk[a[1]] # None => Stored(disk[a[1]], a[2], a[3])
                        /\ pageTable'[a[1]] # None =>
                             Stored(object'[pageTable'[a[1]]], a[2], a[3])
      BY DEF Copies, Frame, Stored
    <2>1. a[1] \in Pages
      BY <1>0 DEF TypeOK
    <2> QED
      BY <1>0, <1>1, <1>2, <2>1 DEF Copies, View
  <1>8. Present'
    BY <1>0, <1>3 DEF Present, Frame
  <1> QED
    BY <1>1, <1>3, <1>4, <1>5, <1>6, <1>7, <1>8 DEF Pool

-----------------------------------------------------------------------------
(* Sessions that do not take the step. *)

\* The slot of tid can be read, or will be by the INSERT that fills it.
Readable(tid) == tid[2] < Len(View(tid[1])) \/ Unfinished(tid)

LEMMA ScanFrame ==
  ASSUME TypeOK, NEW s \in Sessions, ScanOK(s), session'[s] = session[s],
         pagesCount' \in Nat, pagesCount <= pagesCount',
         acked \subseteq acked', lost \subseteq lost',
         \A tid \in Tid : tid[1] < pagesCount /\ tid[1] \notin lost' /\ Readable(tid)
                           => Readable(tid)'
  PROVE  ScanOK(s)'
  <1>0. /\ session[s].tids \subseteq Tid /\ session[s].owed \subseteq Pages \X Nat \X Rows
        /\ session[s].count \in Nat /\ pagesCount \in Nat
    BY PagesFacts DEF TypeOK, Session
  <1>1. (session[s].pc # "scan" => session[s].tids = {})'
    BY DEF ScanOK
  <1>2. (session[s].pc = "scan" => session[s].count <= pagesCount)'
    BY <1>0 DEF ScanOK
  <1>3. (session[s].pc = "scan" => session[s].owed \subseteq acked)'
    BY <1>0 DEF ScanOK
  <1>4. (session[s].pc = "scan" => 
           \A a \in session[s].owed :
            /\ a[1] < session[s].count
            /\ a[1] < session[s].page /\ a[1] \notin lost =>
                 <<a[1], a[2]>> \in session[s].tids \/ a[3] \in session[s].seen)'
    BY <1>0 DEF ScanOK
  <1>5. ASSUME NEW tid \in session[s].tids
        PROVE  tid[1] < pagesCount' /\ (tid[1] \notin lost' => Readable(tid)')
    <2>1. tid \in Tid /\ tid[1] \in Nat
      BY <1>0, PagesFacts DEF Tid
    <2>2. tid[1] < pagesCount /\ (tid[1] \notin lost => Readable(tid))
      BY DEF ScanOK, Readable
    <2> QED
      BY <1>0, <2>1, <2>2
  <1>6. (\A tid \in session[s].tids : tid[1] < pagesCount /\ (tid[1] \notin lost => Readable(tid)))'
    BY <1>5
  <1> QED
    BY <1>1, <1>2, <1>3, <1>4, <1>6 DEF ScanOK, Readable

LEMMA WriterFrame ==
  ASSUME TypeOK, NEW s \in Sessions, WriterOK(s), session'[s] = session[s],
         pagesCount' = pagesCount, dirty' \subseteq dirty, lost \subseteq lost',
         session[s].obj # None => object'[session[s].obj] = object[session[s].obj],
         session[s].obj # None =>
           \A q \in Pages : pageTable'[q] = session[s].obj => pageTable[q] = session[s].obj,
         \A q \in dirty' : pageTable'[q] = pageTable[q],
         \A q \in Pages :
           \/ View(q)' = View(q)
           \/ View(q)' = None /\ q \in lost'
           \/ /\ session[s].pc = "update" /\ q = session[s].page
              /\ View(q)' = SubSeq(object[session[s].obj], 1, session[s].slotID)
  PROVE  WriterOK(s)'
  <1>0. /\ session[s].page \in Nat /\ session[s].count \in 0 .. MaxPages
        /\ pagesCount \in Nat /\ pagesCount <= MaxPages /\ session[s].slotID \in Nat
    BY PagesFacts DEF TypeOK, Session
  <1>1. session[s].pc \in Holding \cup {"count", "ack"} => session[s].page \in Pages
    BY <1>0, PagesFacts DEF WriterOK, Sees, Holds, Placed, Holding, Pages
  <1>2. Sees(s)'
    BY DEF WriterOK, Sees, Holding
  <1>3. Holds(s)'
    BY <1>1 DEF WriterOK, Holds, Sees, Holding
  <1>4. Current(s)'
    BY <1>1 DEF WriterOK, Current, Sees, Holding
  <1>5. Written(s)'
    BY <1>1 DEF WriterOK, Written, Sees, Holding
  <1>6. Placed(s)'
    BY <1>1 DEF WriterOK, Placed, Stored
  <1> QED
    BY <1>2, <1>3, <1>4, <1>5, <1>6 DEF WriterOK

LEMMA NoWriter ==
  ASSUME NEW t \in Sessions, WriterOK(t), session[t].pc \in {"idle", "scan"},
         session'[t] = session[t]
  PROVE  WriterOK(t)'
  BY DEF WriterOK, Sees, Holds, Current, Written, Placed, Holding

LEMMA Bystander ==
  ASSUME OneWriter, NEW s \in Inserters, NEW t \in Sessions, t # s,
         WriterOK(t), session'[t] = session[t]
  PROVE  WriterOK(t)'
  <1>1. session[t].pc \in {"idle", "scan"}
    BY DEF OneWriter, WriterOK, Sees
  <1> QED
    BY <1>1, NoWriter

\* A session that is not scanning has no TIDs.
LEMMA NoScan ==
  ASSUME NEW s, session'[s].pc # "scan", session'[s].tids = {}
  PROVE  ScanOK(s)'
  BY DEF ScanOK

\* A step that only changes sessions, and none between Write and UpdatePage.
LEMMA QuietPool ==
  ASSUME Inv, UNCHANGED <<object, pageTable>>, Frame,
         \A s \in Inserters : session[s].pc = "update" => session'[s] = session[s]
  PROVE  /\ Pool'
         /\ \A q \in Pages : View(q)' = View(q)
         /\ \A tid \in Tid : Readable(tid) => Readable(tid)'
  <1>1. Counted' /\ Apart' /\ Copies' /\ Present'
    BY DEF Inv, Pool, Counted, Apart, Copies, Present, View, Stored, Frame
  <1>2. Clean'
    <2> SUFFICES ASSUME NEW q \in Pages, pageTable[q] # None, q \notin dirty,
                        disk[q] # None, object[pageTable[q]] # disk[q]
                 PROVE  \E s \in Inserters :
                             /\ Ahead(s, q)'
                             /\ session'[s].obj = pageTable[q]
                             /\ disk[q] = SubSeq(object[pageTable[q]], 1, session'[s].slotID)
      BY DEF Clean, Frame
    <2>1. PICK s \in Inserters :
              /\ Ahead(s, q)
              /\ session[s].obj = pageTable[q]
              /\ disk[q] = SubSeq(object[pageTable[q]], 1, session[s].slotID)
      BY DEF Inv, Pool, Clean
    <2>2. session'[s] = session[s]
      BY <2>1 DEF Ahead
    <2> QED
      BY <2>1, <2>2 DEF Ahead
  <1>3. \A q \in Pages : View(q)' = View(q)
    BY DEF View, Frame
  <1>4. ASSUME NEW tid \in Tid, Readable(tid) PROVE Readable(tid)'
    <2>1. tid[1] \in Pages
      BY DEF Tid
    <2>2. CASE tid[2] < Len(View(tid[1]))
      BY <1>3, <2>1, <2>2 DEF Readable
    <2>3. CASE Unfinished(tid)
      BY <2>3 DEF Readable, Unfinished
    <2> QED
      BY <1>4, <2>2, <2>3 DEF Readable
  <1> QED
    BY <1>1, <1>2, <1>3, <1>4 DEF Pool

\* What is left to show when a session that is not between Write and
\* UpdatePage takes a quiet step.
LEMMA QuietStep ==
  ASSUME Inv, OneWriter, NEW s \in Inserters, UNCHANGED <<object, pageTable>>, Frame,
         session[s].pc # "update", NEW x \in Session,
         session' = [session EXCEPT ![s] = x],
         x.pc # "scan", x.tids = {}, WriterOK(s)'
  PROVE  Inv'
  <1>1. s \in Sessions /\ session \in [Sessions -> Session]
    BY DEF Sessions, Inv, TypeOK
  <1>2. session'[s] = x /\ \A t \in Sessions : t # s => session'[t] = session[t]
    BY <1>1
  <1>3. Pool' /\ \A tid \in Tid : Readable(tid) => Readable(tid)'
    BY <1>1, <1>2, QuietPool DEF Sessions
  <1>4. TypeOK'
    BY <1>1 DEF Inv, TypeOK, Frame
  <1>5. ASSUME NEW t \in Sessions PROVE WriterOK(t)' /\ ScanOK(t)'
    <2>1. CASE t = s
      BY <1>2, <2>1, NoScan
    <2>2. CASE t # s
      <3>1. TypeOK /\ WriterOK(t) /\ ScanOK(t) /\ session'[t] = session[t]
            /\ pagesCount \in Nat
        BY <1>2, <2>2, PagesFacts DEF Inv, TypeOK
      <3>2. WriterOK(t)'
        BY <2>2, <3>1, Bystander
      <3>3. ScanOK(t)'
        BY <1>3, <3>1, ScanFrame DEF Frame
      <3> QED
        BY <3>2, <3>3
    <2> QED
      BY <2>1, <2>2
  <1> QED
    BY <1>3, <1>4, <1>5 DEF Inv

-----------------------------------------------------------------------------
(* The steps of an INSERT. *)

\* The parts of Inv that the steps of s start from.
LEMMA Parts ==
  ASSUME Inv, NEW s \in Sessions
  PROVE  /\ session \in [Sessions -> Session] /\ session[s] \in Session
         /\ object \in [Objects -> Page]
         /\ pageTable \in [Pages -> Objects \cup {None}]
         /\ disk \in [Pages -> Page \cup {None}]
         /\ dirty \subseteq Pages
         /\ acked \subseteq Pages \X Nat \X Rows
         /\ lost \subseteq Pages
         /\ pagesCount \in Nat /\ pagesCount <= MaxPages
         /\ Sees(s) /\ Holds(s) /\ Current(s) /\ Written(s) /\ Placed(s) /\ ScanOK(s)
         /\ session[s].pc # "scan" => session[s].tids = {}
         /\ None \notin Objects /\ None \notin Page
  BY NoneAssumption, NonePageAssumption, PagesFacts DEF Inv, TypeOK, WriterOK, ScanOK

LEMMA AnalyzeInv ==
  ASSUME Inv, OneWriter, NEW s \in Inserters, NEW r \in Rows, Analyze(s, r)
  PROVE  Inv'
  <1> DEFINE x == [session[s] EXCEPT !.pc = "try", !.row = r, !.count = pagesCount,
                                     !.page = 0]
  <1> s \in Sessions
    BY DEF Sessions
  <1>1. session[s] \in Session /\ session[s].pc = "idle" /\ session[s].tids = {} /\ Sees(s)
        /\ pagesCount \in 0 .. MaxPages /\ session \in [Sessions -> Session]
    BY Parts, PagesFacts DEF Analyze
  <1>2. session' = [session EXCEPT ![s] = x] /\ session'[s] = x
    BY <1>1 DEF Analyze
  <1>0. 0 \in 0 .. MaxPages
    BY PagesFacts
  <1>3. x \in Session /\ x.pc = "try" /\ x.tids = {} /\ x.obj = session[s].obj
        /\ x.row = r /\ x.count = pagesCount /\ x.page = 0
    BY <1>0, <1>1 DEF Session
  <1> HIDE DEF x
  <1>4. UNCHANGED <<object, pageTable>> /\ Frame
    BY DEF Analyze, Frame
  <1>5. WriterOK(s)'
    BY <1>1, <1>2, <1>3, <1>4
       DEF WriterOK, Sees, Holds, Current, Written, Placed, Holding, Frame
  <1> QED
    BY <1>1, <1>2, <1>3, <1>4, <1>5, QuietStep

LEMMA ReadSizeInv ==
  ASSUME Inv, OneWriter, NEW s \in Inserters, ReadSize(s)
  PROVE  Inv'
  <1> DEFINE x == [session[s] EXCEPT !.pc = "write",
                                     !.slotID = Len(object[session[s].obj])]
  <1> s \in Sessions
    BY DEF Sessions
  <1>1. session[s] \in Session /\ session[s].pc = "size" /\ WriterOK(s) /\ ScanOK(s)
        /\ session \in [Sessions -> Session] /\ object \in [Objects -> Page]
    BY Parts DEF ReadSize, WriterOK
  <1>2. session' = [session EXCEPT ![s] = x] /\ session'[s] = x
    BY <1>1 DEF ReadSize
  <1>3. session[s].obj \in Objects /\ Len(object[session[s].obj]) \in Nat
    BY <1>1, PageFacts DEF Session, WriterOK, Sees, Holding
  <1>4. x \in Session /\ x.pc = "write" /\ x.tids = {} /\ x.obj = session[s].obj
        /\ x.row = session[s].row /\ x.count = session[s].count
        /\ x.page = session[s].page /\ x.slotID = Len(object[session[s].obj])
    BY <1>1, <1>3 DEF Session, ScanOK
  <1> HIDE DEF x
  <1>5. UNCHANGED <<object, pageTable>> /\ Frame
    BY DEF ReadSize, Frame
  <1>6. WriterOK(s)'
    BY <1>1, <1>2, <1>4, <1>5
       DEF WriterOK, Sees, Holds, Current, Written, Placed, Holding, Frame, View
  <1> QED
    BY <1>1, <1>2, <1>4, <1>5, <1>6, QuietStep

LEMMA WriteChecksInv ==
  ASSUME Inv, OneWriter, NEW s \in Inserters, WriteChecks(s)
  PROVE  Inv'
  <1> DEFINE used == Len(object[session[s].obj])
  <1> s \in Sessions
    BY DEF Sessions
  <1>1. session[s] \in Session /\ session[s].pc = "write" /\ WriterOK(s) /\ ScanOK(s)
        /\ session \in [Sessions -> Session] /\ object \in [Objects -> Page]
        /\ pagesCount \in Nat /\ pagesCount <= MaxPages
    BY Parts DEF WriteChecks, WriterOK
  <1>2. session[s].obj \in Objects /\ used \in Nat
    BY <1>1, PageFacts DEF Session, WriterOK, Sees, Holding
  <1>3. UNCHANGED <<object, pageTable>> /\ Frame
    BY DEF WriteChecks, Frame
  <1>4. CASE used >= PageCapacity
    <2> DEFINE x == [session[s] EXCEPT !.pc = "try", !.page = @ + 1, !.obj = None]
    <2>0. ~(used < PageCapacity)
      BY <1>2, <1>4, PageCapacityAssumption
    <2>1. session' = [session EXCEPT ![s] = x] /\ session'[s] = x
      BY <1>1, <2>0 DEF WriteChecks
    <2>2. session[s].page + 1 \in 0 .. MaxPages /\ session[s].page + 1 <= session[s].count
      BY <1>1, PagesFacts DEF WriterOK, Holds, Sees, Holding, Session
    <2>3. x \in Session /\ x.pc = "try" /\ x.tids = {} /\ x.obj = None
          /\ x.row = session[s].row /\ x.count = session[s].count
          /\ x.page = session[s].page + 1
      BY <1>1, <2>2 DEF Session, ScanOK
    <2> HIDE DEF x
    <2>4. WriterOK(s)'
      BY <1>1, <1>3, <2>1, <2>2, <2>3
         DEF WriterOK, Sees, Holds, Current, Written, Placed, Holding, Frame
    <2> QED
      BY <1>1, <1>3, <2>1, <2>3, <2>4, QuietStep
  <1>5. CASE used < PageCapacity
    <2> DEFINE x == [session[s] EXCEPT !.pc = "store", !.header = used]
    <2>0. ~(used >= PageCapacity)
      BY <1>2, <1>5, PageCapacityAssumption
    <2>1. session' = [session EXCEPT ![s] = x] /\ session'[s] = x
      BY <1>1, <2>0 DEF WriteChecks
    <2>2. x \in Session /\ x.pc = "store" /\ x.tids = {} /\ x.obj = session[s].obj
          /\ x.row = session[s].row /\ x.count = session[s].count
          /\ x.page = session[s].page /\ x.slotID = session[s].slotID
          /\ x.header = used
      BY <1>1, <1>2 DEF Session, ScanOK
    <2> HIDE DEF x
    <2>3. WriterOK(s)'
      BY <1>1, <1>3, <1>5, <2>1, <2>2
         DEF WriterOK, Sees, Holds, Current, Written, Placed, Holding, Frame, View
    <2> QED
      BY <1>1, <1>3, <2>1, <2>2, <2>3, QuietStep
  <1> QED
    BY <1>2, <1>4, <1>5, PageCapacityAssumption

\* GetPage, with what the session gets.
LEMMA TryPageInv ==
  ASSUME Inv, OneWriter, NEW s \in Inserters, TryPage(s)
  PROVE  Inv'
  <1> s \in Sessions
    BY DEF Sessions
  <1>1. session[s] \in Session /\ session[s].pc = "try" /\ WriterOK(s) /\ ScanOK(s)
        /\ session[s].tids = {} /\ session \in [Sessions -> Session]
        /\ pagesCount \in Nat /\ pagesCount <= MaxPages /\ Counted /\ TypeOK
    BY Parts DEF TryPage, WriterOK, Inv, Pool
  <1>2. /\ session[s].page \in Pages /\ session[s].count = pagesCount
        /\ session[s].row \in Rows /\ session[s].page < session[s].count
    BY <1>1, PagesFacts DEF TryPage, WriterOK, Sees, Session, Pages
  <1>p. PICK p \in Pages : p = session[s].page
    BY <1>2
  <1> USE <1>p, PagesFacts
  <1>3. Frame
    BY DEF TryPage, Frame
  <1>4. CASE UNCHANGED <<object, pageTable>> /\ session' = [session EXCEPT ![s].page = p + 1]
    <2> DEFINE x == [session[s] EXCEPT !.page = p + 1]
    <2>1. session' = [session EXCEPT ![s] = x] /\ session'[s] = x
      BY <1>1, <1>4
    <2>2. p + 1 \in 0 .. MaxPages /\ p + 1 <= session[s].count
      BY <1>1, <1>2, PagesFacts
    <2>3. x \in Session /\ x.pc = "try" /\ x.tids = {} /\ x.obj = session[s].obj
          /\ x.row = session[s].row /\ x.count = session[s].count /\ x.page = p + 1
      BY <1>1, <2>2 DEF Session
    <2> HIDE DEF x
    <2>4. WriterOK(s)'
      BY <1>1, <1>2, <1>3, <2>1, <2>2, <2>3
         DEF WriterOK, Sees, Holds, Current, Written, Placed, Holding, Frame
    <2> QED
      BY <1>1, <1>3, <1>4, <2>1, <2>3, <2>4, QuietStep
  <1>5. ASSUME NEW o \in Objects, Get(p, o),
               session' = [session EXCEPT ![s].pc = "size", ![s].obj = o]
        PROVE  Inv'
    <2> DEFINE x == [session[s] EXCEPT !.pc = "size", !.obj = o]
    <2>1. session' = [session EXCEPT ![s] = x] /\ session'[s] = x
          /\ \A t \in Sessions : t # s => session'[t] = session[t]
      BY <1>1, <1>5
    <2>2. x \in Session /\ x.pc = "size" /\ x.tids = {} /\ x.obj = o
          /\ x.row = session[s].row /\ x.count = session[s].count /\ x.page = p
      BY <1>1 DEF Session
    <2>3. \A t \in Inserters : session[t].pc = "update" => session'[t] = session[t]
      BY <1>1, <2>1 DEF Sessions
    <2> HIDE DEF x
    <2>4. /\ object' \in [Objects -> Page]
          /\ pageTable' \in [Pages -> Objects \cup {None}]
          /\ pageTable'[p] = o
          /\ \A q \in Pages : q # p => pageTable'[q] = pageTable[q]
          /\ pageTable[p] = o \/ o \in Free
          /\ object'[o] = View(p) /\ View(p) # None
          /\ \A q \in Pages : View(q)' = View(q)
          /\ Pool'
      BY <1>3, <1>5, <2>3, GetEffect
    <2>5. TypeOK'
      BY <1>1, <1>3, <2>1, <2>2, <2>4 DEF TypeOK, Frame
    <2>6. Sees(s)'
      BY <1>1, <1>2, <1>3, <2>1, <2>2, NoneAssumption DEF Sees, WriterOK, Holding, Frame
    <2>7. Holds(s)'
      <3>1. \A q \in Pages : q # p => pageTable'[q] # o
        BY <1>2, <2>4, NoneAssumption DEF Pool, Apart
      <3> QED
        BY <1>2, <1>3, <2>1, <2>2, <2>4, <3>1 DEF Holds, Frame
    <2>8. View(session[s].page)' = View(p)
      BY <1>2, <2>1, <2>2, <2>4 DEF View
    <2>9. Current(s)' /\ Written(s)' /\ Placed(s)'
      BY <2>1, <2>2, <2>4, <2>8 DEF Current, Written, Placed
    <2>10. ASSUME NEW t \in Sessions PROVE WriterOK(t)' /\ ScanOK(t)'
      <3>1. CASE t = s
        BY <2>1, <2>2, <2>6, <2>7, <2>9, <3>1, NoScan DEF WriterOK
      <3>2. CASE t # s
        <4>1. WriterOK(t) /\ ScanOK(t) /\ session'[t] = session[t]
          BY <2>1, <3>2 DEF Inv
        <4>2. ASSUME NEW tid \in Tid, Readable(tid) PROVE Readable(tid)'
          <5>1. tid[1] \in Pages
            BY DEF Tid
          <5>2. CASE tid[2] < Len(View(tid[1]))
            BY <2>4, <5>1, <5>2 DEF Readable
          <5>3. CASE Unfinished(tid)
            BY <2>3, <5>3 DEF Readable, Unfinished
          <5> QED
            BY <4>2, <5>2, <5>3 DEF Readable
        <4>3. WriterOK(t)'
          BY <3>2, <4>1, Bystander
        <4>4. ScanOK(t)'
          BY <1>1, <1>3, <4>1, <4>2, ScanFrame DEF Frame
        <4> QED
          BY <4>3, <4>4
      <3> QED
        BY <3>1, <3>2
    <2> QED
      BY <2>4, <2>5, <2>10 DEF Inv
  <1> QED
    BY <1>4, <1>5 DEF TryPage

\* What is left to show for a step of the one writer that changes the pool.
LEMMA WriterStep ==
  ASSUME Inv, OneWriter, NEW s \in Inserters, TypeOK', Pool', WriterOK(s)',
         \A t \in Sessions : t # s => session'[t] = session[t],
         session'[s].pc # "scan", session'[s].tids = {},
         pagesCount <= pagesCount', acked \subseteq acked', lost \subseteq lost',
         \A tid \in Tid : tid[1] < pagesCount /\ tid[1] \notin lost' /\ Readable(tid)
                           => Readable(tid)'
  PROVE  Inv'
  <1>1. pagesCount' \in Nat
    BY PagesFacts DEF TypeOK
  <1>2. ASSUME NEW t \in Sessions PROVE WriterOK(t)' /\ ScanOK(t)'
    <2>1. CASE t = s
      BY <2>1, NoScan
    <2>2. CASE t # s
      <3>1. TypeOK /\ WriterOK(t) /\ ScanOK(t) /\ session'[t] = session[t]
        BY <2>2 DEF Inv
      <3>2. WriterOK(t)'
        BY <2>2, <3>1, Bystander
      <3>3. ScanOK(t)'
        BY <1>1, <3>1, ScanFrame
      <3> QED
        BY <3>2, <3>3
    <2> QED
      BY <2>1, <2>2
  <1> QED
    BY <1>2 DEF Inv

LEMMA WriteStoresInv ==
  ASSUME Inv, OneWriter, NEW s \in Inserters, WriteStores(s)
  PROVE  Inv'
  <1> s \in Sessions
    BY DEF Sessions
  <1>1. /\ session[s] \in Session /\ session[s].pc = "store"
        /\ session[s].tids = {} /\ session \in [Sessions -> Session]
        /\ object \in [Objects -> Page] /\ pageTable \in [Pages -> Objects \cup {None}]
        /\ disk \in [Pages -> Page \cup {None}]
        /\ acked \subseteq Pages \X Nat \X Rows
        /\ pagesCount \in Nat /\ pagesCount <= MaxPages
        /\ Sees(s) /\ Holds(s) /\ Current(s)
        /\ None \notin Objects /\ None \notin Page
    BY Parts DEF WriteStores
  <1>2. /\ session[s].page \in Pages /\ session[s].count = pagesCount
        /\ session[s].row \in Rows /\ session[s].page < session[s].count
        /\ session[s].obj \in Objects
    BY <1>1, PagesFacts DEF Sees, Holds, Holding, Session, Pages
  <1>p. PICK p \in Pages, o \in Objects, r \in Rows, old \in Page :
          /\ p = session[s].page /\ o = session[s].obj /\ r = session[s].row
          /\ old = object[o]
    BY <1>1, <1>2
  <1>3. /\ session[s].header = Len(old) /\ session[s].slotID = Len(old)
        /\ Len(old) < PageCapacity /\ Len(old) \in Nat
    BY <1>1, <1>p, PageFacts DEF Current
  <1> DEFINE new == Append(old, r)
  <1>4. /\ new \in Page /\ Len(new) = Len(old) + 1 /\ new[Len(old) + 1] = r
        /\ SubSeq(new, 1, Len(old)) = old
        /\ \A i \in Nat : i < Len(old) => new[i + 1] = old[i + 1]
        /\ Append(SubSeq(old, 1, Len(old)), r) = new
    BY <1>3, AppendPage
  <1>5. object' = [object EXCEPT ![o] = new]
    <2>1. ~(Len(object[o]) > session[s].header)
      BY <1>3, <1>p
    <2>2. \E x \in {r} : object' = [object EXCEPT ![o] = Append(SubSeq(object[o], 1, Len(old)), x)]
      BY <1>3, <1>p, <2>1 DEF WriteStores
    <2> QED
      BY <1>4, <1>p, <2>2
  <1> HIDE DEF new
  <1> DEFINE x == [session[s] EXCEPT !.pc = "update"]
  <1>6. session' = [session EXCEPT ![s] = x] /\ session'[s] = x
        /\ \A t \in Sessions : t # s => session'[t] = session[t]
    BY <1>1 DEF WriteStores
  <1>7. x \in Session /\ x.pc = "update" /\ x.tids = {} /\ x.obj = o
        /\ x.row = r /\ x.count = session[s].count /\ x.page = p
        /\ x.slotID = Len(old)
    BY <1>1, <1>p, <1>3 DEF Session
  <1> HIDE DEF x
  <1>8. UNCHANGED <<pageTable, dirty, disk, pagesCount, savedCount, acked, lost, restarts>>
    BY DEF WriteStores
  <1>9. /\ object' \in [Objects -> Page] /\ object'[o] = new
        /\ \A y \in Objects : y # o => object'[y] = object[y]
    BY <1>1, <1>4, <1>5
  <1>10. \A q \in Pages : pageTable[q] = o => q = p
    BY <1>1, <1>p DEF Holds, Holding
  <1>11. ASSUME NEW q \in Pages, q # p \/ pageTable[p] # o PROVE View(q)' = View(q)
    BY <1>1, <1>8, <1>9, <1>10, <1>11 DEF View
  <1>12. pageTable[p] = o => View(p)' = new /\ View(p) = old
    BY <1>1, <1>8, <1>9, <1>p DEF View
  <1>13. TypeOK'
    BY <1>1, <1>6, <1>7, <1>8, <1>9 DEF TypeOK, Inv
  <1>14. Counted' /\ Apart'
    BY <1>8 DEF Inv, Pool, Counted, Apart
  <1>15. Clean'
    <2> SUFFICES ASSUME NEW q \in Pages, pageTable[q] # None, q \notin dirty,
                        disk[q] # None, object'[pageTable[q]] # disk[q]
                 PROVE  \E t \in Inserters :
                          /\ Ahead(t, q)'
                          /\ session'[t].obj = pageTable[q]
                          /\ disk[q] = SubSeq(object'[pageTable[q]], 1, session'[t].slotID)
      BY <1>8 DEF Clean
    <2>1. object[pageTable[q]] = disk[q]
      BY <1>1 DEF Inv, Pool, Clean, Ahead, OneWriter
    <2>2. pageTable[q] = o /\ q = p
      BY <1>1, <1>9, <1>10, <2>1
    <2>3. /\ Ahead(s, q)'
          /\ session'[s].obj = pageTable[q]
          /\ disk[q] = SubSeq(object'[pageTable[q]], 1, session'[s].slotID)
      BY <1>4, <1>6, <1>7, <1>9, <1>p, <2>1, <2>2 DEF Ahead
    <2> QED
      BY <2>3
  <1>16. Copies'
    <2> SUFFICES ASSUME NEW a \in acked
                 PROVE  /\ disk[a[1]] # None => Stored(disk[a[1]], a[2], a[3])
                        /\ pageTable[a[1]] # None =>
                             Stored(object'[pageTable[a[1]]], a[2], a[3])
      BY <1>8 DEF Copies, Stored
    <2>1. /\ a[1] \in Pages /\ a[2] \in Nat
          /\ disk[a[1]] # None => Stored(disk[a[1]], a[2], a[3])
          /\ pageTable[a[1]] # None => Stored(object[pageTable[a[1]]], a[2], a[3])
      BY <1>1 DEF Inv, Pool, Copies
    <2>2. CASE pageTable[a[1]] = o
      BY <1>3, <1>4, <1>9, <1>p, <2>1, <2>2, NoneAssumption DEF Stored
    <2>3. CASE pageTable[a[1]] # o
      BY <1>1, <1>9, <2>1, <2>3
    <2> QED
      BY <2>1, <2>2, <2>3
  <1>17. Present'
    BY <1>1, <1>4, <1>8, <1>11, <1>12 DEF Inv, Pool, Present
  <1>18. WriterOK(s)'
    <2>1. Sees(s)' /\ Holds(s)'
      BY <1>1, <1>p, <1>6, <1>7, <1>8 DEF Sees, Holds, Holding
    <2>2. View(p)' \in {None, new, old}
      BY <1>1, <1>11, <1>12, <1>p DEF Current
    <2>3. Current(s)' /\ Placed(s)'
      BY <1>6, <1>7 DEF Current, Placed
    <2>4. View(session[s].page)' = View(p)'
      BY <1>6, <1>7 DEF View
    <2>5. Written(s)'
      BY <1>3, <1>4, <1>6, <1>7, <1>9, <2>2, <2>4 DEF Written
    <2> QED
      BY <2>1, <2>3, <2>5 DEF WriterOK
  <1>19. ASSUME NEW tid \in Tid, Readable(tid) PROVE Readable(tid)'
    <2>1. tid[1] \in Pages /\ tid[2] \in Nat
      BY DEF Tid
    <2>2. ~Unfinished(tid)
      BY <1>1 DEF Unfinished, OneWriter
    <2>3. tid[2] < Len(View(tid[1]))
      BY <1>19, <2>2 DEF Readable
    <2>4. tid[2] < Len(View(tid[1])')
      BY <1>3, <1>4, <1>11, <1>12, <2>1, <2>3
    <2> QED
      BY <2>4 DEF Readable
  <1> QED
    BY <1>1, <1>6, <1>7, <1>8, <1>13, <1>14, <1>15, <1>16, <1>17, <1>18, <1>19, WriterStep
       DEF Pool

LEMMA UpdateInv ==
  ASSUME Inv, OneWriter, NEW s \in Inserters, Update(s)
  PROVE  Inv'
  <1> s \in Sessions
    BY DEF Sessions
  <1>1. /\ session[s] \in Session /\ session[s].pc = "update"
        /\ session[s].tids = {} /\ session \in [Sessions -> Session]
        /\ object \in [Objects -> Page] /\ pageTable \in [Pages -> Objects \cup {None}]
        /\ disk \in [Pages -> Page \cup {None}] /\ dirty \subseteq Pages
        /\ acked \subseteq Pages \X Nat \X Rows
        /\ pagesCount \in Nat /\ pagesCount <= MaxPages
        /\ Sees(s) /\ Holds(s) /\ Written(s)
        /\ None \notin Objects /\ None \notin Page
    BY Parts DEF Update
  <1>2. /\ session[s].page \in Pages /\ session[s].count = pagesCount
        /\ session[s].row \in Rows /\ session[s].page < session[s].count
        /\ session[s].obj \in Objects /\ session[s].slotID \in Nat
    BY <1>1, PagesFacts DEF Sees, Holds, Holding, Session, Pages
  <1>p. PICK p \in Pages, o \in Objects, n \in Nat, new \in Page :
          /\ p = session[s].page /\ o = session[s].obj /\ n = session[s].slotID
          /\ new = object[o]
    BY <1>1, <1>2
  <1>3. /\ Len(new) = n + 1 /\ new[n + 1] = session[s].row
        /\ new \in Seq(Rows \cup {Torn}) /\ p < pagesCount
        /\ View(p) \in {None, new, SubSeq(new, 1, n)}
    BY <1>1, <1>2, <1>p, PageFacts DEF Written
  <1>4. /\ Len(SubSeq(new, 1, n)) = n
        /\ \A i \in Nat : i < n => SubSeq(new, 1, n)[i + 1] = new[i + 1]
    BY <1>3
  <1>5. UNCHANGED <<object, disk, pagesCount, savedCount, acked, lost, restarts>>
    BY DEF Update
  <1>6. \A tid \in Tid : Unfinished(tid) => tid[1] = p /\ tid[2] = n
    BY <1>p DEF Unfinished, OneWriter
  <1>7. \A q \in Pages : q # p /\ pageTable[q] # None /\ q \notin dirty /\ disk[q] # None
          => object[pageTable[q]] = disk[q]
    BY <1>p DEF Inv, Pool, Clean, Ahead, OneWriter
  <1>8. CASE CanGet(p)
    <2> DEFINE x == [session[s] EXCEPT !.pc = "ack", !.obj = None]
    <2>1. /\ pageTable' = [pageTable EXCEPT ![p] = o]
          /\ dirty' = dirty \cup {p}
          /\ session' = [session EXCEPT ![s] = x]
      BY <1>1, <1>p, <1>8 DEF Update
    <2>2. session'[s] = x /\ \A t \in Sessions : t # s => session'[t] = session[t]
      BY <1>1, <2>1
    <2>3. x \in Session /\ x.pc = "ack" /\ x.tids = {} /\ x.obj = None
          /\ x.row = session[s].row /\ x.page = p /\ x.slotID = n
      BY <1>1, <1>p DEF Session
    <2> HIDE DEF x
    <2>4. /\ pageTable' \in [Pages -> Objects \cup {None}] /\ pageTable'[p] = o
          /\ \A q \in Pages : q # p => pageTable'[q] = pageTable[q] /\ pageTable[q] # o
      BY <1>1, <1>p, <2>1 DEF Holds, Holding
    <2>5. View(p)' = new /\ \A q \in Pages : q # p => View(q)' = View(q)
      BY <1>1, <1>5, <1>p, <2>4 DEF View
    <2>6. View(p) \in {new, SubSeq(new, 1, n)}
      BY <1>1, <1>3, <1>8 DEF View, CanGet
    <2>7. TypeOK'
      BY <1>1, <1>5, <2>1, <2>3, <2>4 DEF TypeOK, Inv
    <2>8. Counted'
      BY <1>1, <1>3, <1>5, <2>1, <2>4 DEF Inv, Pool, Counted
    <2>9. Apart'
      BY <1>1, <2>4 DEF Inv, Pool, Apart
    <2>10. Clean'
      BY <1>5, <1>7, <2>1, <2>4 DEF Clean
    <2>11. Copies'
      <3> SUFFICES ASSUME NEW a \in acked
                   PROVE  /\ disk[a[1]] # None => Stored(disk[a[1]], a[2], a[3])
                          /\ pageTable'[a[1]] # None =>
                               Stored(object[pageTable'[a[1]]], a[2], a[3])
        BY <1>5 DEF Copies, Stored
      <3>1. /\ a[1] \in Pages /\ a[2] \in Nat
            /\ disk[a[1]] # None => Stored(disk[a[1]], a[2], a[3])
            /\ pageTable[a[1]] # None => Stored(object[pageTable[a[1]]], a[2], a[3])
        BY <1>1 DEF Inv, Pool, Copies
      <3>2. CASE a[1] = p
        <4>1. Stored(View(p), a[2], a[3])
          BY <1>8, <3>1, <3>2 DEF View, CanGet
        <4>2. Stored(new, a[2], a[3])
          BY <1>3, <1>4, <2>6, <3>1, <4>1 DEF Stored
        <4> QED
          BY <1>p, <2>4, <3>1, <3>2, <4>2
      <3>3. CASE a[1] # p
        BY <2>4, <3>1, <3>3
      <3> QED
        BY <3>2, <3>3
    <2>12. Present'
      BY <1>1, <1>5, <2>5 DEF Inv, Pool, Present
    <2>13. WriterOK(s)'
      <3>1. View(session[s].page)' = new
        BY <2>2, <2>3, <2>5 DEF View
      <3>2. Placed(s)'
        BY <1>2, <1>3, <1>5, <2>2, <2>3, <3>1 DEF Placed, Stored
      <3>3. Sees(s)' /\ Holds(s)' /\ Current(s)' /\ Written(s)'
        BY <2>2, <2>3 DEF Sees, Holds, Current, Written, Holding
      <3> QED
        BY <3>2, <3>3 DEF WriterOK
    <2>14. ASSUME NEW tid \in Tid, Readable(tid) PROVE Readable(tid)'
      <3>1. tid[1] \in Pages /\ tid[2] \in Nat
        BY DEF Tid
      <3>2. tid[2] < Len(View(tid[1])')
        BY <1>3, <1>4, <1>6, <2>5, <2>6, <2>14, <3>1 DEF Readable
      <3> QED
        BY <3>2 DEF Readable
    <2> QED
      BY <1>1, <1>5, <2>2, <2>3, <2>7, <2>8, <2>9, <2>10, <2>11, <2>12, <2>13, <2>14,
         WriterStep DEF Pool
  <1>9. CASE ~CanGet(p)
    <2> DEFINE x == [session[s] EXCEPT !.pc = "try", !.page = p + 1, !.obj = None]
    <2>1. /\ UNCHANGED <<pageTable, dirty>>
          /\ session' = [session EXCEPT ![s] = x]
      BY <1>1, <1>p, <1>9 DEF Update
    <2>2. session'[s] = x /\ \A t \in Sessions : t # s => session'[t] = session[t]
      BY <1>1, <2>1
    <2>3. p + 1 \in 0 .. MaxPages /\ p + 1 <= session[s].count
      BY <1>1, <1>2, <1>p, PagesFacts
    <2>4. x \in Session /\ x.pc = "try" /\ x.tids = {} /\ x.obj = None
          /\ x.row = session[s].row /\ x.page = p + 1 /\ x.count = session[s].count
      BY <1>1, <2>3 DEF Session
    <2> HIDE DEF x
    <2>5. pageTable[p] = None /\ disk[p] = None /\ p \in lost
      BY <1>9, <1>3 DEF CanGet, Inv, Pool, Present, View
    <2>6. TypeOK'
      BY <1>1, <1>5, <2>1, <2>4 DEF TypeOK, Inv
    <2>7. Counted' /\ Apart' /\ Copies' /\ Present'
      BY <1>5, <2>1 DEF Inv, Pool, Counted, Apart, Copies, Present, Stored, View
    <2>8. Clean'
      BY <1>5, <1>7, <2>1, <2>5 DEF Clean
    <2>9. WriterOK(s)'
      BY <1>1, <1>2, <1>5, <2>2, <2>3, <2>4
         DEF WriterOK, Sees, Holds, Current, Written, Placed, Holding
    <2>10. ASSUME NEW tid \in Tid, tid[1] \notin lost, Readable(tid) PROVE Readable(tid)'
      <3>1. tid[2] < Len(View(tid[1]))
        BY <1>6, <2>5, <2>10 DEF Readable
      <3>2. tid[2] < Len(View(tid[1])')
        BY <1>5, <2>1, <3>1 DEF View
      <3> QED
        BY <3>2 DEF Readable
    <2> QED
      BY <1>1, <1>5, <2>2, <2>4, <2>6, <2>7, <2>8, <2>9, <2>10, WriterStep DEF Pool
  <1> QED
    BY <1>8, <1>9

LEMMA IdleFacts ==
  /\ Idle \in Session /\ Idle.pc = "idle" /\ Idle.tids = {} /\ Idle.obj = None
  BY PagesFacts DEF Idle, Session

\* A statement that ends without an effect.
LEMMA IdleOK ==
  ASSUME NEW s \in Sessions, session'[s] = Idle
  PROVE  WriterOK(s)' /\ ScanOK(s)'
  <1>1. session'[s].pc = "idle" /\ session'[s].tids = {} /\ session'[s].obj = None
    BY IdleFacts
  <1>2. ScanOK(s)'
    BY <1>1, NoScan
  <1> QED
    BY <1>1, <1>2 DEF WriterOK, Sees, Holds, Current, Written, Placed, Holding

LEMMA NewPageInv ==
  ASSUME Inv, OneWriter, NEW s \in Inserters, NewPage(s)
  PROVE  Inv'
  <1> s \in Sessions
    BY DEF Sessions
  <1>1. /\ session[s] \in Session /\ session[s].pc = "try"
        /\ session[s].tids = {} /\ session \in [Sessions -> Session]
        /\ object \in [Objects -> Page] /\ pageTable \in [Pages -> Objects \cup {None}]
        /\ disk \in [Pages -> Page \cup {None}] /\ dirty \subseteq Pages
        /\ acked \subseteq Pages \X Nat \X Rows
        /\ pagesCount \in Nat /\ pagesCount <= MaxPages
        /\ Sees(s) /\ Holds(s) /\ Counted
        /\ None \notin Objects /\ None \notin Page
    BY Parts DEF NewPage, Inv, Pool
  <1>2. /\ session[s].count \in Pages /\ session[s].count = pagesCount
        /\ session[s].row \in Rows /\ session[s].page = session[s].count
        /\ session[s].obj = None
    BY <1>1 DEF NewPage, Sees, Holding
  <1>p. PICK p \in Pages, r \in Rows : p = session[s].count /\ r = session[s].row
    BY <1>2
  <1>3. Frame
    BY DEF NewPage, Frame
  <1>4. CASE UNCHANGED <<object, pageTable>> /\ session' = [session EXCEPT ![s] = Idle]
    <2>1. session'[s] = Idle
      BY <1>1, <1>4
    <2> QED
      BY <1>1, <1>3, <1>4, <2>1, IdleFacts, IdleOK, QuietStep
  <1>5. ASSUME pageTable[p] = None, NEW o \in Free,
               object' = [object EXCEPT ![o] = <<r>>],
               pageTable' = [pageTable EXCEPT ![p] = o],
               session' = [session EXCEPT ![s].pc = "count", ![s].slotID = 0]
        PROVE  Inv'
    <2> DEFINE x == [session[s] EXCEPT !.pc = "count", !.slotID = 0]
    <2>1. session' = [session EXCEPT ![s] = x] /\ session'[s] = x
          /\ \A t \in Sessions : t # s => session'[t] = session[t]
      BY <1>1, <1>5
    <2>2. x \in Session /\ x.pc = "count" /\ x.tids = {} /\ x.obj = None
          /\ x.row = r /\ x.count = p /\ x.page = p /\ x.slotID = 0
      BY <1>1, <1>2, <1>p DEF Session
    <2> HIDE DEF x
    <2>3. <<r>> \in Page /\ Stored(<<r>>, 0, r) /\ <<r>> # None
      <3>1. <<r>> \in Seq(Rows \cup {Torn}) /\ Len(<<r>>) = 1 /\ <<r>>[1] = r
        OBVIOUS
      <3>0. Len(<<r>>) <= PageCapacity
        BY <3>1, PageCapacityAssumption
      <3>2. <<r>> \in Page
        BY <3>0, <3>1, PageIntro
      <3> QED
        BY <1>1, <3>1, <3>2 DEF Stored
    <2>4. /\ o \in Objects /\ object' \in [Objects -> Page] /\ object'[o] = <<r>>
          /\ \A y \in Objects : y # o => object'[y] = object[y]
          /\ pageTable' \in [Pages -> Objects \cup {None}] /\ pageTable'[p] = o
          /\ \A q \in Pages : q # p => pageTable'[q] = pageTable[q] /\ pageTable[q] # o
      BY <1>1, <1>5, <2>3 DEF Free
    <2>5. View(p)' = <<r>> /\ \A q \in Pages : q # p => View(q)' = View(q)
      BY <1>1, <1>3, <2>4 DEF View, Frame
    <2>6. TypeOK'
      BY <1>1, <1>3, <2>1, <2>2, <2>4 DEF TypeOK, Inv, Frame
    <2>7. p = pagesCount /\ p \notin dirty /\ disk[p] = None
      BY <1>1, <1>2, <1>p DEF Counted
    <2>8. Counted'
      BY <1>1, <1>3, <2>4, <2>7 DEF Counted, Frame
    <2>9. Apart'
      BY <1>1, <2>4 DEF Inv, Pool, Apart
    <2>10. Clean'
      <3> SUFFICES ASSUME NEW q \in Pages, pageTable'[q] # None, q \notin dirty,
                          disk[q] # None
                   PROVE  object'[pageTable'[q]] = disk[q]
        BY <1>3 DEF Clean, Frame
      <3>1. q # p
        BY <2>7
      <3>2. object[pageTable[q]] = disk[q]
        BY <1>1, <2>4, <3>1 DEF Inv, Pool, Clean, Ahead, OneWriter
      <3> QED
        BY <1>1, <2>4, <3>1, <3>2
    <2>11. Copies'
      <3> SUFFICES ASSUME NEW a \in acked
                   PROVE  /\ disk[a[1]] # None => Stored(disk[a[1]], a[2], a[3])
                          /\ pageTable'[a[1]] # None =>
                               Stored(object'[pageTable'[a[1]]], a[2], a[3])
        BY <1>3 DEF Copies, Stored, Frame
      <3>1. /\ a[1] \in Pages
            /\ disk[a[1]] # None => Stored(disk[a[1]], a[2], a[3])
            /\ pageTable[a[1]] # None => Stored(object[pageTable[a[1]]], a[2], a[3])
        BY <1>1 DEF Inv, Pool, Copies
      <3>2. a[1] # p
        BY <1>1, <2>7 DEF Counted
      <3> QED
        BY <1>1, <2>4, <3>1, <3>2
    <2>12. Present'
      BY <1>1, <1>3, <2>3, <2>5 DEF Inv, Pool, Present, Frame
    <2>13. WriterOK(s)'
      <3>1. View(session[s].page)' = <<r>>
        BY <2>1, <2>2, <2>5 DEF View
      <3>2. Placed(s)'
        BY <2>1, <2>2, <2>3, <3>1 DEF Placed
      <3>3. Sees(s)' /\ Holds(s)' /\ Current(s)' /\ Written(s)'
        BY <1>3, <2>1, <2>2, <2>7 DEF Sees, Holds, Current, Written, Holding, Frame
      <3> QED
        BY <3>2, <3>3 DEF WriterOK
    <2>14. ASSUME NEW tid \in Tid, tid[1] < pagesCount, Readable(tid) PROVE Readable(tid)'
      <3>1. tid[1] \in Pages /\ tid[1] # p
        BY <2>7, <2>14, PagesFacts DEF Tid
      <3>2. tid[2] < Len(View(tid[1]))
        BY <1>1, <2>14 DEF Readable, Unfinished, OneWriter
      <3>3. tid[2] < Len(View(tid[1])')
        BY <2>5, <3>1, <3>2
      <3> QED
        BY <3>3 DEF Readable
    <2> QED
      BY <1>1, <1>3, <2>1, <2>2, <2>6, <2>8, <2>9, <2>10, <2>11, <2>12, <2>13, <2>14,
         WriterStep DEF Pool, Frame
  <1> QED
    BY <1>4, <1>5, <1>p DEF NewPage

LEMMA UpdatePagesCountInv ==
  ASSUME Inv, OneWriter, NEW s \in Inserters, UpdatePagesCount(s)
  PROVE  Inv'
  <1> s \in Sessions
    BY DEF Sessions
  <1> DEFINE x == [session[s] EXCEPT !.pc = "ack"]
  <1>1. /\ session[s] \in Session /\ session[s].pc = "count"
        /\ session[s].tids = {} /\ session \in [Sessions -> Session]
        /\ acked \subseteq Pages \X Nat \X Rows /\ dirty \subseteq Pages
        /\ pagesCount \in Nat /\ pagesCount <= MaxPages
        /\ Sees(s) /\ Placed(s)
    BY Parts DEF UpdatePagesCount
  <1>2. /\ session[s].count \in Pages /\ session[s].count = pagesCount
        /\ session[s].row \in Rows /\ session[s].page = session[s].count
        /\ session[s].obj = None
    BY <1>1 DEF Sees, Placed, Holding
  <1>3. /\ pagesCount' = pagesCount + 1 /\ savedCount' = pagesCount + 1
        /\ UNCHANGED <<object, pageTable, dirty, disk, acked, lost, restarts>>
        /\ session' = [session EXCEPT ![s] = x]
    BY <1>1, <1>2 DEF UpdatePagesCount
  <1>4. session'[s] = x /\ \A t \in Sessions : t # s => session'[t] = session[t]
    BY <1>1, <1>3
  <1>5. x \in Session /\ x.pc = "ack" /\ x.tids = {} /\ x.obj = None
        /\ x.row = session[s].row /\ x.page = session[s].page /\ x.slotID = session[s].slotID
    BY <1>1, <1>2 DEF Session
  <1> HIDE DEF x
  <1>6. pagesCount + 1 \in 0 .. MaxPages
    BY <1>1, <1>2, PagesFacts DEF Pages
  <1>7. TypeOK'
    BY <1>1, <1>3, <1>5, <1>6 DEF TypeOK, Inv
  <1>8. Counted'
    BY <1>1, <1>3, PagesFacts DEF Inv, Pool, Counted
  <1>9. Apart' /\ Copies'
    BY <1>3 DEF Inv, Pool, Apart, Copies, Stored
  <1>10. Clean'
    BY <1>1, <1>3 DEF Inv, Pool, Clean, Ahead, OneWriter
  <1>11. Present'
    <2> SUFFICES ASSUME NEW p \in Pages, p < pagesCount + 1, p \notin lost
                 PROVE  View(p) # None
      BY <1>3 DEF Present, View
    <2>1. CASE p = pagesCount
      BY <1>1, <1>2, <2>1 DEF Placed
    <2>2. CASE p # pagesCount
      BY <1>1, <2>2, PagesFacts DEF Inv, Pool, Present
    <2> QED
      BY <2>1, <2>2
  <1>12. WriterOK(s)'
    <2>1. View(session[s].page)' = View(session[s].page)
      BY <1>3, <1>4, <1>5 DEF View
    <2>2. Placed(s)'
      BY <1>1, <1>2, <1>3, <1>4, <1>5, <2>1 DEF Placed
    <2>3. Sees(s)' /\ Holds(s)' /\ Current(s)' /\ Written(s)'
      BY <1>4, <1>5 DEF Sees, Holds, Current, Written, Holding
    <2> QED
      BY <2>2, <2>3 DEF WriterOK
  <1>13. ASSUME NEW tid \in Tid, Readable(tid) PROVE Readable(tid)'
    <2>1. tid[2] < Len(View(tid[1]))
      BY <1>1, <1>13 DEF Readable, Unfinished, OneWriter
    <2>2. tid[2] < Len(View(tid[1])')
      BY <1>3, <2>1 DEF View
    <2> QED
      BY <2>2 DEF Readable
  <1> QED
    BY <1>1, <1>3, <1>4, <1>5, <1>7, <1>8, <1>9, <1>10, <1>11, <1>12, <1>13, WriterStep
       DEF Pool

LEMMA AcknowledgeInv ==
  ASSUME Inv, OneWriter, NEW s \in Inserters, Acknowledge(s)
  PROVE  Inv'
  <1> s \in Sessions
    BY DEF Sessions
  <1>1. /\ session[s] \in Session /\ session[s].pc = "ack"
        /\ session[s].tids = {} /\ session \in [Sessions -> Session]
        /\ object \in [Objects -> Page] /\ pageTable \in [Pages -> Objects \cup {None}]
        /\ disk \in [Pages -> Page \cup {None}] /\ dirty \subseteq Pages
        /\ acked \subseteq Pages \X Nat \X Rows
        /\ pagesCount \in Nat /\ pagesCount <= MaxPages
        /\ Placed(s) /\ Counted
        /\ None \notin Objects /\ None \notin Page
    BY Parts DEF Acknowledge, Inv, Pool
  <1>2. /\ session[s].page \in Pages /\ session[s].slotID \in Nat
        /\ session[s].row \in Rows /\ session[s].page < pagesCount
    BY <1>1, PagesFacts DEF Placed, Session, Pages
  <1>p. PICK p \in Pages, n \in Nat, r \in Rows :
          p = session[s].page /\ n = session[s].slotID /\ r = session[s].row
    BY <1>2
  <1>3. /\ dirty' = {} /\ acked' = acked \cup {<<p, n, r>>}
        /\ session' = [session EXCEPT ![s] = Idle]
        /\ UNCHANGED <<object, pageTable, pagesCount, savedCount, lost, restarts>>
        /\ disk' = Flushed(Pages)
    BY <1>p DEF Acknowledge
  <1>4. session'[s] = Idle /\ \A t \in Sessions : t # s => session'[t] = session[t]
    BY <1>1, <1>3
  <1>5. \A q \in dirty : pageTable[q] \in Objects
    BY <1>1 DEF Counted
  <1>6. /\ disk' \in [Pages -> Page \cup {None}]
        /\ \A q \in Pages : disk'[q] = IF q \in dirty THEN object[pageTable[q]] ELSE disk[q]
    BY <1>1, <1>3, <1>5 DEF Flushed
  <1>7. \A q \in Pages : View(q)' = View(q)
    BY <1>1, <1>3, <1>5, <1>6 DEF View
  <1>8. \A q \in Pages : pageTable[q] # None /\ q \notin dirty /\ disk[q] # None
          => object[pageTable[q]] = disk[q]
    BY <1>1 DEF Inv, Pool, Clean, Ahead, OneWriter
  <1>9. TypeOK'
    BY <1>1, <1>3, <1>6, IdleFacts DEF TypeOK, Inv
  <1>10. Counted'
    <2>1. \A a \in acked' : a[1] < pagesCount
      BY <1>1, <1>2, <1>3, <1>p DEF Counted
    <2>2. \A q \in Pages : q >= pagesCount => disk'[q] = None
      BY <1>1, <1>6, PagesFacts DEF Counted
    <2> QED
      BY <1>1, <1>3, <2>1, <2>2 DEF Counted
  <1>11. Apart' /\ Present'
    BY <1>3, <1>7 DEF Inv, Pool, Apart, Present
  <1>12. Clean'
    BY <1>3, <1>6, <1>8 DEF Clean
  <1>13. Copies'
    <2> SUFFICES ASSUME NEW a \in acked'
                 PROVE  /\ disk'[a[1]] # None => Stored(disk'[a[1]], a[2], a[3])
                        /\ pageTable[a[1]] # None =>
                             Stored(object[pageTable[a[1]]], a[2], a[3])
      BY <1>3 DEF Copies, Stored
    <2>1. CASE a \in acked
      <3>1. /\ a[1] \in Pages
            /\ disk[a[1]] # None => Stored(disk[a[1]], a[2], a[3])
            /\ pageTable[a[1]] # None => Stored(object[pageTable[a[1]]], a[2], a[3])
        BY <1>1, <2>1 DEF Inv, Pool, Copies
      <3> QED
        BY <1>1, <1>5, <1>6, <3>1
    <2>2. CASE a = <<p, n, r>>
      <3>1. View(p) = None \/ Stored(View(p), n, r)
        BY <1>1, <1>p DEF Placed
      <3>2. pageTable[p] # None => Stored(object[pageTable[p]], n, r)
        BY <1>1, <3>1 DEF View
      <3>3. disk'[p] # None => Stored(disk'[p], n, r)
        BY <1>1, <1>5, <1>6, <1>8, <3>1, <3>2 DEF View
      <3> QED
        BY <2>2, <3>2, <3>3
    <2> QED
      BY <1>3, <2>1, <2>2
  <1>14. WriterOK(s)'
    BY <1>4, IdleOK
  <1>15. ASSUME NEW tid \in Tid, Readable(tid) PROVE Readable(tid)'
    <2>0. tid[1] \in Pages
      BY DEF Tid
    <2>1. tid[2] < Len(View(tid[1]))
      BY <1>1, <1>15 DEF Readable, Unfinished, OneWriter
    <2>2. tid[2] < Len(View(tid[1])')
      BY <1>7, <2>0, <2>1
    <2> QED
      BY <2>2 DEF Readable
  <1> QED
    BY <1>1, <1>3, <1>4, <1>9, <1>10, <1>11, <1>12, <1>13, <1>14, <1>15, IdleFacts, WriterStep
       DEF Pool

-----------------------------------------------------------------------------
(* The steps of a SELECT. *)

\* What is left to show for a step of a reader.
LEMMA ReaderStep ==
  ASSUME Inv, NEW s \in Readers, session[s].pc \in {"idle", "scan"}, Frame,
         \/ UNCHANGED <<object, pageTable>>
         \/ \E p \in Pages, o \in Objects : Get(p, o),
         NEW x \in Session, session' = [session EXCEPT ![s] = x],
         x.pc \in {"idle", "scan"}, x.obj = None, ScanOK(s)'
  PROVE  Inv'
  <1>0. s \in Sessions /\ session \in [Sessions -> Session] /\ TypeOK /\ Counted
        /\ None \notin Objects
    BY NoneAssumption DEF Sessions, Inv, TypeOK, Pool
  <1>1. session'[s] = x /\ \A t \in Sessions : t # s => session'[t] = session[t]
    BY <1>0
  <1>2. \A t \in Inserters : session[t].pc = "update" => session'[t] = session[t]
    BY <1>1 DEF Sessions
  <1>3. /\ object' \in [Objects -> Page]
        /\ pageTable' \in [Pages -> Objects \cup {None}]
        /\ \A q \in Pages : View(q)' = View(q)
        /\ \A y \in Objects : y \notin Free => object'[y] = object[y]
        /\ \A q \in Pages : \/ pageTable'[q] = pageTable[q]
                            \/ pageTable[q] = None /\ pageTable'[q] \in Free
        /\ Pool'
    <2>1. CASE UNCHANGED <<object, pageTable>>
      BY <1>0, <1>2, <2>1, QuietPool DEF TypeOK
    <2>2. ASSUME NEW p \in Pages, NEW o \in Objects, Get(p, o)
          PROVE  <1>3!:
      BY <1>2, <2>2, GetEffect
    <2> QED
      BY <2>1, <2>2
  <1>4. TypeOK'
    BY <1>0, <1>3 DEF TypeOK, Frame
  <1>5. ASSUME NEW tid \in Tid, Readable(tid) PROVE Readable(tid)'
    <2>1. tid[1] \in Pages
      BY DEF Tid
    <2>2. CASE tid[2] < Len(View(tid[1]))
      BY <1>3, <2>1, <2>2 DEF Readable
    <2>3. CASE Unfinished(tid)
      BY <1>2, <2>3 DEF Readable, Unfinished
    <2> QED
      BY <1>5, <2>2, <2>3 DEF Readable
  <1>6. WriterOK(s)'
    BY <1>1 DEF WriterOK, Sees, Holds, Current, Written, Placed, Holding
  <1>7. ASSUME NEW t \in Sessions, t # s PROVE WriterOK(t)' /\ ScanOK(t)'
    <2>1. WriterOK(t) /\ ScanOK(t) /\ session'[t] = session[t] /\ session[t] \in Session
          /\ pagesCount \in Nat
      BY <1>0, <1>1, <1>7, PagesFacts DEF Inv, TypeOK
    <2>2. session[t].obj # None =>
            session[t].obj \in Objects /\ session[t].obj \notin Free
      BY <2>1 DEF Session, Free
    <2>3. WriterOK(t)'
      <3>1. session[t].obj # None => object'[session[t].obj] = object[session[t].obj]
        BY <1>3, <2>2
      <3>2. session[t].obj # None =>
              \A q \in Pages : pageTable'[q] = session[t].obj => pageTable[q] = session[t].obj
        BY <1>3, <2>2
      <3>3. \A q \in dirty' : pageTable'[q] = pageTable[q]
        BY <1>0, <1>3 DEF Frame, Counted, TypeOK
      <3> QED
        BY <1>0, <1>3, <2>1, <3>1, <3>2, <3>3, WriterFrame DEF Frame
    <2>4. ScanOK(t)'
      BY <1>0, <1>5, <2>1, ScanFrame DEF Frame
    <2> QED
      BY <2>3, <2>4
  <1> QED
    BY <1>3, <1>4, <1>6, <1>7 DEF Inv

LEMMA StartScanInv ==
  ASSUME Inv, NEW s \in Readers, StartScan(s)
  PROVE  Inv'
  <1> DEFINE x == [session[s] EXCEPT !.pc = "scan", !.count = pagesCount, !.page = 0,
                                     !.owed = acked]
  <1> s \in Sessions
    BY DEF Sessions
  <1>1. session[s] \in Session /\ session[s].pc = "idle" /\ session[s].tids = {}
        /\ session[s].obj = None /\ session \in [Sessions -> Session]
        /\ pagesCount \in 0 .. MaxPages /\ acked \subseteq Pages \X Nat \X Rows /\ Counted
    BY Parts, PagesFacts DEF StartScan, Sees, Holding, Inv, Pool
  <1>2. session' = [session EXCEPT ![s] = x] /\ session'[s] = x
    BY <1>1 DEF StartScan
  <1>3. 0 \in 0 .. MaxPages
    BY PagesFacts
  <1>4. x \in Session /\ x.pc = "scan" /\ x.tids = {} /\ x.obj = None
        /\ x.count = pagesCount /\ x.page = 0 /\ x.owed = acked
    BY <1>1, <1>3 DEF Session
  <1> HIDE DEF x
  <1>5. UNCHANGED <<object, pageTable>> /\ Frame
    BY DEF StartScan, Frame
  <1>6. ScanOK(s)'
    <2>1. \A a \in acked : a[1] < pagesCount /\ a[1] \in Nat
      BY <1>1, PagesFacts DEF Counted
    <2>3. \A a \in acked : ~(a[1] < 0)
      BY <2>1
    <2>2. pagesCount <= pagesCount
      BY <1>1, PagesFacts
    <2> QED
      BY <1>2, <1>4, <1>5, <2>1, <2>2, <2>3 DEF ScanOK, Frame
  <1> QED
    BY <1>1, <1>2, <1>4, <1>5, <1>6, ReaderStep

LEMMA ReturnInv ==
  ASSUME Inv, NEW s \in Readers, session[s].pc = "scan", Frame,
         \/ UNCHANGED <<object, pageTable>>
         \/ \E p \in Pages, o \in Objects : Get(p, o),
         session' = [session EXCEPT ![s] = Idle]
  PROVE  Inv'
  <1> s \in Sessions
    BY DEF Sessions
  <1>1. session'[s] = Idle
    BY Parts
  <1> QED
    BY <1>1, IdleFacts, IdleOK, ReaderStep

LEMMA ScanPageInv ==
  ASSUME Inv, NEW s \in Readers, ScanPage(s)
  PROVE  Inv'
  <1> s \in Sessions
    BY DEF Sessions
  <1>1. /\ session[s] \in Session /\ session[s].pc = "scan" /\ session[s].obj = None
        /\ session \in [Sessions -> Session] /\ ScanOK(s)
        /\ object \in [Objects -> Page] /\ disk \in [Pages -> Page \cup {None}]
        /\ pageTable \in [Pages -> Objects \cup {None}]
        /\ pagesCount \in Nat /\ pagesCount <= MaxPages
        /\ session[s].owed \subseteq acked /\ acked \subseteq Pages \X Nat \X Rows
        /\ session[s].tids \subseteq Tid
        /\ Copies /\ Present
    BY Parts DEF ScanPage, Sees, Holding, Inv, Pool, ScanOK, Session
  <1>2. /\ session[s].page \in Pages /\ session[s].page < session[s].count
        /\ session[s].count \in Nat /\ session[s].count <= pagesCount
    BY <1>1, PagesFacts DEF ScanPage, Session, Pages, ScanOK
  <1>p. PICK p \in Pages : p = session[s].page
    BY <1>2
  <1>3. Frame
    BY DEF ScanPage, Frame
  <1>4. p + 1 \in 0 .. MaxPages /\ p < pagesCount /\ p \in Nat
    BY <1>1, <1>2, <1>p, PagesFacts
  \* Either way the pages up to p are done with the TIDs in T.
  <1>5. ASSUME NEW T \in SUBSET Tid, session[s].tids \subseteq T,
               session' = [session EXCEPT ![s].page = p + 1, ![s].tids = T],
               \/ UNCHANGED <<object, pageTable>>
               \/ \E q \in Pages, o \in Objects : Get(q, o),
               p \notin lost => \A a \in acked : a[1] = p => <<a[1], a[2]>> \in T,
               \A tid \in T : tid \in session[s].tids
                              \/ (tid[1] = p /\ tid[2] < Len(View(p)))
        PROVE  Inv'
    <2> DEFINE x == [session[s] EXCEPT !.page = p + 1, !.tids = T]
    <2>1. session' = [session EXCEPT ![s] = x] /\ session'[s] = x
          /\ \A t \in Sessions : t # s => session'[t] = session[t]
      BY <1>1, <1>5
    <2>2. x \in Session /\ x.pc = "scan" /\ x.tids = T /\ x.obj = None
          /\ x.count = session[s].count /\ x.page = p + 1 /\ x.owed = session[s].owed
          /\ x.seen = session[s].seen
      BY <1>1, <1>4 DEF Session
    <2> HIDE DEF x
    <2>3. \A t \in Inserters : session[t].pc = "update" => session'[t] = session[t]
      BY <1>1, <2>1 DEF Sessions
    <2>4. \A q \in Pages : View(q)' = View(q)
      BY <1>3, <1>5, <2>3, QuietPool, GetEffect
    <2>5. \A tid \in T : tid[1] < pagesCount /\ (tid[1] \notin lost => Readable(tid)')
      <3> SUFFICES ASSUME NEW tid \in T
                   PROVE  tid[1] < pagesCount /\ (tid[1] \notin lost => Readable(tid)')
        OBVIOUS
      <3>1. tid[1] \in Pages
        BY DEF Tid
      <3>2. tid[1] < pagesCount
        BY <1>1, <1>4, <1>5 DEF ScanOK
      <3>3. ASSUME tid[1] \notin lost PROVE Readable(tid)'
        <4>1. CASE tid[2] < Len(View(tid[1]))
          BY <2>4, <3>1, <4>1 DEF Readable
        <4>2. CASE Unfinished(tid)
          BY <2>3, <4>2 DEF Readable, Unfinished
        <4> QED
          BY <1>1, <1>5, <3>3, <4>1, <4>2 DEF ScanOK
      <3> QED
        BY <3>2, <3>3
    <2>6. \A a \in session[s].owed :
            /\ a[1] < session[s].count
            /\ a[1] < p + 1 /\ a[1] \notin lost =>
                 <<a[1], a[2]>> \in T \/ a[3] \in session[s].seen
      <3> SUFFICES ASSUME NEW a \in session[s].owed
                   PROVE  /\ a[1] < session[s].count
                          /\ a[1] < p + 1 /\ a[1] \notin lost =>
                               <<a[1], a[2]>> \in T \/ a[3] \in session[s].seen
        OBVIOUS
      <3>1. a \in acked /\ a[1] \in Nat
        BY <1>1, PagesFacts
      <3>2. /\ a[1] < session[s].count
            /\ a[1] < p /\ a[1] \notin lost =>
                 <<a[1], a[2]>> \in session[s].tids \/ a[3] \in session[s].seen
        BY <1>1, <1>p DEF ScanOK
      <3>3. a[1] < p + 1 => a[1] < p \/ a[1] = p
        BY <1>4, <3>1
      <3> QED
        BY <1>5, <3>1, <3>2, <3>3
    <2>7. ScanOK(s)'
      BY <1>1, <1>2, <1>3, <2>1, <2>2, <2>5, <2>6 DEF ScanOK, Frame, Readable
    <2> QED
      BY <1>1, <1>3, <1>5, <2>1, <2>2, <2>7, ReaderStep
  <1>6. ASSUME NEW o \in Objects, Get(p, o),
               session' = [session EXCEPT ![s].page = p + 1,
                                          ![s].tids = @ \cup TidsOf(p, object'[o])]
        PROVE  Inv'
    <2> DEFINE T == session[s].tids \cup TidsOf(p, object'[o])
    <2>0. session' = [session EXCEPT ![s].page = p + 1, ![s].tids = T]
      BY <1>6
    <2>1. object'[o] = View(p) /\ View(p) # None
      BY <1>1, <1>6, NonePageAssumption DEF Get, View
    <2>2. View(p) \in Page /\ Len(View(p)) \in Nat
      BY <1>1, <2>1, PageFacts DEF View
    <2>3. \A i \in 0 .. Len(View(p)) - 1 : <<p, i>> \in Tid /\ i < Len(View(p))
      BY <2>2 DEF Tid
    <2>4. TidsOf(p, object'[o]) = {<<p, i>> : i \in 0 .. Len(View(p)) - 1}
      BY <2>1 DEF TidsOf
    <2>5. T \subseteq Tid /\ session[s].tids \subseteq T
          /\ \A tid \in T : tid \in session[s].tids
                            \/ (tid[1] = p /\ tid[2] < Len(View(p)))
      BY <1>1, <2>3, <2>4
    <2>6. ASSUME NEW a \in acked, a[1] = p PROVE <<a[1], a[2]>> \in T
      <3>1. a[2] \in Nat /\ Stored(View(p), a[2], a[3])
        BY <1>1, <2>1, <2>6 DEF Copies, View
      <3>2. a[2] \in 0 .. Len(View(p)) - 1
        BY <2>2, <3>1 DEF Stored
      <3> QED
        BY <2>4, <2>6, <3>2
    <2>7. PICK T1 \in SUBSET Tid : T1 = T
      BY <2>5
    <2> HIDE DEF T
    <2> QED
      BY <1>5, <1>6, <2>0, <2>5, <2>6, <2>7
  <1>7. ASSUME ~CanGet(p), session' = [session EXCEPT ![s].page = p + 1],
               UNCHANGED <<object, pageTable>>
        PROVE  Inv'
    <2>1. p \in lost
      BY <1>1, <1>4, <1>7 DEF Present, View, CanGet
    <2>2. session' = [session EXCEPT ![s].page = p + 1, ![s].tids = session[s].tids]
      BY <1>1, <1>7 DEF Session
    <2>3. PICK T1 \in SUBSET Tid : T1 = session[s].tids
      BY <1>1
    <2> QED
      BY <1>5, <1>7, <2>1, <2>2, <2>3
  <1> QED
    BY <1>6, <1>7, <1>p DEF ScanPage

LEMMA ReadRowInv ==
  ASSUME Inv, NEW s \in Readers, ReadRow(s)
  PROVE  Inv'
  <1> s \in Sessions
    BY DEF Sessions
  <1>1. /\ session[s] \in Session /\ session[s].pc = "scan" /\ session[s].obj = None
        /\ session \in [Sessions -> Session] /\ ScanOK(s)
        /\ object \in [Objects -> Page] /\ disk \in [Pages -> Page \cup {None}]
        /\ pageTable \in [Pages -> Objects \cup {None}]
        /\ session[s].owed \subseteq acked /\ acked \subseteq Pages \X Nat \X Rows
        /\ session[s].tids \subseteq Tid /\ session[s].seen \subseteq Rows \cup {Torn}
        /\ Copies
    BY Parts DEF ReadRow, Sees, Holding, Inv, Pool, ScanOK, Session
  <1>2. Frame
    BY DEF ReadRow, Frame
  <1>3. PICK tid \in session[s].tids :
          \/ \E o \in Objects :
               /\ Get(tid[1], o)
               /\ IF tid[2] < Len(object'[o])
                  THEN session' = [session EXCEPT ![s].tids = @ \ {tid},
                                                  ![s].seen = @ \cup {object'[o][tid[2] + 1]}]
                  ELSE session' = [session EXCEPT ![s] = Idle]
          \/ /\ ~CanGet(tid[1])
             /\ session' = [session EXCEPT ![s] = Idle]
             /\ UNCHANGED <<object, pageTable>>
    BY DEF ReadRow
  <1>p. PICK p \in Pages, n \in Nat : p = tid[1] /\ n = tid[2] /\ tid = <<p, n>>
    BY <1>1 DEF Tid
  <1>4. CASE ~CanGet(p) /\ session' = [session EXCEPT ![s] = Idle]
             /\ UNCHANGED <<object, pageTable>>
    BY <1>1, <1>2, <1>4, ReturnInv
  <1>5. ASSUME NEW o \in Objects, Get(p, o), session' = [session EXCEPT ![s] = Idle]
        PROVE  Inv'
    BY <1>1, <1>2, <1>5, ReturnInv
  <1>6. ASSUME NEW o \in Objects, Get(p, o), n < Len(object'[o]),
               session' = [session EXCEPT ![s].tids = @ \ {tid},
                                          ![s].seen = @ \cup {object'[o][n + 1]}]
        PROVE  Inv'
    <2>1. object'[o] = View(p) /\ View(p) # None
      BY <1>1, <1>6, NonePageAssumption DEF Get, View
    <2>2. View(p) \in Page /\ View(p) \in Seq(Rows \cup {Torn}) /\ Len(View(p)) \in Nat
      BY <1>1, <2>1, PageFacts DEF View
    <2>3. object'[o][n + 1] = View(p)[n + 1] /\ View(p)[n + 1] \in Rows \cup {Torn}
      BY <1>6, <2>1, <2>2
    <2>r. PICK r \in Rows \cup {Torn} : r = object'[o][n + 1]
      BY <2>3
    <2> DEFINE x == [session[s] EXCEPT !.tids = @ \ {tid}, !.seen = @ \cup {r}]
    <2>4. session' = [session EXCEPT ![s] = x] /\ session'[s] = x
          /\ \A t \in Sessions : t # s => session'[t] = session[t]
      BY <1>1, <1>6, <2>r
    <2>5. x \in Session /\ x.pc = "scan" /\ x.tids = session[s].tids \ {tid}
          /\ x.obj = None /\ x.count = session[s].count /\ x.page = session[s].page
          /\ x.owed = session[s].owed /\ x.seen = session[s].seen \cup {r}
      BY <1>1 DEF Session
    <2> HIDE DEF x
    <2>6. \A t \in Inserters : session[t].pc = "update" => session'[t] = session[t]
      BY <1>1, <2>4 DEF Sessions
    <2>7. \A q \in Pages : View(q)' = View(q)
      BY <1>2, <1>6, <2>6, GetEffect
    <2>8. ASSUME NEW t \in session[s].tids
          PROVE  t[1] < pagesCount /\ (t[1] \notin lost => Readable(t)')
      <3>1. t[1] \in Pages /\ t[1] < pagesCount
        BY <1>1 DEF Tid, ScanOK
      <3>2. ASSUME t[1] \notin lost PROVE Readable(t)'
        <4>1. CASE t[2] < Len(View(t[1]))
          BY <2>7, <3>1, <4>1 DEF Readable
        <4>2. CASE Unfinished(t)
          BY <2>6, <4>2 DEF Readable, Unfinished
        <4> QED
          BY <1>1, <3>2, <4>1, <4>2 DEF ScanOK
      <3> QED
        BY <3>1, <3>2
    <2>9. ASSUME NEW a \in session[s].owed
          PROVE  /\ a[1] < session[s].count
                 /\ a[1] < session[s].page /\ a[1] \notin lost =>
                      \/ <<a[1], a[2]>> \in session[s].tids \ {tid}
                      \/ a[3] \in session[s].seen \cup {r}
      <3>1. a \in acked /\ a[1] < session[s].count
            /\ (a[1] < session[s].page /\ a[1] \notin lost =>
                      <<a[1], a[2]>> \in session[s].tids \/ a[3] \in session[s].seen)
        BY <1>1 DEF ScanOK
      <3>2. CASE <<a[1], a[2]>> = tid
        <4>1. a[1] = p /\ a[2] = n
          BY <1>p, <3>2
        <4>2. View(p)[n + 1] = a[3]
          BY <2>1, <3>1, <4>1, <1>1 DEF Copies, View, Stored
        <4> QED
          BY <2>3, <2>r, <3>1, <4>2
      <3>3. CASE <<a[1], a[2]>> # tid
        BY <3>1, <3>3
      <3> QED
        BY <3>2, <3>3
    <2>10. ScanOK(s)'
      <3>1. (session[s].count <= pagesCount)'
        BY <1>1, <1>2, <2>4, <2>5 DEF ScanOK, Frame
      <3>2. (session[s].owed \subseteq acked)'
        BY <1>1, <1>2, <2>4, <2>5 DEF Frame
      <3>3. (\A a \in session[s].owed :
               /\ a[1] < session[s].count
               /\ a[1] < session[s].page /\ a[1] \notin lost =>
                    <<a[1], a[2]>> \in session[s].tids \/ a[3] \in session[s].seen)'
        BY <1>2, <2>4, <2>5, <2>9 DEF Frame
      <3>4. (\A t \in session[s].tids : t[1] < pagesCount /\ (t[1] \notin lost => Readable(t)))'
        BY <1>2, <2>4, <2>5, <2>8 DEF Frame
      <3> QED
        BY <2>4, <2>5, <3>1, <3>2, <3>3, <3>4 DEF ScanOK, Readable
    <2> QED
      BY <1>1, <1>2, <1>6, <2>4, <2>5, <2>10, ReaderStep
  <1> QED
    BY <1>3, <1>4, <1>5, <1>6, <1>p

-----------------------------------------------------------------------------
(* The steps of the pool and of the process. *)

LEMMA EvictInv ==
  ASSUME Inv, OneWriter, NEW p \in Pages, Evict(p)
  PROVE  Inv'
  <1>1. /\ session \in [Sessions -> Session]
        /\ object \in [Objects -> Page] /\ pageTable \in [Pages -> Objects \cup {None}]
        /\ disk \in [Pages -> Page \cup {None}] /\ dirty \subseteq Pages
        /\ acked \subseteq Pages \X Nat \X Rows /\ lost \subseteq Pages
        /\ pagesCount \in Nat /\ pagesCount <= MaxPages
        /\ TypeOK /\ Counted /\ Apart /\ Clean /\ Copies /\ Present
        /\ None \notin Objects /\ None \notin Page
    BY NoneAssumption, NonePageAssumption, PagesFacts DEF Inv, TypeOK, Pool
  <1>2. /\ pageTable[p] \in Objects
        /\ dirty' = dirty \ {p} /\ disk' = Flushed({p})
        /\ pageTable' = [pageTable EXCEPT ![p] = None]
        /\ lost' = lost \cup {q \in {p} : disk'[q] = None}
        /\ UNCHANGED <<object, pagesCount, savedCount, session, acked, restarts>>
    BY <1>1 DEF Evict
  <1>3. /\ disk' \in [Pages -> Page \cup {None}]
        /\ disk'[p] = (IF p \in dirty THEN object[pageTable[p]] ELSE disk[p])
        /\ \A q \in Pages : q # p => disk'[q] = disk[q]
        /\ pageTable' \in [Pages -> Objects \cup {None}] /\ pageTable'[p] = None
        /\ \A q \in Pages : q # p => pageTable'[q] = pageTable[q]
        /\ lost \subseteq lost' /\ lost' \subseteq Pages
        /\ disk'[p] = None => p \in lost'
    BY <1>1, <1>2 DEF Flushed
  <1>4. View(p)' = disk'[p] /\ \A q \in Pages : q # p => View(q)' = View(q)
    BY <1>1, <1>2, <1>3 DEF View
  <1>5. \/ View(p)' = View(p)
        \/ View(p)' = None /\ p \in lost'
        \/ \E s \in Inserters :
             /\ Ahead(s, p) /\ session[s].obj = pageTable[p]
             /\ View(p)' = SubSeq(object[session[s].obj], 1, session[s].slotID)
    <2>1. CASE p \in dirty \/ disk[p] = None
      BY <1>1, <1>2, <1>3, <1>4, <2>1 DEF View
    <2>2. CASE p \notin dirty /\ disk[p] # None /\ object[pageTable[p]] = disk[p]
      BY <1>1, <1>2, <1>3, <1>4, <2>2 DEF View
    <2>3. CASE p \notin dirty /\ disk[p] # None /\ object[pageTable[p]] # disk[p]
      <3>1. PICK s \in Inserters :
              /\ Ahead(s, p)
              /\ session[s].obj = pageTable[p]
              /\ disk[p] = SubSeq(object[pageTable[p]], 1, session[s].slotID)
        BY <1>1, <1>2, <2>3 DEF Clean
      <3> QED
        BY <1>3, <1>4, <2>3, <3>1
    <2> QED
      BY <2>1, <2>2, <2>3
  <1>6. TypeOK'
    BY <1>1, <1>2, <1>3 DEF TypeOK
  <1>7. Counted'
    <2>1. \A q \in Pages : q >= pagesCount => disk'[q] = None
      BY <1>1, <1>3, PagesFacts DEF Counted
    <2> QED
      BY <1>1, <1>2, <1>3, <2>1 DEF Counted
  <1>8. Apart'
    BY <1>1, <1>2, <1>3 DEF Apart
  <1>9. Clean'
    <2> SUFFICES ASSUME NEW q \in Pages, pageTable'[q] # None, q \notin dirty', disk'[q] # None
                 PROVE  \/ object'[pageTable'[q]] = disk'[q]
                        \/ \E s \in Inserters :
                             /\ Ahead(s, q)'
                             /\ session'[s].obj = pageTable'[q]
                             /\ disk'[q] = SubSeq(object'[pageTable'[q]], 1, session'[s].slotID)
      BY DEF Clean
    <2>1. q # p /\ q \notin dirty
      BY <1>2, <1>3
    <2>2. \/ object[pageTable[q]] = disk[q]
          \/ \E s \in Inserters :
               /\ Ahead(s, q)
               /\ session[s].obj = pageTable[q]
               /\ disk[q] = SubSeq(object[pageTable[q]], 1, session[s].slotID)
      BY <1>1, <1>3, <2>1 DEF Clean
    <2> QED
      BY <1>2, <1>3, <2>1, <2>2 DEF Ahead
  <1>10. Copies'
    <2> SUFFICES ASSUME NEW a \in acked
                 PROVE  /\ disk'[a[1]] # None => Stored(disk'[a[1]], a[2], a[3])
                        /\ pageTable'[a[1]] # None =>
                             Stored(object[pageTable'[a[1]]], a[2], a[3])
      BY <1>2 DEF Copies, Stored
    <2>1. /\ a[1] \in Pages
          /\ disk[a[1]] # None => Stored(disk[a[1]], a[2], a[3])
          /\ pageTable[a[1]] # None => Stored(object[pageTable[a[1]]], a[2], a[3])
      BY <1>1 DEF Copies
    <2> QED
      BY <1>1, <1>2, <1>3, <2>1
  <1>11. Present'
    <2>1. \A q \in Pages : q < pagesCount /\ q \notin lost' => View(q)' # None
      BY <1>1, <1>3, <1>4 DEF Present
    <2> QED
      BY <1>2, <2>1 DEF Present
  <1>12. ASSUME NEW tid \in Tid, tid[1] \notin lost', Readable(tid) PROVE Readable(tid)'
    <2>1. tid[1] \in Pages /\ tid[2] \in Nat
      BY DEF Tid
    <2>2. CASE Unfinished(tid)
      BY <1>2, <2>2 DEF Readable, Unfinished
    <2>3. CASE tid[2] < Len(View(tid[1])) /\ View(tid[1])' = View(tid[1])
      BY <2>3 DEF Readable
    <2>4. CASE tid[2] < Len(View(tid[1])) /\ View(tid[1])' # View(tid[1])
      <3>1. tid[1] = p
        BY <1>4, <2>1, <2>4
      <3>2. PICK s \in Inserters :
             /\ Ahead(s, p) /\ session[s].obj = pageTable[p]
             /\ View(p)' = SubSeq(object[session[s].obj], 1, session[s].slotID)
        BY <1>5, <1>12, <2>4, <3>1
      <3>3. /\ object[session[s].obj] \in Seq(Rows \cup {Torn}) /\ session[s].slotID \in Nat
            /\ session[s].slotID + 1 = Len(object[session[s].obj])
            /\ View(p) = object[session[s].obj]
        <4>1. s \in Sessions /\ session[s] \in Session /\ Written(s)
          BY <1>1 DEF Sessions, Inv, WriterOK
        <4> QED
          BY <1>1, <1>2, <3>2, <4>1, PageFacts DEF Written, Ahead, Session, View
      <3>4. Len(View(p)') = session[s].slotID
        BY <3>2, <3>3
      <3>5. CASE tid[2] = session[s].slotID
        BY <1>2, <3>1, <3>2, <3>5 DEF Readable, Unfinished, Ahead
      <3>6. CASE tid[2] # session[s].slotID
        <4>1. tid[2] < Len(View(tid[1])')
          BY <2>1, <2>4, <3>1, <3>3, <3>4, <3>6
        <4> QED
          BY <4>1 DEF Readable
      <3> QED
        BY <3>5, <3>6
    <2> QED
      BY <1>12, <2>2, <2>3, <2>4 DEF Readable
  <1>13. ASSUME NEW t \in Sessions PROVE WriterOK(t)' /\ ScanOK(t)'
    <2>1. WriterOK(t) /\ ScanOK(t) /\ session'[t] = session[t]
      BY <1>2 DEF Inv
    <2>0. pagesCount' \in Nat /\ pagesCount <= pagesCount' /\ acked \subseteq acked'
      BY <1>1, <1>2
    <2>2. ScanOK(t)'
      BY <1>1, <1>3, <1>12, <2>0, <2>1, ScanFrame
    <2>3. CASE session[t].pc \in {"idle", "scan"}
      BY <2>1, <2>2, <2>3, NoWriter
    <2>4. CASE session[t].pc \notin {"idle", "scan"}
      <3>1. t \in Inserters
        BY <2>1, <2>4 DEF WriterOK, Sees
      <3>2. \A q \in Pages :
              \/ View(q)' = View(q)
              \/ View(q)' = None /\ q \in lost'
              \/ /\ session[t].pc = "update" /\ q = session[t].page
                 /\ View(q)' = SubSeq(object[session[t].obj], 1, session[t].slotID)
        BY <1>4, <1>5, <3>1 DEF Ahead, OneWriter
      <3>3. session[t].obj # None =>
              \A q \in Pages : pageTable'[q] = session[t].obj => pageTable[q] = session[t].obj
        BY <1>3
      <3>4. dirty' \subseteq dirty /\ \A q \in dirty' : pageTable'[q] = pageTable[q]
        BY <1>1, <1>2, <1>3
      <3>5. WriterOK(t)'
        BY <1>1, <1>2, <1>3, <2>1, <3>2, <3>3, <3>4, WriterFrame
      <3> QED
        BY <2>2, <3>5
    <2> QED
      BY <2>3, <2>4
  <1> QED
    BY <1>6, <1>7, <1>8, <1>9, <1>10, <1>11, <1>13 DEF Inv, Pool

LEMMA FlushPageInv ==
  ASSUME Inv, NEW p \in Pages, FlushPage(p)
  PROVE  Inv'
  <1>1. /\ session \in [Sessions -> Session]
        /\ object \in [Objects -> Page] /\ pageTable \in [Pages -> Objects \cup {None}]
        /\ disk \in [Pages -> Page \cup {None}] /\ dirty \subseteq Pages
        /\ acked \subseteq Pages \X Nat \X Rows
        /\ pagesCount \in Nat /\ pagesCount <= MaxPages
        /\ TypeOK /\ Counted /\ Apart /\ Clean /\ Copies /\ Present
        /\ None \notin Objects /\ None \notin Page
    BY NoneAssumption, NonePageAssumption, PagesFacts DEF Inv, TypeOK, Pool
  <1>2. /\ p \in dirty /\ pageTable[p] \in Objects /\ p < pagesCount
        /\ dirty' = dirty \ {p} /\ disk' = Flushed({p})
        /\ UNCHANGED <<object, pageTable, pagesCount, savedCount, session, acked, lost, restarts>>
    BY <1>1 DEF FlushPage, Counted
  <1>3. /\ disk' \in [Pages -> Page \cup {None}]
        /\ disk'[p] = object[pageTable[p]]
        /\ \A q \in Pages : q # p => disk'[q] = disk[q]
    BY <1>1, <1>2 DEF Flushed
  <1>4. \A q \in Pages : View(q)' = View(q)
    BY <1>1, <1>2, <1>3 DEF View
  <1>6. TypeOK'
    BY <1>1, <1>2, <1>3 DEF TypeOK
  <1>7. Counted'
    <2>1. \A q \in Pages : q >= pagesCount => disk'[q] = None
      BY <1>1, <1>2, <1>3, PagesFacts DEF Counted
    <2> QED
      BY <1>1, <1>2, <2>1 DEF Counted
  <1>8. Apart' /\ Present'
    BY <1>1, <1>2, <1>4 DEF Apart, Present
  <1>9. Clean'
    <2> SUFFICES ASSUME NEW q \in Pages, pageTable'[q] # None, q \notin dirty', disk'[q] # None
                 PROVE  \/ object'[pageTable'[q]] = disk'[q]
                        \/ \E s \in Inserters :
                             /\ Ahead(s, q)'
                             /\ session'[s].obj = pageTable'[q]
                             /\ disk'[q] = SubSeq(object'[pageTable'[q]], 1, session'[s].slotID)
      BY DEF Clean
    <2>1. CASE q = p
      BY <1>2, <1>3, <2>1
    <2>2. CASE q # p
      <3>1. \/ object[pageTable[q]] = disk[q]
            \/ \E s \in Inserters :
                 /\ Ahead(s, q)
                 /\ session[s].obj = pageTable[q]
                 /\ disk[q] = SubSeq(object[pageTable[q]], 1, session[s].slotID)
        BY <1>1, <1>2, <1>3, <2>2 DEF Clean
      <3> QED
        BY <1>2, <1>3, <2>2, <3>1 DEF Ahead
    <2> QED
      BY <2>1, <2>2
  <1>10. Copies'
    <2> SUFFICES ASSUME NEW a \in acked
                 PROVE  /\ disk'[a[1]] # None => Stored(disk'[a[1]], a[2], a[3])
                        /\ pageTable[a[1]] # None =>
                             Stored(object[pageTable[a[1]]], a[2], a[3])
      BY <1>2 DEF Copies, Stored
    <2>1. /\ a[1] \in Pages
          /\ disk[a[1]] # None => Stored(disk[a[1]], a[2], a[3])
          /\ pageTable[a[1]] # None => Stored(object[pageTable[a[1]]], a[2], a[3])
      BY <1>1 DEF Copies
    <2> QED
      BY <1>1, <1>2, <1>3, <2>1
  <1>11. ASSUME NEW tid \in Tid, Readable(tid) PROVE Readable(tid)'
    <2>1. tid[1] \in Pages
      BY DEF Tid
    <2>2. View(tid[1])' = View(tid[1])
      BY <1>4, <2>1
    <2> QED
      BY <1>2, <1>11, <2>2 DEF Readable, Unfinished
  <1>12. ASSUME NEW t \in Sessions PROVE WriterOK(t)' /\ ScanOK(t)'
    <2>1. WriterOK(t) /\ ScanOK(t) /\ session'[t] = session[t]
      BY <1>2 DEF Inv
    <2>2. pagesCount' \in Nat /\ pagesCount <= pagesCount' /\ acked \subseteq acked'
          /\ lost \subseteq lost'
      BY <1>1, <1>2
    <2>3. ScanOK(t)'
      BY <1>1, <1>11, <2>1, <2>2, ScanFrame
    <2>4. WriterOK(t)'
      BY <1>1, <1>2, <1>4, <2>1, WriterFrame
    <2> QED
      BY <2>3, <2>4
  <1> QED
    BY <1>6, <1>7, <1>8, <1>9, <1>10, <1>12 DEF Inv, Pool

LEMMA RestartInv ==
  ASSUME Inv, Restart
  PROVE  Inv'
  <1>1. /\ disk \in [Pages -> Page \cup {None}]
        /\ acked \subseteq Pages \X Nat \X Rows /\ lost \subseteq Pages
        /\ pagesCount \in 0 .. MaxPages /\ restarts \in 0 .. MaxRestarts
        /\ Counted /\ Copies /\ Present
    BY DEF Inv, TypeOK, Pool
  <1>2. /\ restarts' = restarts + 1 /\ restarts < MaxRestarts
        /\ pageTable' = [q \in Pages |-> None]
        /\ dirty' = {} /\ pagesCount' = pagesCount /\ savedCount' = pagesCount
        /\ session' = [s \in Sessions |-> Idle]
        /\ object' = [o \in Objects |-> <<>>]
        /\ lost' = lost \cup {q \in Pages : pageTable[q] # None /\ disk[q] = None}
        /\ UNCHANGED <<disk, acked>>
    BY <1>1 DEF Restart, Counted
  <1>3. <<>> \in Page
    BY EmptyPage
  <1>4. restarts + 1 \in 0 .. MaxRestarts
    BY <1>1, <1>2, MaxRestartsAssumption
  <1>5. TypeOK'
    BY <1>1, <1>2, <1>3, <1>4, IdleFacts DEF TypeOK
  <1>6. Counted'
    BY <1>1, <1>2 DEF Counted
  <1>7. Apart' /\ Clean'
    BY <1>2 DEF Apart, Clean
  <1>8. Copies'
    BY <1>1, <1>2 DEF Copies, Stored
  <1>9. Present'
    BY <1>1, <1>2 DEF Present, View
  <1>10. ASSUME NEW t \in Sessions PROVE WriterOK(t)' /\ ScanOK(t)'
    <2>1. session'[t] = Idle
      BY <1>2
    <2> QED
      BY <2>1, IdleOK
  <1> QED
    BY <1>5, <1>6, <1>7, <1>8, <1>9, <1>10 DEF Inv, Pool

-----------------------------------------------------------------------------
(* The theorems. *)

LEMMA InitInv ==
  ASSUME Init
  PROVE  Inv
  <1>1. TypeOK
    <2>1. object \in [Objects -> Page]
      BY EmptyPage DEF Init
    <2>2. pagesCount \in 0 .. MaxPages /\ savedCount \in 0 .. MaxPages
          /\ restarts \in 0 .. MaxRestarts
      BY PagesFacts, MaxRestartsAssumption DEF Init
    <2> QED
      BY <2>1, <2>2, IdleFacts DEF Init, TypeOK
  <1>2. Counted /\ Apart /\ Clean /\ Copies
    BY DEF Init, Counted, Apart, Clean, Copies
  <1>3. Present
    BY PagesFacts DEF Init, Present
  <1>4. ASSUME NEW s \in Sessions PROVE WriterOK(s) /\ ScanOK(s)
    <2>1. session[s].pc = "idle" /\ session[s].tids = {} /\ session[s].obj = None
      BY IdleFacts DEF Init
    <2> QED
      BY <2>1 DEF WriterOK, ScanOK, Sees, Holds, Current, Written, Placed, Holding
  <1> QED
    BY <1>1, <1>2, <1>3, <1>4 DEF Inv, Pool

LEMMA NextInv ==
  ASSUME OneWriter, Inv, [Next]_vars
  PROVE  Inv'
  <1>1. CASE UNCHANGED vars
    BY <1>1 DEF vars, Inv, TypeOK, Pool, Counted, Apart, Clean, Copies, Present, WriterOK,
                ScanOK, Sees, Holds, Current, Written, Placed, Holding, Ahead, Unfinished,
                View, Stored
  <1>2. ASSUME NEW s \in Inserters, NEW r \in Rows, Analyze(s, r) PROVE Inv'
    BY <1>2, AnalyzeInv
  <1>3. ASSUME NEW s \in Inserters, TryPage(s) PROVE Inv'
    BY <1>3, TryPageInv
  <1>4. ASSUME NEW s \in Inserters, ReadSize(s) PROVE Inv'
    BY <1>4, ReadSizeInv
  <1>5. ASSUME NEW s \in Inserters, WriteChecks(s) PROVE Inv'
    BY <1>5, WriteChecksInv
  <1>6. ASSUME NEW s \in Inserters, WriteStores(s) PROVE Inv'
    BY <1>6, WriteStoresInv
  <1>7. ASSUME NEW s \in Inserters, Update(s) PROVE Inv'
    BY <1>7, UpdateInv
  <1>8. ASSUME NEW s \in Inserters, NewPage(s) PROVE Inv'
    BY <1>8, NewPageInv
  <1>9. ASSUME NEW s \in Inserters, UpdatePagesCount(s) PROVE Inv'
    BY <1>9, UpdatePagesCountInv
  <1>10. ASSUME NEW s \in Inserters, Acknowledge(s) PROVE Inv'
    BY <1>10, AcknowledgeInv
  <1>11. ASSUME NEW s \in Readers, StartScan(s) PROVE Inv'
    BY <1>11, StartScanInv
  <1>12. ASSUME NEW s \in Readers, ScanPage(s) PROVE Inv'
    BY <1>12, ScanPageInv
  <1>13. ASSUME NEW s \in Readers, ReadRow(s) PROVE Inv'
    BY <1>13, ReadRowInv
  <1>14. ASSUME NEW s \in Readers, Return(s) PROVE Inv'
    BY <1>14, ReturnInv DEF Return, Frame
  <1>15. ASSUME NEW p \in Pages, Evict(p) PROVE Inv'
    BY <1>15, EvictInv
  <1>16. ASSUME NEW p \in Pages, FlushPage(p) PROVE Inv'
    BY <1>16, FlushPageInv
  <1>17. CASE Restart
    BY <1>17, RestartInv
  <1> QED
    BY <1>1, <1>2, <1>3, <1>4, <1>5, <1>6, <1>7, <1>8, <1>9, <1>10, <1>11, <1>12, <1>13,
       <1>14, <1>15, <1>16, <1>17 DEF Next

(* The inductive invariant holds of the table, whatever is evicted and whenever
   the process restarts, if one session at a time inserts. *)
THEOREM TableInvariant ==
  ASSUME OneWriter
  PROVE  Spec => []Inv
  <1>1. Init => Inv
    BY InitInv
  <1>2. Inv /\ [Next]_vars => Inv'
    BY NextInv
  <1> QED
    BY <1>1, <1>2, PTL DEF Spec

LEMMA InvAckedReadable ==
  ASSUME Inv
  PROVE  AckedReadable
  <1> SUFFICES ASSUME NEW a \in acked, a[1] \notin lost
               PROVE  Selectable(a)
    BY DEF AckedReadable
  <1>1. a[1] \in Pages /\ a[1] < pagesCount
    BY DEF Inv, Pool, TypeOK, Counted
  <1>2. View(a[1]) # None
    BY <1>1 DEF Inv, Pool, Present
  <1>3. Stored(View(a[1]), a[2], a[3])
    BY <1>2 DEF Inv, Pool, Copies, View
  <1> QED
    BY <1>1, <1>2, <1>3 DEF Selectable, Stored

LEMMA InvTidsStayValid ==
  ASSUME Inv
  PROVE  TidsStayValid
  <1>1. TidNeverReused
    BY DEF TidNeverReused, Inv, Pool, Copies, View, Stored
  <1>2. ASSUME NEW s \in Readers, NEW tid \in session[s].tids, tid[1] \notin lost
        PROVE  View(tid[1]) # None /\ (tid[2] < Len(View(tid[1])) \/ Unfinished(tid))
    <2>1. ScanOK(s) /\ tid[1] \in Pages
      BY DEF Inv, TypeOK, Sessions, Session, Tid
    <2>2. View(tid[1]) # None
      BY <1>2, <2>1 DEF Inv, Pool, Present, ScanOK
    <2> QED
      BY <1>2, <2>1, <2>2 DEF ScanOK
  <1> QED
    BY <1>1, <1>2 DEF TidsStayValid, ScannedIsReadable

(* Every acknowledged INSERT stays selectable through evictions and restarts,
   but for the rows of a page dropped before it was in the file. *)
THEOREM RowsStayReadable ==
  ASSUME OneWriter
  PROVE  Spec => []AckedReadable
  <1>1. Inv => AckedReadable
    BY InvAckedReadable
  <1> QED
    BY <1>1, TableInvariant, PTL

(* A TID an index keeps never leads to another row, and a scan can read the
   TIDs it found. *)
THEOREM TidsNeverGoBad ==
  ASSUME OneWriter
  PROVE  Spec => []TidsStayValid
  <1>1. Inv => TidsStayValid
    BY InvTidsStayValid
  <1> QED
    BY <1>1, TableInvariant, PTL

(* A SELECT that returns has every row acknowledged before it began, but for
   the rows of dropped pages. *)
THEOREM ScansMissNothing ==
  ASSUME OneWriter
  PROVE  Spec => SelectComplete
  <1>1. ASSUME Inv, NEW s \in Readers, Return(s), NEW a \in session[s].owed, a[1] \notin lost
        PROVE  a[3] \in session[s].seen
    <2>0. ScanOK(s) /\ session[s] \in Session
      BY <1>1 DEF Inv, TypeOK, Sessions
    <2>1. ScanOK(s) /\ session[s] \in Session /\ a[1] \in Nat
      BY <2>0, PagesFacts DEF Session
    <2>2. session[s].pc = "scan" /\ session[s].page >= session[s].count
          /\ session[s].tids = {}
      BY <1>1 DEF Return
    <2>3. a[1] < session[s].page
      BY <2>1, <2>2, PagesFacts DEF ScanOK, Session
    <2> QED
      BY <1>1, <2>1, <2>2, <2>3 DEF ScanOK
  <1>2. Inv =>
          [\A s \in Readers : Return(s) =>
             \A a \in session[s].owed : a[1] \notin lost => a[3] \in session[s].seen]_vars
    BY <1>1
  <1> QED
    BY <1>2, TableInvariant, PTL DEF SelectComplete
=============================================================================
