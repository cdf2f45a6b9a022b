------------------------------ MODULE SqlEngine ------------------------------
(***************************************************************************)
(* SqlService and what it drives: analyzer, planner, optimizer and the     *)
(* executors of INSERT, CREATE INDEX and SELECT on one table.  Sessions    *)
(* run statements concurrently; nothing locks a table, so the steps of two *)
(* statements interleave wherever a catalog, heap or index call returns.   *)
(*                                                                         *)
(* A heap call (InsertRow, ScanTids, ReadRow) and an index call (Insert,   *)
(* Search, RangeSearch) are one step here and do what TableHeap,           *)
(* DiskHashIndex and DiskBTreeIndex show of them without evictions and     *)
(* restarts.  An index whose Insert failed part way is damaged: it may     *)
(* have lost entries of any row (IndexInsertFails, Findable).              *)
(* Lexer, parser, EXPLAIN and the projection leave no trace.               *)
(***************************************************************************)
EXTENDS KeyRange, Sequences, FiniteSets, SequencesExt

CONSTANTS Sessions,
          Writers,     \* the sessions that run INSERT and CREATE INDEX
          Readers,     \* the sessions that run SELECT
          Columns,     \* the columns of the table
          Rows,        \* rows that are inserted
          Indexes,     \* index definitions: [name, column, type]
          Queries,     \* resolved WHERE clauses of SELECTs
          Predicates,  \* the clauses and their boolean subexpressions
          PerPage,     \* rows per page
          MaxRows,     \* bound on the rows of the table
          MaxFaults    \* bound on the calls that fail, for whatever reason

ASSUME SessionsAssumption == Writers \cup Readers = Sessions
ASSUME PerPageAssumption == PerPage \in Nat \ {0}
ASSUME RowsAssumption == Rows \subseteq [Columns -> Int]

\* An index is identified by its name.
ASSUME IndexesAssumption ==
  /\ Nil \notin Indexes
  /\ \A i \in Indexes : i.column \in Columns
  /\ \A i, j \in Indexes : i.name = j.name => i = j

VARIABLES heap,     \* the pages of the table, each a sequence of rows
          pages,    \* PagesCount of the table's definition
          indexes,  \* the registered indexes, in order
          entries,  \* entries[i]: the sequence of [key, tid] in index i
          sess,     \* the statement of each session, see Idle
          acked,    \* history: TIDs of acknowledged INSERTs
          built,    \* history: indexes of acknowledged CREATE INDEXes
          skipped,  \* history: ScanTids has passed over an unreadable page
          damaged,  \* the indexes of which an Insert has failed part way
          faults

vars == <<heap, pages, indexes, entries, sess, acked, built, skipped, damaged,
          faults>>

\* pages: the count in the definition that the analyzer read; todo: the indexes
\* an INSERT has yet to update; due: the rows acknowledged before a SELECT.
Idle == [pc |-> "idle", pages |-> 0, row |-> Nil, tid |-> Nil, todo |-> <<>>,
         index |-> Nil, pred |-> Nil, plan |-> Nil, tids |-> <<>>,
         out |-> <<>>, due |-> {}]

RowAt(tid) == heap[tid[1]][tid[2]]
Stored == UNION {{<<p, i>> : i \in DOMAIN heap[p]} : p \in DOMAIN heap}

-----------------------------------------------------------------------------
(* Resolved expressions: [op, left, right], a column reference [column] or a
   constant [value]. *)

IsColumn(e) == "column" \in DOMAIN e
IsConst(e) == "value" \in DOMAIN e

Connectives == {"AND", "OR"}

\* The analyzer has resolved every operand to a column of the table or to a
\* constant of its type; an expression is a finite tree.
ASSUME PredicatesAssumption ==
  /\ Queries \subseteq Predicates
  /\ Nil \notin Predicates
  /\ \A p \in Predicates :
       /\ p.op \in Connectives \cup Comparisons
       /\ p.op \in Connectives => {p.left, p.right} \subseteq Predicates
       /\ p.op \in Comparisons =>
            \A e \in {p.left, p.right} :
              /\ IsColumn(e) => ~IsConst(e) /\ e.column \in Columns
              /\ ~IsColumn(e) => IsConst(e) /\ e.value \in Int
ASSUME FiniteTreesAssumption ==
  \A S \in SUBSET Predicates :
    S # {} => \E p \in S : p.op \in Connectives => {p.left, p.right} \cap S = {}
ASSUME NilRangeAssumption == Nil \notin Ranges(Columns)

eval(e, row) == IF IsColumn(e) THEN row[e.column] ELSE e.value

evalBool(pred, row) ==
  LET holds[p \in Predicates] ==
        CASE p.op = "AND" -> holds[p.left] /\ holds[p.right]
          [] p.op = "OR"  -> holds[p.left] \/ holds[p.right]
          [] OTHER        -> Compare(p.op, eval(p.left, row), eval(p.right, row))
  IN  holds[pred]

-----------------------------------------------------------------------------
(* The optimizer. *)

\* extractSingleRange: a column against a constant, on either side.
extractSingleRange(p) ==
  CASE IsColumn(p.left) /\ IsConst(p.right) ->
         BuildRange(p.left.column, p.op, p.right.value)
    [] IsConst(p.left) /\ IsColumn(p.right) ->
         BuildRange(p.right.column, invertOp(p.op), p.left.value)
    [] OTHER -> Nil

\* An OR has no range of its own: its operands are not column and constant.
extractRange(pred) ==
  LET range[p \in Predicates] ==
        CASE p.op = "AND" -> mergeAndRanges(range[p.left], range[p.right])
          [] p.op = "OR"  -> Nil
          [] OTHER        -> extractSingleRange(p)
  IN  range[pred]

\* findIndex: the first registered index of a type on a column.
FindIndex(column, type) ==
  LET found == {n \in DOMAIN indexes :
                  indexes[n].type = type /\ indexes[n].column = column}
  IN  IF found = {} THEN Nil ELSE indexes[Min(found)]

extractEquality(pred) ==
  IF pred.op = "=" THEN extractSingleRange(pred) ELSE Nil

Scan(type, index, range) == [type |-> type, index |-> index, range |-> range]

tryHashScan(pred) ==
  LET eq == extractEquality(pred)
      i == IF eq = Nil THEN Nil ELSE FindIndex(eq.column, "HASH")
  IN  IF i = Nil THEN Nil ELSE Scan("HASH", i, eq)

tryBTreeScan(pred) ==
  LET r == extractRange(pred)
      i == IF r = Nil THEN Nil ELSE FindIndex(r.column, "BTREE")
  IN  IF i = Nil THEN Nil ELSE Scan("BTREE", i, r)

SeqScan == Scan("SEQ", Nil, Nil)

\* The plan of a SELECT without WHERE (pred = Nil) is always sequential.
chooseBestScan(pred) ==
  CASE pred = Nil -> SeqScan
    [] pred # Nil /\ tryHashScan(pred) # Nil -> tryHashScan(pred)
    [] pred # Nil /\ tryHashScan(pred) = Nil /\ tryBTreeScan(pred) # Nil ->
         tryBTreeScan(pred)
    [] OTHER -> SeqScan

\* The elements of seq at these positions.
Pick(seq, positions) ==
  LET order == SetToSeq(positions) IN [k \in DOMAIN order |-> seq[order[k]]]

\* The entries of an index whose key the scan asks for.
Matching(plan) ==
  {n \in DOMAIN entries[plan.index.name] :
     InRange(plan.range, entries[plan.index.name][n].key)}

\* What a search can find: every matching entry, or, in a damaged index, any of
\* them: a failed split leaves maxBucket ahead of the moved entries, or leaves
\* out of reach of findLeaf, until a later split puts them right again.  A
\* search that fails, panics or never returns there answers nothing.
Findable(plan) ==
  IF plan.index \in damaged THEN SUBSET Matching(plan) ELSE {Matching(plan)}

\* The TIDs of these entries, once per entry.
SearchIndex(plan, found) ==
  LET es == Pick(entries[plan.index.name], found)
  IN  [k \in DOMAIN es |-> es[k].tid]

-----------------------------------------------------------------------------
(* Actions. *)

Init ==
  /\ heap = <<>>
  /\ pages = 0
  /\ indexes = <<>>
  /\ entries = [n \in {i.name : i \in Indexes} |-> <<>>]
  /\ sess = [s \in Sessions |-> Idle]
  /\ acked = {}
  /\ built = {}
  /\ skipped = FALSE
  /\ damaged = {}
  /\ faults = 0

Fault == faults < MaxFaults /\ faults' = faults + 1

Become(s, st) == sess' = [sess EXCEPT ![s] = st]
At(s, pc) == sess[s].pc = pc

\* A call returns an error without having changed anything, which ends the
\* statement.
Fails(s) ==
  /\ ~At(s, "idle")
  /\ Fault
  /\ Become(s, Idle)
  /\ UNCHANGED <<heap, pages, indexes, entries, acked, built, skipped, damaged>>

(* INSERT *)

Insert(s, row) ==
  /\ At(s, "idle")
  /\ s \in Writers
  /\ Cardinality(Stored) < MaxRows
  /\ Become(s, [Idle EXCEPT !.pc = "insert", !.row = row, !.pages = pages])
  /\ UNCHANGED <<heap, pages, indexes, entries, acked, built, skipped, damaged, faults>>

\* The first page with room, of those the definition counts, or a new one.
TargetPage(count) ==
  LET room == {p \in 1 .. count : Len(heap[p]) < PerPage}
  IN  IF room = {} THEN count + 1 ELSE Min(room)

\* NewPage refuses a page that another statement has made.  UpdatePagesCount
\* changes the definition even when its record cannot be appended.
InsertRow(s) ==
  LET p == TargetPage(sess[s].pages)
      new == p > sess[s].pages
  IN  /\ At(s, "insert")
      /\ IF new /\ p <= Len(heap)
         THEN Become(s, Idle) /\ UNCHANGED <<heap, pages, faults>>
         ELSE /\ heap' = IF new THEN Append(heap, <<sess[s].row>>)
                         ELSE [heap EXCEPT ![p] = Append(@, sess[s].row)]
              /\ pages' = IF new THEN p ELSE pages
              /\ \/ /\ Become(s, [sess[s] EXCEPT !.pc = "list",
                                                 !.tid = <<p, Len(heap'[p])>>])
                    /\ UNCHANGED faults
                 \/ new /\ Fault /\ Become(s, Idle)
      /\ UNCHANGED <<indexes, entries, acked, built, skipped, damaged>>

ListIndexes(s) ==
  /\ At(s, "list")
  /\ Become(s, [sess[s] EXCEPT !.pc = "entries", !.todo = indexes])
  /\ UNCHANGED <<heap, pages, indexes, entries, acked, built, skipped, damaged, faults>>

AddEntry(i, row, tid) ==
  entries' = [entries EXCEPT ![i.name] = Append(@, [key |-> row[i.column], tid |-> tid])]

InsertEntryFirstOnly(s) ==
  /\ At(s, "entries")
  /\ sess[s].todo # <<>>
  /\ AddEntry(Head(sess[s].todo), sess[s].row, sess[s].tid)
  /\ Become(s, [sess[s] EXCEPT !.todo = <<>>])
  /\ UNCHANGED <<heap, pages, indexes, acked, built, skipped, damaged, faults>>
InsertEntry(s) ==
  /\ At(s, "entries")
  /\ sess[s].todo # <<>>
  /\ AddEntry(Head(sess[s].todo), sess[s].row, sess[s].tid)
  /\ Become(s, [sess[s] EXCEPT !.todo = Tail(@)])
  /\ UNCHANGED <<heap, pages, indexes, acked, built, skipped, damaged, faults>>

\* idx.Insert returns an error part way.  A hash split that fails has emptied
\* its bucket, a leaf split that fails may have written only the lower half, and
\* an error after the write leaves the new entry in place: any of the entries,
\* those of acknowledged rows and the new one included, may be gone.
IndexInsertFails(i, row, tid) ==
  LET given == Append(entries[i.name], [key |-> row[i.column], tid |-> tid])
  IN  /\ Fault
      /\ \E kept \in SUBSET DOMAIN given :
           entries' = [entries EXCEPT ![i.name] = Pick(given, kept)]
      /\ damaged' = damaged \cup {i}

InsertEntryFails(s) ==
  /\ At(s, "entries")
  /\ sess[s].todo # <<>>
  /\ IndexInsertFails(Head(sess[s].todo), sess[s].row, sess[s].tid)
  /\ Become(s, Idle)
  /\ UNCHANGED <<heap, pages, indexes, acked, built, skipped>>

InsertDone(s) ==
  /\ At(s, "entries")
  /\ sess[s].todo = <<>>
  /\ acked' = acked \cup {sess[s].tid}
  /\ Become(s, Idle)
  /\ UNCHANGED <<heap, pages, indexes, entries, built, skipped, damaged, faults>>

(* CREATE INDEX *)

CreateIndex(s, i) ==
  /\ At(s, "idle")
  /\ s \in Writers
  /\ ~Contains(indexes, i)
  /\ Become(s, [Idle EXCEPT !.pc = "create", !.index = i, !.pages = pages])
  /\ UNCHANGED <<heap, pages, indexes, entries, acked, built, skipped, damaged, faults>>

\* The catalog registers the index even when its record cannot be appended,
\* and refuses a name that has been taken since the analyzer looked.
RegisterIndex(s) ==
  LET i == sess[s].index IN
  /\ At(s, "create")
  /\ IF Contains(indexes, i)
     THEN Become(s, Idle) /\ UNCHANGED <<indexes, faults>>
     ELSE /\ indexes' = Append(indexes, i)
          /\ \/ Become(s, [sess[s] EXCEPT !.pc = "scan"]) /\ UNCHANGED faults
             \/ Fault /\ Become(s, Idle)
  /\ UNCHANGED <<heap, pages, entries, acked, built, skipped, damaged>>

\* The TIDs of these pages; no property depends on their order.
TidsOf(ps) == SetToSeq(UNION {{<<p, n>> : n \in DOMAIN heap[p]} : p \in ps})

\* A page that cannot be read is passed over without an error.
ScanTids(s, pc) ==
  LET all == 1 .. sess[s].pages
  IN  \/ /\ Become(s, [sess[s] EXCEPT !.pc = pc, !.tids = TidsOf(all)])
         /\ UNCHANGED <<skipped, faults>>
      \/ /\ Fault
         /\ skipped' = TRUE
         /\ \E p \in all :
              Become(s, [sess[s] EXCEPT !.pc = pc, !.tids = TidsOf(all \ {p})])

ScanForIndex(s) ==
  /\ At(s, "scan")
  /\ ScanTids(s, "build")
  /\ UNCHANGED <<heap, pages, indexes, entries, acked, built, damaged>>

BuildEntry(s) ==
  /\ At(s, "build")
  /\ sess[s].tids # <<>>
  /\ LET tid == Head(sess[s].tids) IN AddEntry(sess[s].index, RowAt(tid), tid)
  /\ Become(s, [sess[s] EXCEPT !.tids = Tail(@)])
  /\ UNCHANGED <<heap, pages, indexes, acked, built, skipped, damaged, faults>>

BuildEntryFails(s) ==
  /\ At(s, "build")
  /\ sess[s].tids # <<>>
  /\ LET tid == Head(sess[s].tids)
     IN  IndexInsertFails(sess[s].index, RowAt(tid), tid)
  /\ Become(s, Idle)
  /\ UNCHANGED <<heap, pages, indexes, acked, built, skipped>>

IndexDone(s) ==
  /\ At(s, "build")
  /\ sess[s].tids = <<>>
  /\ built' = built \cup {sess[s].index}
  /\ Become(s, Idle)
  /\ UNCHANGED <<heap, pages, indexes, entries, acked, skipped, damaged, faults>>

(* SELECT *)

Select(s, pred) ==
  /\ At(s, "idle")
  /\ s \in Readers
  /\ Become(s, [Idle EXCEPT !.pc = "optimize", !.pred = pred, !.pages = pages,
                            !.due = acked])
  /\ UNCHANGED <<heap, pages, indexes, entries, acked, built, skipped, damaged, faults>>

\* An index that was not acknowledged when it was chosen may lack rows: the
\* SELECT then owes none.
Optimize(s) ==
  /\ At(s, "optimize")
  /\ LET plan == chooseBestScan(sess[s].pred) IN
     Become(s, [sess[s] EXCEPT !.pc = "open", !.plan = plan,
                  !.due = IF plan.type = "SEQ" \/ plan.index \in built THEN @ ELSE {}])
  /\ UNCHANGED <<heap, pages, indexes, entries, acked, built, skipped, damaged, faults>>

\* A damaged index, too, owes no row.
Open(s) ==
  /\ At(s, "open")
  /\ \/ sess[s].plan.type = "SEQ" /\ ScanTids(s, "next")
     \/ /\ sess[s].plan.type # "SEQ"
        /\ \E found \in Findable(sess[s].plan) :
             Become(s, [sess[s] EXCEPT !.pc = "next",
                          !.tids = SearchIndex(sess[s].plan, found),
                          !.due = IF sess[s].plan.index \in damaged THEN {} ELSE @])
        /\ UNCHANGED <<skipped, faults>>
  /\ UNCHANGED <<heap, pages, indexes, entries, acked, built, damaged>>

Passes(s, tid) == sess[s].pred # Nil => evalBool(sess[s].pred, RowAt(tid))

\* Next of the filter over Next of the scan.
NextRowStops(s) ==
  /\ At(s, "next")
  /\ sess[s].tids # <<>>
  /\ LET tid == Head(sess[s].tids) IN
     Become(s, IF Passes(s, tid)
               THEN [sess[s] EXCEPT !.tids = Tail(@), !.out = Append(@, tid)]
               ELSE [sess[s] EXCEPT !.tids = <<>>])
  /\ UNCHANGED <<heap, pages, indexes, entries, acked, built, skipped, damaged, faults>>
NextRow(s) ==
  /\ At(s, "next")
  /\ sess[s].tids # <<>>
  /\ LET tid == Head(sess[s].tids) IN
     Become(s, IF Passes(s, tid)
               THEN [sess[s] EXCEPT !.tids = Tail(@), !.out = Append(@, tid)]
               ELSE [sess[s] EXCEPT !.tids = Tail(@)])
  /\ UNCHANGED <<heap, pages, indexes, entries, acked, built, skipped, damaged, faults>>

Answered(s) == At(s, "next") /\ sess[s].tids = <<>>

SelectDone(s) ==
  /\ Answered(s)
  /\ Become(s, Idle)
  /\ UNCHANGED <<heap, pages, indexes, entries, acked, built, skipped, damaged, faults>>

Step(s) ==
  \/ InsertRow(s) \/ ListIndexes(s) \/ InsertEntry(s) \/ InsertEntryFails(s)
  \/ InsertDone(s)
  \/ RegisterIndex(s) \/ ScanForIndex(s) \/ BuildEntry(s) \/ BuildEntryFails(s)
  \/ IndexDone(s)
  \/ Optimize(s) \/ Open(s) \/ NextRow(s) \/ SelectDone(s)
  \/ Fails(s)

Next ==
  \E s \in Sessions :
    \/ \E row \in Rows : Insert(s, row)
    \/ \E i \in Indexes : CreateIndex(s, i)
    \/ \E p \in Queries \cup {Nil} : Select(s, p)
    \/ Step(s)

Spec == Init /\ [][Next]_vars

-----------------------------------------------------------------------------
(* Properties. *)

(* Whatever index the optimizer chooses, its scan asks for every row that the
   WHERE clause accepts: the filter on top of it can only remove rows, so a
   range that is too narrow loses rows of the answer.  Checked for every row
   a table could hold, not only for those it holds. *)
PlanCovers ==
  \A s \in Sessions :
    LET plan == sess[s].plan IN
    At(s, "open") /\ plan.type # "SEQ" =>
      \A row \in Rows :
        evalBool(sess[s].pred, row) => InRange(plan.range, row[plan.index.column])

(* A SELECT answers with every row acknowledged before it began that the WHERE
   clause accepts, each row once, and no row it rejects, with INSERTs and a
   CREATE INDEX in between any two of its steps.  Rows may be missing, and only
   missing, if its plan used an index still (or, after an error, never
   completely) built or one whose Insert once failed part way, or if a page was
   skipped. *)
SelectExact ==
  \A s \in Sessions :
    Answered(s) =>
      /\ \A n \in DOMAIN sess[s].out : Passes(s, sess[s].out[n])
      /\ IsInjective(sess[s].out)
      /\ skipped \/ \A tid \in sess[s].due :
                      Passes(s, tid) => Contains(sess[s].out, tid)

(* An index and its table agree: no entry leads to a row with another key or
   to no row, no row has two entries, and an acknowledged index has an entry
   for every acknowledged row, also for those inserted after it, unless a page
   was skipped when it was built or one of its Inserts failed part way. *)
IndexAgrees ==
  \A i \in Indexes :
    LET es == entries[i.name]
        tids == [n \in DOMAIN es |-> es[n].tid]
    IN  /\ \A n \in DOMAIN es : /\ es[n].tid \in Stored
                                /\ RowAt(es[n].tid)[i.column] = es[n].key
        /\ IsInjective(tids)
        /\ i \in built \ damaged /\ ~skipped => acked \subseteq ToSet(tids)
==============================================================================
