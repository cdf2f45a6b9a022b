------------------------------- MODULE Catalog -------------------------------
(***************************************************************************)
(* DefaultCatalogManager: the definitions of types, tables, columns and    *)
(* indexes, in maps in memory and in four files of records.                *)
(*                                                                         *)
(* Every operation holds the manager's mutex, so operations do not         *)
(* interleave; but each appendRecord of an operation may fail, and the     *)
(* process may end between any two of them.  A definition enters the maps  *)
(* before its record is appended, and stays there when the append fails.   *)
(*                                                                         *)
(* The pages of the catalog's files in the pool may be ahead of the file   *)
(* after a failed flush, until the checkpointer or an eviction writes them.*)
(* A record longer than a page is not modelled.                            *)
(***************************************************************************)
EXTENDS Integers, Sequences, FiniteSets, SequencesExt

CONSTANTS TableNames,
          IndexNames,
          MaxColumns,    \* bound on the columns of a table
          PerPage,       \* records per page
          MaxPagesCount, \* bound on the data pages of a table
          MaxFaults,     \* bound on I/O errors
          MaxRestarts    \* bound on restarts

ASSUME PerPageAssumption == PerPage \in Nat \ {0}
ASSUME BoundsAssumption ==
  {MaxColumns, MaxPagesCount, MaxFaults, MaxRestarts} \subseteq Nat

VARIABLES mem,       \* the maps and counters of the manager, see EmptyMaps
          file,      \* file[f]: the pages of file f, each a sequence of records
          pool,      \* the same as the pool shows them
          op,        \* the operation that holds the mutex, see Idle
          acked,     \* history: operations that returned nil
          faults,
          restarts

vars == <<mem, file, pool, op, acked, faults, restarts>>

Files == {"types", "tables", "columns", "indexes"}

\* todo: records to index and append, oid 0 for one yet to be given out;
\* done: what is acknowledged at the end.
Idle == [pc |-> "idle", todo |-> <<>>, done |-> <<>>]
Running(todo, done) == [pc |-> "run", todo |-> todo, done |-> done]

-----------------------------------------------------------------------------
(* The maps. *)

Empty == [x \in {} |-> x]
EmptyMaps ==
  [typesByName |-> Empty, tablesByOid |-> Empty, tablesByName |-> Empty,
   columnsByTableOid |-> Empty, indexesByName |-> Empty,
   indexesByTableOid |-> Empty, next |-> [f \in Files |-> 1]]

\* map[key] = value
Put(map, key, value) ==
  [k \in DOMAIN map \cup {key} |-> IF k = key THEN value ELSE map[k]]

\* A table without columns or indexes has no list.
ListOf(map, oid) == IF oid \in DOMAIN map THEN map[oid] ELSE <<>>
\* The loop that filters a list; it keeps all of a list without that oid.
WithoutOid(list, oid) ==
  IF \E d \in ToSet(list) : d.oid = oid
  THEN SelectSeq(list, LAMBDA d : d.oid # oid)
  ELSE list
SortedByPosition(list) ==
  LET order == CHOOSE p \in Bijection(DOMAIN list, DOMAIN list) :
                 \A i, j \in DOMAIN list :
                   i < j => list[p[i]].position <= list[p[j]].position
  IN  [i \in DOMAIN list |-> list[order[i]]]

indexType(m, t) == [m EXCEPT !.typesByName = Put(@, t.name, t)]

indexTableByName(m, t) == [m EXCEPT !.tablesByName = Put(@, t.name, t)]
indexTable(m, t) ==
  [m EXCEPT !.tablesByOid = Put(@, t.oid, t),
            !.tablesByName = Put(@, t.name, t)]

indexColumn(m, c) ==
  LET list == Append(WithoutOid(ListOf(m.columnsByTableOid, c.table), c.oid), c)
  IN  [m EXCEPT !.columnsByTableOid = Put(@, c.table, SortedByPosition(list))]

indexIndex(m, i) ==
  LET list == Append(WithoutOid(ListOf(m.indexesByTableOid, i.table), i.oid), i)
  IN  [m EXCEPT !.indexesByName = Put(@, i.name, i),
                !.indexesByTableOid = Put(@, i.table, list)]

Index(m, f, d) ==
  CASE f = "types"   -> indexType(m, d)
    [] f = "tables"  -> indexTable(m, d)
    [] f = "columns" -> indexColumn(m, d)
    [] f = "indexes" -> indexIndex(m, d)

Elements(map) == {map[x] : x \in DOMAIN map}
nextIdAfterMaxNotAfter(defs) == Max({d.oid : d \in defs} \cup {1})
nextIdAfterMax(defs) == Max({d.oid : d \in defs} \cup {0}) + 1

DefinitionsOf(m, f) ==
  CASE f = "types"   -> Elements(m.typesByName)
    [] f = "tables"  -> Elements(m.tablesByOid)
    [] f = "columns" -> UNION {ToSet(l) : l \in Elements(m.columnsByTableOid)}
    [] f = "indexes" -> Elements(m.indexesByName)
recomputeNextOids(m) ==
  [m EXCEPT !.next = [f \in Files |-> nextIdAfterMax(DefinitionsOf(m, f))]]

\* readAllRecords of the pages of file f, each record indexed.
Replay(m, f, pages) ==
  LET records == FlattenSeq(pages)
      after[n \in 0 .. Len(records)] ==
        IF n = 0 THEN m ELSE Index(after[n - 1], f, records[n])
  IN  after[Len(records)]

loadFromDisk ==
  LET types == Replay(EmptyMaps, "types", file["types"])
      tables == Replay(types, "tables", file["tables"])
      columns == Replay(tables, "columns", file["columns"])
  IN  recomputeNextOids(Replay(columns, "indexes", file["indexes"]))

\* ensureBuiltinTypesPresent: the types that the file does not have.
IfMissing(m, name) ==
  IF name \in DOMAIN m.typesByName THEN <<>>
  ELSE << <<"types", [oid |-> 0, name |-> name]>> >>
MissingTypes(m) == IfMissing(m, "INT64") \o IfMissing(m, "VARCHAR")
Boot(m) == [pc |-> "boot", todo |-> MissingTypes(m), done |-> <<>>]

Init ==
  /\ mem = EmptyMaps
  /\ file = [f \in Files |-> <<>>]
  /\ pool = file
  /\ op = Boot(EmptyMaps)
  /\ acked = {}
  /\ faults = 0
  /\ restarts = 0

-----------------------------------------------------------------------------
(* appendRecord. *)

Fault == faults < MaxFaults /\ faults' = faults + 1

\* The file decides which page is the last; a record that does not fit it
\* goes to a new one.
Target(f) ==
  LET pages == Len(file[f]) IN
  IF pages > 0 /\ Len(pool[f][pages]) < PerPage THEN pages ELSE pages + 1

\* NewPage refuses a page that is in the pool because its flush failed.
Refused(f) == Target(f) > Len(file[f]) /\ Target(f) <= Len(pool[f])

WithRecord(f, d) ==
  LET t == Target(f) IN
  IF t > Len(pool[f]) THEN Append(pool[f], <<d>>)
  ELSE [pool[f] EXCEPT ![t] = Append(@, d)]

Written(pages, p, contents) ==
  IF p > Len(pages) THEN Append(pages, contents) ELSE [pages EXCEPT ![p] = contents]

AppendNoFlush(f, d) ==
  /\ ~Refused(f)
  /\ pool' = [pool EXCEPT ![f] = WithRecord(f, d)]
  /\ UNCHANGED <<file, faults>>
AppendDone(f, d) ==
  /\ ~Refused(f)
  /\ pool' = [pool EXCEPT ![f] = WithRecord(f, d)]
  /\ file' = [file EXCEPT ![f] = Written(@, Target(f), pool'[f][Target(f)])]
  /\ UNCHANGED faults

AppendFails(f, d) ==
  /\ UNCHANGED file
  /\ \/ Refused(f) /\ UNCHANGED <<pool, faults>>
     \/ Fault /\ UNCHANGED pool                        \* GetPage or NewPage
     \/ /\ ~Refused(f)                                 \* FlushPage
        /\ Fault
        /\ pool' = [pool EXCEPT ![f] = WithRecord(f, d)]

-----------------------------------------------------------------------------
(* Operations. *)

\* CreateTable and CreateIndex return an error, and change nothing, for a
\* name that exists; CreateIndex also for an unknown table or column.
CreateTable(name, columns) ==
  /\ op = Idle
  /\ name \notin DOMAIN mem.tablesByName
  /\ LET oid == mem.next["tables"] IN
     op' = Running(
       << <<"tables", [oid |-> 0, name |-> name, pages |-> 0]>> >>
         \o [i \in 1 .. columns |->
               <<"columns", [oid |-> 0, table |-> oid, position |-> i - 1]>>],
       <<"table", name, oid, columns>>)
  /\ UNCHANGED <<mem, file, pool, acked, faults, restarts>>

CreateIndex(name, table, position) ==
  /\ op = Idle
  /\ name \notin DOMAIN mem.indexesByName
  /\ table \in DOMAIN mem.tablesByName
  /\ LET oid == mem.tablesByName[table].oid IN
     /\ \E c \in ToSet(ListOf(mem.columnsByTableOid, oid)) : c.position = position
     /\ op' = Running(
          << <<"indexes", [oid |-> 0, name |-> name, table |-> oid,
                           position |-> position]>> >>,
          <<"index", name, mem.next["indexes"], oid>>)
  /\ UNCHANGED <<mem, file, pool, acked, faults, restarts>>

\* The caller passes the count of the definition it read, plus one; a single
\* writer per table, as in TableHeap, makes that the current definition.
UpdatePagesCount(name) ==
  /\ op = Idle
  /\ name \in DOMAIN mem.tablesByName
  /\ LET t == mem.tablesByName[name] IN
     /\ t.pages < MaxPagesCount
     /\ op' = Running(<< <<"tables", [t EXCEPT !.pages = @ + 1]>> >>,
                      <<"count", name, t.oid, t.pages + 1>>)
  /\ UNCHANGED <<mem, file, pool, acked, faults, restarts>>

\* The next record: it gets its oid, enters the maps and is appended.  An
\* error ends the operation; at boot it ends the process.
AppendNextGoesOn ==
  /\ op.todo # <<>>
  /\ LET f == Head(op.todo)[1]
         new == Head(op.todo)[2].oid = 0
         d == [Head(op.todo)[2] EXCEPT !.oid = IF new THEN mem.next[f] ELSE @]
     IN  /\ mem' = Index([mem EXCEPT !.next[f] = IF new THEN @ + 1 ELSE @], f, d)
         /\ AppendDone(f, d) \/ AppendFails(f, d)
         /\ op' = [op EXCEPT !.todo = Tail(@)]
  /\ UNCHANGED <<acked, restarts>>
AppendNext ==
  /\ op.todo # <<>>
  /\ LET f == Head(op.todo)[1]
         new == Head(op.todo)[2].oid = 0
         d == [Head(op.todo)[2] EXCEPT !.oid = IF new THEN mem.next[f] ELSE @]
     IN  /\ mem' = Index([mem EXCEPT !.next[f] = IF new THEN @ + 1 ELSE @], f, d)
         /\ \/ AppendDone(f, d) /\ op' = [op EXCEPT !.todo = Tail(@)]
            \/ /\ AppendFails(f, d)
               /\ op' = IF op.pc = "boot" THEN [op EXCEPT !.pc = "down", !.todo = <<>>]
                        ELSE Idle
  /\ UNCHANGED <<acked, restarts>>

Return ==
  /\ op.pc \in {"run", "boot"}
  /\ op.todo = <<>>
  /\ acked' = acked \cup (IF op.pc = "run" THEN {op.done} ELSE {})
  /\ mem' = IF op.pc = "boot" THEN recomputeNextOids(mem) ELSE mem
  /\ op' = Idle
  /\ UNCHANGED <<file, pool, faults, restarts>>

\* The checkpointer, the background writer or an eviction writes a page.
FlushPage(f, p) ==
  /\ p \in 1 .. Len(pool[f])
  /\ p <= Len(file[f]) => file[f][p] # pool[f][p]
  /\ file' = [file EXCEPT ![f] = Written(@, p, pool[f][p])]
  /\ UNCHANGED <<mem, pool, op, acked, faults, restarts>>

\* The process ends, at any moment, and starts again.
Restart ==
  /\ restarts < MaxRestarts
  /\ restarts' = restarts + 1
  /\ pool' = file
  /\ mem' = loadFromDisk
  /\ op' = Boot(mem')
  /\ UNCHANGED <<file, acked, faults>>

Next ==
  \/ \E t \in TableNames : \E n \in 1 .. MaxColumns : CreateTable(t, n)
  \/ \E i \in IndexNames : \E t \in TableNames : \E p \in 0 .. MaxColumns - 1 :
       CreateIndex(i, t, p)
  \/ \E t \in TableNames : UpdatePagesCount(t)
  \/ AppendNext
  \/ Return
  \/ \E f \in Files : \E p \in 1 .. Len(pool[f]) : FlushPage(f, p)
  \/ Restart

Spec == Init /\ [][Next]_vars

-----------------------------------------------------------------------------
(* Properties. *)

(* What the catalog acknowledged it keeps, whatever failed later and whenever
   the process ended: a table under its oid, which names its data file, with
   all its columns; at least the page count; an index of its table. *)
AckedDefined ==
  \A a \in acked :
    CASE a[1] = "table" -> /\ a[2] \in DOMAIN mem.tablesByName
                           /\ mem.tablesByName[a[2]].oid = a[3]
                           /\ Len(ListOf(mem.columnsByTableOid, a[3])) = a[4]
      [] a[1] = "count" -> /\ a[2] \in DOMAIN mem.tablesByName
                           /\ mem.tablesByName[a[2]].pages >= a[4]
      [] a[1] = "index" -> /\ a[2] \in DOMAIN mem.indexesByName
                           /\ mem.indexesByName[a[2]].oid = a[3]
                           /\ Contains(ListOf(mem.indexesByTableOid, a[4]),
                                       mem.indexesByName[a[2]])

(* A restart at any moment finds the maps as they were, the next oids included:
   every definition in memory is in the files, also of an operation that is
   cut short.  A failed append breaks this: its definition is in memory only. *)
RestartIsTransparent == faults = 0 => loadFromDisk = mem

(* The columns of a table are at positions 0, 1, ... without a gap, even of a
   table whose creation was cut short: rows are stored by position. *)
ColumnsArePrefix ==
  \A oid \in DOMAIN mem.columnsByTableOid :
    LET list == mem.columnsByTableOid[oid] IN
    \A i \in DOMAIN list : list[i].position = i - 1

(* A table is the same by name and by oid, no two tables share an oid, and
   every column and index belongs to a table. *)
MapsAgree ==
  /\ Elements(mem.tablesByName) = Elements(mem.tablesByOid)
  /\ \A n \in DOMAIN mem.tablesByName : mem.tablesByName[n].name = n
  /\ Cardinality(DOMAIN mem.tablesByName) = Cardinality(DOMAIN mem.tablesByOid)
  /\ DOMAIN mem.columnsByTableOid \cup DOMAIN mem.indexesByTableOid
       \subseteq DOMAIN mem.tablesByOid

(* The maps describe one set of tables, each with a gapless list of columns,
   also after a CREATE TABLE that was cut short. *)
MapsWellFormed == MapsAgree /\ ColumnsArePrefix
==============================================================================
