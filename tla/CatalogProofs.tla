---------------------------- MODULE CatalogProofs ----------------------------
(***************************************************************************)
(* What the catalog acknowledged survives failed appends and restarts, its *)
(* maps stay well formed, and as long as no append failed a restart finds  *)
(* in the files exactly the maps the process had, for any number of        *)
(* tables, columns, indexes, errors and restarts.                          *)
(***************************************************************************)
EXTENDS Catalog, SetFacts, TLAPS

-----------------------------------------------------------------------------
(* The inductive invariant. *)

Oids == Nat \ {0}
TypeNames == {"INT64", "VARCHAR"}
TypeRec == [oid : Oids, name : TypeNames]
TableRec == [oid : Oids, name : TableNames, pages : Nat]
ColumnRec == [oid : Oids, table : Oids, position : Nat]
IndexRec == [oid : Oids, name : IndexNames, table : Oids, position : Nat]
Rec == [f \in Files |-> CASE f = "types"   -> TypeRec
                          [] f = "tables"  -> TableRec
                          [] f = "columns" -> ColumnRec
                          [] f = "indexes" -> IndexRec]

\* A record is somewhere in these pages.
In(d, pages) == \E p \in DOMAIN pages : \E i \in DOMAIN pages[p] : pages[p][i] = d

\* One place comes before another in a file.
Before(p, i, q, j) == p < q \/ (p = q /\ i < j)

\* The file is behind the pool, page by page, and the pool at most one page
\* ahead, when the last page in the file has no room left.
Behind(g, q) ==
  /\ Len(g) <= Len(q) /\ Len(q) <= Len(g) + 1
  /\ \A p \in 1 .. Len(g) :
       /\ Len(g[p]) <= Len(q[p])
       /\ \A i \in 1 .. Len(g[p]) : g[p][i] = q[p][i]
  /\ Len(q) > Len(g) /\ Len(g) > 0 => Len(q[Len(g)]) >= PerPage

PagesFit ==
  /\ DOMAIN file = Files /\ DOMAIN pool = Files
  /\ \A f \in Files : /\ file[f] \in Seq(Seq(Rec[f]))
                      /\ pool[f] \in Seq(Seq(Rec[f]))
                      /\ Behind(file[f], pool[f])

\* The maps, each by itself and together.
TypesAgree(m) == \A n \in DOMAIN m.typesByName : m.typesByName[n] \in TypeRec

TablesAgree(m) ==
  /\ \A n \in DOMAIN m.tablesByName :
       LET t == m.tablesByName[n] IN
       /\ t \in TableRec /\ t.name = n
       /\ t.oid \in DOMAIN m.tablesByOid /\ m.tablesByOid[t.oid] = t
  /\ \A o \in DOMAIN m.tablesByOid :
       LET t == m.tablesByOid[o] IN
       t.oid = o /\ t.name \in DOMAIN m.tablesByName /\ m.tablesByName[t.name] = t

ColumnsAgree(m) ==
  \A o \in DOMAIN m.columnsByTableOid :
    LET list == m.columnsByTableOid[o] IN
    /\ list \in Seq(ColumnRec)
    /\ \A i \in DOMAIN list : list[i].table = o /\ list[i].position = i - 1

IndexesAgree(m) ==
  /\ \A n \in DOMAIN m.indexesByName :
       LET x == m.indexesByName[n] IN
       /\ x \in IndexRec /\ x.name = n
       /\ x.table \in DOMAIN m.indexesByTableOid
       /\ x \in ToSet(m.indexesByTableOid[x.table])
  /\ \A o \in DOMAIN m.indexesByTableOid :
       LET list == m.indexesByTableOid[o] IN
       /\ list \in Seq(IndexRec)
       /\ \A i \in DOMAIN list : /\ list[i].name \in DOMAIN m.indexesByName
                                 /\ m.indexesByName[list[i].name] = list[i]

Linked(m) ==
  DOMAIN m.columnsByTableOid \cup DOMAIN m.indexesByTableOid \subseteq DOMAIN m.tablesByOid

\* The next oids are past the oids given out.
Below(m, next) == \A f \in Files : \A d \in DefinitionsOf(m, f) : d.oid < next[f]

Maps(ty, to, tn, co, xn, xo, nx) ==
  [typesByName |-> ty, tablesByOid |-> to, tablesByName |-> tn,
   columnsByTableOid |-> co, indexesByName |-> xn, indexesByTableOid |-> xo,
   next |-> nx]
IsRecord(m) ==
  m = Maps(m.typesByName, m.tablesByOid, m.tablesByName, m.columnsByTableOid,
           m.indexesByName, m.indexesByTableOid, m.next)

Agree(m) == TypesAgree(m) /\ TablesAgree(m) /\ ColumnsAgree(m) /\ IndexesAgree(m)
MapsFit(m) ==
  /\ IsRecord(m) /\ m.next \in [Files -> Oids]
  /\ Agree(m) /\ Linked(m) /\ Below(m, m.next)

\* What the maps say of the records of a file.
TableKnown(d, m) ==
  /\ d.name \in DOMAIN m.tablesByName
  /\ m.tablesByName[d.name].oid = d.oid
  /\ m.tablesByName[d.name].pages >= d.pages
ColumnKnown(d, m) == d \in ToSet(ListOf(m.columnsByTableOid, d.table))
IndexKnown(d, m) == d.name \in DOMAIN m.indexesByName /\ m.indexesByName[d.name] = d

Known(P, m) ==
  /\ \A p \in DOMAIN P["tables"] : \A i \in DOMAIN P["tables"][p] :
       TableKnown(P["tables"][p][i], m)
  /\ \A p \in DOMAIN P["columns"] : \A i \in DOMAIN P["columns"][p] :
       ColumnKnown(P["columns"][p][i], m)
  /\ \A p \in DOMAIN P["indexes"] : \A i \in DOMAIN P["indexes"][p] :
       IndexKnown(P["indexes"][p][i], m)

\* What a record may be after an earlier one of the same file.
Follows(f, d, e) ==
  CASE f = "types"   -> TRUE
    [] f = "tables"  -> d.oid = e.oid => d.pages <= e.pages
    [] f = "columns" -> d.oid # e.oid /\ (d.table = e.table => d.position < e.position)
    [] f = "indexes" -> d.oid # e.oid /\ d.name # e.name

InOrder(f, P) ==
  \A p, q \in DOMAIN P : \A i \in DOMAIN P[p] : \A j \in DOMAIN P[q] :
    Before(p, i, q, j) => Follows(f, P[p][i], P[q][j])

RecordsFit == Known(pool, mem) /\ \A f \in Files : InOrder(f, pool[f])

\* A table that has columns or indexes is in the file,
HasTable(o) == \E d \in TableRec : d.oid = o /\ In(d, file["tables"])
Anchored ==
  \A o \in DOMAIN mem.columnsByTableOid \cup DOMAIN mem.indexesByTableOid : HasTable(o)

\* and so is every column but the last.
Preceded(P, c) ==
  c.position > 0 =>
    \E d \in ColumnRec : /\ d.table = c.table /\ d.position = c.position - 1
                         /\ In(d, P)
NoGap ==
  \A p \in DOMAIN pool["columns"] : \A i \in DOMAIN pool["columns"][p] :
    Preceded(file["columns"], pool["columns"][p][i])

\* What was acknowledged is in the files.
ColumnsOf(o) == ListOf(mem.columnsByTableOid, o)

TableSaved(n, o) == \E d \in TableRec : d.name = n /\ d.oid = o /\ In(d, file["tables"])
ColumnsSaved(o) == \A i \in DOMAIN ColumnsOf(o) : In(ColumnsOf(o)[i], file["columns"])
CountSaved(n, c) == \E d \in TableRec : d.name = n /\ d.pages >= c /\ In(d, file["tables"])
IndexSaved(n, x, o) ==
  \E d \in IndexRec : d.name = n /\ d.oid = x /\ d.table = o /\ In(d, file["indexes"])

Saved(a) ==
  \/ /\ a[1] = "table"
     /\ TableSaved(a[2], a[3])
     /\ ColumnsSaved(a[3]) /\ Len(ColumnsOf(a[3])) = a[4]
  \/ a[1] = "count" /\ a[4] \in Nat /\ CountSaved(a[2], a[4])
  \/ a[1] = "index" /\ IndexSaved(a[2], a[3], a[4])

\* What the running operation has done and has still to do.
Todo ==
  UNION {{"types"} \X [oid : {0}, name : TypeNames],
         {"tables"} \X [oid : Nat, name : TableNames, pages : Nat],
         {"columns"} \X [oid : {0}, table : Oids, position : Nat],
         {"indexes"} \X [oid : {0}, name : IndexNames, table : Oids, position : Nat]}

NewColumn(o, p) == <<"columns", [oid |-> 0, table |-> o, position |-> p]>>

\* CREATE TABLE: the table's own record first, then its columns.
TableAhead(n, o, c) ==
  /\ n \notin DOMAIN mem.tablesByName
  /\ o = mem.next["tables"]
  /\ Len(op.todo) = c + 1
  /\ op.todo[1] = <<"tables", [oid |-> 0, name |-> n, pages |-> 0]>>
  /\ \A i \in 1 .. c : op.todo[i + 1] = NewColumn(o, i - 1)
ColumnsAhead(n, o, c) ==
  /\ TableSaved(n, o) /\ ColumnsSaved(o)
  /\ \A a \in acked : a[1] = "table" => a[2] # n
  /\ Len(op.todo) + Len(ColumnsOf(o)) = c
  /\ \A i \in 1 .. Len(op.todo) :
       op.todo[i] = NewColumn(o, Len(ColumnsOf(o)) + i - 1)
CreatingTable(n, o, c) ==
  /\ op.done = <<"table", n, o, c>>
  /\ TableAhead(n, o, c) \/ ColumnsAhead(n, o, c)

CreatingIndex(n, x, o, p) ==
  /\ op.done = <<"index", n, x, o>>
  /\ \/ /\ n \notin DOMAIN mem.indexesByName
        /\ x = mem.next["indexes"]
        /\ o \in DOMAIN mem.columnsByTableOid
        /\ op.todo = << <<"indexes", [oid |-> 0, name |-> n, table |-> o,
                                      position |-> p]>> >>
     \/ op.todo = <<>> /\ IndexSaved(n, x, o)

Counting(n, t) ==
  /\ op.done = <<"count", n, t.oid, t.pages>>
  /\ \/ /\ n \in DOMAIN mem.tablesByName
        /\ mem.tablesByName[n].oid = t.oid
        /\ mem.tablesByName[n].pages < t.pages
        /\ op.todo = << <<"tables", t>> >>
     \/ op.todo = <<>> /\ CountSaved(n, t.pages)

OpFits ==
  /\ op = [pc |-> op.pc, todo |-> op.todo, done |-> op.done]
  /\ op.pc \in {"idle", "run", "boot", "down"}
  /\ op.todo \in Seq(Todo)
  /\ op.pc \in {"idle", "down"} => op.todo = <<>>
  /\ op.pc = "boot" =>
       \A i \in DOMAIN op.todo : \E n \in TypeNames :
         op.todo[i] = <<"types", [oid |-> 0, name |-> n]>>
  /\ op.pc = "run" =>
       \/ \E n \in TableNames, o \in Oids, c \in Nat : CreatingTable(n, o, c)
       \/ \E n \in IndexNames, x \in Oids, o \in Oids, p \in Nat : CreatingIndex(n, x, o, p)
       \/ \E n \in TableNames, t \in TableRec : t.name = n /\ Counting(n, t)

Inv ==
  /\ PagesFit /\ MapsFit(mem) /\ RecordsFit /\ Anchored /\ NoGap
  /\ \A a \in acked : Saved(a)
  /\ OpFits

-----------------------------------------------------------------------------
(* The files.  The records of a file are its pages one after the other. *)

\* g[k] is the first k pages together.
JoinsTo(n, g, P) ==
  /\ DOMAIN g = 0 .. n /\ g[0] = <<>>
  /\ \A k \in 1 .. n : g[k] = g[k - 1] \o P[k]
Joins(g, P) == JoinsTo(Len(P), g, P)

LEMMA JoinsExists ==
  ASSUME NEW R, NEW P \in Seq(Seq(R))
  PROVE  \E g : Joins(g, P) /\ \A n \in 0 .. Len(P) : g[n] \in Seq(R)
<1> DEFINE Good(n) == \E g : JoinsTo(n, g, P) /\ \A k \in 0 .. n : g[k] \in Seq(R)
<1>1. Len(P) \in Nat /\ \A n \in 1 .. Len(P) : P[n] \in Seq(R)
  OBVIOUS
<1>2. Good(0)
  <2> DEFINE g == [k \in 0 .. 0 |-> <<>>]
  <2>1. JoinsTo(0, g, P) /\ \A k \in 0 .. 0 : g[k] \in Seq(R)
    BY DEF JoinsTo
  <2> QED BY <2>1
<1>3. ASSUME NEW n \in 1 .. Len(P), Good(n - 1) PROVE Good(n)
  <2>1. PICK g : JoinsTo(n - 1, g, P) /\ \A k \in 0 .. n - 1 : g[k] \in Seq(R)
    BY <1>3
  <2> DEFINE h == [k \in 0 .. n |-> IF k = n THEN g[n - 1] \o P[n] ELSE g[k]]
  <2>2. n \in Nat /\ n - 1 \in 0 .. n - 1 /\ n - 1 \in 0 .. n /\ n \in 0 .. n /\ n - 1 # n /\ n # 0
    BY <1>1, <1>3
  <2>3. h[n] = g[n - 1] \o P[n] /\ h[n - 1] = g[n - 1] /\ h[0] = <<>>
    <3>1. h[n] = g[n - 1] \o P[n] /\ h[n - 1] = g[n - 1]
      BY <2>2
    <3>2. 0 \in 0 .. n /\ 0 # n
      BY <2>2
    <3>3. h[0] = g[0]
      BY <3>2
    <3> QED BY <2>1, <3>1, <3>3 DEF JoinsTo
  <2>4. ASSUME NEW k \in 1 .. n - 1 PROVE h[k] = h[k - 1] \o P[k]
    <3>1. k \in 0 .. n /\ k # n /\ k - 1 \in 0 .. n /\ k - 1 # n
      BY <2>2
    <3>2. h[k] = g[k] /\ h[k - 1] = g[k - 1]
      BY <3>1
    <3> QED BY <2>1, <3>2 DEF JoinsTo
  <2>5. ASSUME NEW k \in 0 .. n - 1 PROVE h[k] \in Seq(R)
    <3>1. k \in 0 .. n /\ k # n
      BY <2>2
    <3> QED BY <2>1, <3>1
  <2>6. DOMAIN h = 0 .. n
    OBVIOUS
  <2> HIDE DEF h
  <2>7. h[n] = h[n - 1] \o P[n] /\ h[n] \in Seq(R)
    <3>1. g[n - 1] \in Seq(R) /\ P[n] \in Seq(R)
      BY <1>1, <1>3, <2>1, <2>2
    <3> QED BY <2>3, <3>1
  <2>8. JoinsTo(n, h, P)
    <3>1. ASSUME NEW k \in 1 .. n PROVE k = n \/ k \in 1 .. n - 1
      BY <2>2
    <3> QED BY <2>3, <2>4, <2>6, <2>7, <3>1 DEF JoinsTo
  <2>9. \A k \in 0 .. n : h[k] \in Seq(R)
    <3>1. ASSUME NEW k \in 0 .. n PROVE k = n \/ k \in 0 .. n - 1
      BY <2>2
    <3> QED BY <2>5, <2>7, <3>1
  <2> QED BY <2>8, <2>9
<1> HIDE DEF Good
<1> DEFINE Bad == {n \in 0 .. Len(P) : ~Good(n)}
<1>4. ASSUME Bad # {} PROVE FALSE
  <2>1. Bad \in SUBSET Nat
    BY <1>1
  <2>2. PICK n \in Bad : \A k \in Bad : n <= k
    BY <1>4, <2>1, NatMin
  <2>3. n # 0
    BY <1>2, <2>2
  <2>4. n - 1 \in 0 .. Len(P) /\ n \in 1 .. Len(P) /\ ~(n <= n - 1)
    BY <1>1, <2>2, <2>3
  <2>5. Good(n - 1)
    BY <2>2, <2>4
  <2> QED BY <1>3, <2>2, <2>4, <2>5
<1>5. Good(Len(P))
  BY <1>1, <1>4
<1> QED BY <1>5 DEF Good, Joins

LEMMA FlattenIs ==
  ASSUME NEW R, NEW P \in Seq(Seq(R)), NEW g, Joins(g, P)
  PROVE  FlattenSeq(P) = g[Len(P)]
<1>1. Len(P) \in Nat
  OBVIOUS
<1>2. CASE Len(P) = 0
  <2>1. P = <<>>
    BY <1>2
  <2> QED BY <1>2, <2>1 DEF FlattenSeq, Joins, JoinsTo
<1>3. CASE Len(P) # 0
  <2> DEFINE Solves(f) == f = [i \in 1 .. Len(P) |->
                                 IF i = 1 THEN P[i] ELSE f[i - 1] \o P[i]]
             s == [i \in 1 .. Len(P) |-> g[i]]
             c == CHOOSE f : Solves(f)
  <2>0. P[1] \in Seq(R) /\ 1 \in 1 .. Len(P) /\ 1 - 1 = 0
    BY <1>1, <1>3
  <2>1. ASSUME NEW i \in 1 .. Len(P)
        PROVE  g[i] = IF i = 1 THEN P[i] ELSE s[i - 1] \o P[i]
    <3>1. CASE i = 1
      <4>1. g[1] = g[1 - 1] \o P[1]
        BY <2>0 DEF Joins, JoinsTo
      <4>2. <<>> \o P[1] = P[1]
        BY <2>0
      <4> QED BY <2>0, <3>1, <4>1, <4>2 DEF Joins, JoinsTo
    <3>2. CASE i # 1
      <4>1. i - 1 \in 1 .. Len(P)
        BY <1>1, <3>2
      <4> QED BY <3>2, <4>1 DEF Joins, JoinsTo
    <3> QED BY <3>1, <3>2
  <2>2. Solves(s)
    BY <2>1
  <2>3. Solves(c)
    BY <2>2
  <2> HIDE DEF c, s
  <2>4. ASSUME NEW i \in 1 .. Len(P) PROVE c[i] = IF i = 1 THEN P[i] ELSE c[i - 1] \o P[i]
    BY <2>3
  <2> DEFINE Bad == {i \in 1 .. Len(P) : c[i] # g[i]}
  <2>b. Bad \in SUBSET Nat /\ \A n : n \in Bad <=> n \in 1 .. Len(P) /\ c[n] # g[n]
    BY <1>1
  <2> HIDE DEF Bad
  <2>5. ASSUME Bad # {} PROVE FALSE
    <3>0. PICK n \in Bad : \A k \in Bad : n <= k
      BY <2>b, <2>5, NatMin
    <3>1. n \in 1 .. Len(P) /\ c[n] # g[n] /\ \A k \in Bad : n <= k
      BY <2>b, <3>0
    <3>2. CASE n = 1
      BY <2>1, <2>4, <3>1, <3>2
    <3>3. CASE n # 1
      <4>1. n - 1 \in 1 .. Len(P) /\ ~ (n <= n - 1)
        BY <1>1, <3>1, <3>3
      <4>2. c[n - 1] = g[n - 1]
        BY <2>b, <3>1, <4>1
      <4>3. g[n] = g[n - 1] \o P[n]
        BY <3>1 DEF Joins, JoinsTo
      <4> QED BY <2>4, <3>1, <3>3, <4>2, <4>3
    <3> QED BY <3>2, <3>3
  <2>6. c[Len(P)] = g[Len(P)]
    BY <1>1, <1>3, <2>5, <2>b
  <2>7. FlattenSeq(P) = c[Len(P)]
    BY <1>3 DEF FlattenSeq, c
  <2> QED BY <2>6, <2>7
<1> QED BY <1>2, <1>3

\* Every record of a page is among the records, and they come in the order of
\* their places.
Places(P, n, s) ==
  /\ \A p \in 1 .. n : \A i \in DOMAIN P[p] : \E a \in DOMAIN s : s[a] = P[p][i]
  /\ \A a \in DOMAIN s : \E p \in 1 .. n : \E i \in DOMAIN P[p] : s[a] = P[p][i]
  /\ \A a, b \in DOMAIN s : a < b =>
       \E p, q \in 1 .. n : \E i \in DOMAIN P[p] : \E j \in DOMAIN P[q] :
         s[a] = P[p][i] /\ s[b] = P[q][j] /\ Before(p, i, q, j)

LEMMA PlacesStep ==
  ASSUME NEW R, NEW P \in Seq(Seq(R)), NEW n \in 1 .. Len(P), NEW s \in Seq(R),
         Places(P, n - 1, s)
  PROVE  Places(P, n, s \o P[n])
<1> DEFINE t == s \o P[n]
<1>1. /\ n \in Nat /\ P[n] \in Seq(R) /\ Len(s) \in Nat /\ Len(P[n]) \in Nat
      /\ n \in 1 .. n /\ \A p \in 1 .. n - 1 : p \in 1 .. n /\ p < n
      /\ \A p \in 1 .. n : p = n \/ p \in 1 .. n - 1
  OBVIOUS
<1>2. /\ DOMAIN s = 1 .. Len(s) /\ DOMAIN P[n] = 1 .. Len(P[n])
      /\ DOMAIN t = 1 .. Len(s) + Len(P[n])
      /\ \A a \in 1 .. Len(s) : t[a] = s[a]
      /\ \A i \in 1 .. Len(P[n]) : t[Len(s) + i] = P[n][i]
  BY <1>1
<1>3. ASSUME NEW a \in DOMAIN t
      PROVE  \/ a \in DOMAIN s /\ t[a] = s[a] /\ a <= Len(s)
             \/ /\ a > Len(s) /\ a - Len(s) \in DOMAIN P[n]
                /\ t[a] = P[n][a - Len(s)]
  <2>1. CASE a <= Len(s)
    BY <1>1, <1>2, <2>1
  <2>2. CASE a > Len(s)
    <3>1. a - Len(s) \in 1 .. Len(P[n]) /\ Len(s) + (a - Len(s)) = a
      BY <1>1, <1>2, <2>2
    <3>2. t[Len(s) + (a - Len(s))] = P[n][a - Len(s)]
      BY <1>2, <3>1
    <3> QED BY <1>2, <2>2, <3>1, <3>2
  <2> QED BY <1>1, <1>2, <2>1, <2>2
<1>4. ASSUME NEW p \in 1 .. n, NEW i \in DOMAIN P[p]
      PROVE  \E a \in DOMAIN t : t[a] = P[p][i]
  <2>1. CASE p = n
    <3>1. Len(s) + i \in DOMAIN t /\ t[Len(s) + i] = P[n][i]
      BY <1>1, <1>2, <2>1
    <3> QED BY <2>1, <3>1
  <2>2. CASE p \in 1 .. n - 1
    <3>1. PICK a \in DOMAIN s : s[a] = P[p][i]
      BY <2>2 DEF Places
    <3>2. a \in DOMAIN t /\ t[a] = s[a]
      BY <1>1, <1>2
    <3> QED BY <3>1, <3>2
  <2> QED BY <1>1, <2>1, <2>2
<1> HIDE DEF t
<1>5. ASSUME NEW a \in DOMAIN s
      PROVE  \E p \in 1 .. n - 1 : \E i \in DOMAIN P[p] : s[a] = P[p][i]
  BY DEF Places
<1>6. ASSUME NEW a \in DOMAIN t
      PROVE  \E p \in 1 .. n : \E i \in DOMAIN P[p] : t[a] = P[p][i]
  <2>1. CASE a \in DOMAIN s /\ t[a] = s[a]
    <3>1. PICK p \in 1 .. n - 1 : \E i \in DOMAIN P[p] : s[a] = P[p][i]
      BY <1>5, <2>1
    <3>2. p \in 1 .. n
      BY <1>1
    <3> QED BY <2>1, <3>1, <3>2
  <2>2. CASE a - Len(s) \in DOMAIN P[n] /\ t[a] = P[n][a - Len(s)]
    BY <1>1, <2>2
  <2> QED BY <1>3, <2>1, <2>2
<1>7. ASSUME NEW a \in DOMAIN t, NEW b \in DOMAIN t, a < b
      PROVE  \E p, q \in 1 .. n : \E i \in DOMAIN P[p] : \E j \in DOMAIN P[q] :
               t[a] = P[p][i] /\ t[b] = P[q][j] /\ Before(p, i, q, j)
  <2>0. a \in Nat /\ b \in Nat
    BY <1>1, <1>2
  <2>1. CASE b <= Len(s)
    <3>1. a \in DOMAIN s /\ b \in DOMAIN s /\ t[a] = s[a] /\ t[b] = s[b]
      BY <1>1, <1>3, <1>7, <2>0, <2>1
    <3>2. PICK p, q \in 1 .. n - 1 : \E i \in DOMAIN P[p] : \E j \in DOMAIN P[q] :
            s[a] = P[p][i] /\ s[b] = P[q][j] /\ Before(p, i, q, j)
      BY <1>7, <3>1 DEF Places
    <3>3. p \in 1 .. n /\ q \in 1 .. n
      BY <1>1
    <3> QED BY <3>1, <3>2, <3>3
  <2>2. CASE a <= Len(s) /\ b > Len(s)
    <3>1. a \in DOMAIN s /\ t[a] = s[a] /\ b - Len(s) \in DOMAIN P[n] /\ t[b] = P[n][b - Len(s)]
      BY <1>1, <1>3, <2>0, <2>2
    <3>2. PICK p \in 1 .. n - 1 : \E i \in DOMAIN P[p] : s[a] = P[p][i]
      BY <1>5, <3>1
    <3>3. PICK i \in DOMAIN P[p] : s[a] = P[p][i]
      BY <3>2
    <3>4. p \in 1 .. n /\ n \in 1 .. n /\ Before(p, i, n, b - Len(s))
      BY <1>1 DEF Before
    <3> QED BY <3>1, <3>3, <3>4
  <2>3. CASE a > Len(s)
    <3>1. /\ a - Len(s) \in DOMAIN P[n] /\ t[a] = P[n][a - Len(s)]
          /\ b - Len(s) \in DOMAIN P[n] /\ t[b] = P[n][b - Len(s)]
          /\ a - Len(s) < b - Len(s)
      BY <1>1, <1>3, <1>7, <2>0, <2>3
    <3>2. Before(n, a - Len(s), n, b - Len(s))
      BY <3>1 DEF Before
    <3> QED BY <1>1, <3>1, <3>2
  <2>4. b <= Len(s) \/ (a <= Len(s) /\ b > Len(s)) \/ a > Len(s)
    BY <1>1, <2>0
  <2> HIDE DEF Before
  <2> QED BY <2>1, <2>2, <2>3, <2>4
<1> QED BY <1>4, <1>6, <1>7 DEF Places, t

LEMMA FlattenPlaces ==
  ASSUME NEW R, NEW P \in Seq(Seq(R))
  PROVE  FlattenSeq(P) \in Seq(R) /\ Places(P, Len(P), FlattenSeq(P))
<1>1. PICK g : Joins(g, P) /\ \A n \in 0 .. Len(P) : g[n] \in Seq(R)
  BY JoinsExists
<1>2. Len(P) \in Nat
  OBVIOUS
<1> DEFINE Bad == {n \in 0 .. Len(P) : ~Places(P, n, g[n])}
<1>3. ASSUME Bad # {} PROVE FALSE
  <2>1. Bad \in SUBSET Nat
    BY <1>2
  <2>2. PICK n \in Bad : \A k \in Bad : n <= k
    BY <1>3, <2>1, NatMin
  <2>3. CASE n = 0
    <3>1. g[0] = <<>> /\ DOMAIN g[0] = {}
      BY <1>1 DEF Joins, JoinsTo
    <3>2. 1 .. 0 = {}
      OBVIOUS
    <3>3. Places(P, 0, g[0])
      BY <3>1, <3>2 DEF Places
    <3> QED BY <2>2, <2>3, <3>3
  <2>4. CASE n # 0
    <3>1. n - 1 \in 0 .. Len(P) /\ n \in 1 .. Len(P) /\ ~(n <= n - 1)
      BY <1>2, <2>2, <2>4
    <3>2. Places(P, n - 1, g[n - 1])
      BY <2>2, <3>1
    <3>3. g[n] = g[n - 1] \o P[n] /\ g[n - 1] \in Seq(R)
      BY <1>1, <3>1 DEF Joins, JoinsTo
    <3>4. Places(P, n, g[n])
      BY <3>1, <3>2, <3>3, PlacesStep
    <3> QED BY <2>2, <3>4
  <2> QED BY <2>3, <2>4
<1>4. Places(P, Len(P), g[Len(P)]) /\ g[Len(P)] \in Seq(R)
  BY <1>1, <1>2, <1>3
<1> QED BY <1>1, <1>4, FlattenIs

LEMMA AppendAfter ==
  ASSUME NEW R, NEW x \in Seq(R), NEW y \in Seq(R), NEW d \in R
  PROVE  x \o Append(y, d) = Append(x \o y, d)
<1>1. Append(y, d) = y \o <<d>> /\ Append(x \o y, d) = (x \o y) \o <<d>>
  OBVIOUS
<1>2. x \o (y \o <<d>>) = (x \o y) \o <<d>>
  BY ConcatAssociative
<1> QED BY <1>1, <1>2

LEMMA FlattenAppend ==
  ASSUME NEW R, NEW P \in Seq(Seq(R)), NEW d \in R,
         NEW Q, \/ Q = Append(P, <<d>>)
                \/ Len(P) > 0 /\ Q = [P EXCEPT ![Len(P)] = Append(P[Len(P)], d)]
  PROVE  FlattenSeq(Q) = Append(FlattenSeq(P), d) /\ Q \in Seq(Seq(R))
<1>1. PICK g : Joins(g, P) /\ \A n \in 0 .. Len(P) : g[n] \in Seq(R)
  BY JoinsExists
<1>2. Len(P) \in Nat /\ <<d>> \in Seq(R) /\ Len(P) \in 0 .. Len(P)
  OBVIOUS
<1>3. CASE Q = Append(P, <<d>>)
  <2>1. /\ Q \in Seq(Seq(R)) /\ Len(Q) = Len(P) + 1
        /\ \A n \in 1 .. Len(P) : Q[n] = P[n]
        /\ Q[Len(P) + 1] = <<d>>
    BY <1>2, <1>3, AppendIs
  <2> DEFINE h == [n \in 0 .. Len(Q) |-> IF n = Len(Q) THEN g[Len(P)] \o <<d>> ELSE g[n]]
  <2>2. ASSUME NEW n \in 1 .. Len(P) PROVE h[n] = h[n - 1] \o Q[n]
    <3>1. n \in 0 .. Len(Q) /\ n # Len(Q) /\ n - 1 \in 0 .. Len(Q) /\ n - 1 # Len(Q)
      BY <1>2, <2>1
    <3>2. h[n] = g[n] /\ h[n - 1] = g[n - 1]
      BY <3>1
    <3> QED BY <1>1, <2>1, <3>2 DEF Joins, JoinsTo
  <2>3. h[Len(P)] = g[Len(P)] /\ h[Len(P) + 1] = g[Len(P)] \o <<d>>
    BY <1>2, <2>1
  <2>4. h[0] = <<>>
    <3>1. 0 \in 0 .. Len(Q) /\ 0 # Len(Q)
      BY <1>2, <2>1
    <3>2. h[0] = g[0]
      BY <3>1
    <3> QED BY <1>1, <3>2 DEF Joins, JoinsTo
  <2>5. DOMAIN h = 0 .. Len(Q)
    OBVIOUS
  <2> HIDE DEF h
  <2>6. ASSUME NEW n \in 1 .. Len(Q) PROVE h[n] = h[n - 1] \o Q[n]
    <3>1. n \in 1 .. Len(P) \/ n = Len(P) + 1
      BY <1>2, <2>1
    <3>2. (Len(P) + 1) - 1 = Len(P)
      BY <1>2
    <3> QED BY <2>1, <2>2, <2>3, <3>1, <3>2
  <2>7. Joins(h, Q)
    BY <2>4, <2>5, <2>6 DEF Joins, JoinsTo
  <2>8. FlattenSeq(Q) = g[Len(P)] \o <<d>>
    BY <2>1, <2>3, <2>7, FlattenIs
  <2>9. FlattenSeq(P) = g[Len(P)] /\ g[Len(P)] \in Seq(R)
    BY <1>1, <1>2, FlattenIs
  <2> QED BY <2>1, <2>8, <2>9
<1>4. CASE Len(P) > 0 /\ Q = [P EXCEPT ![Len(P)] = Append(P[Len(P)], d)]
  <2>0. Len(P) \in 1 .. Len(P) /\ P[Len(P)] \in Seq(R) /\ Append(P[Len(P)], d) \in Seq(R)
    BY <1>2, <1>4
  <2>1. /\ Q \in Seq(Seq(R)) /\ Len(Q) = Len(P)
        /\ Q[Len(P)] = Append(P[Len(P)], d)
        /\ \A n \in 1 .. Len(P) : n # Len(P) => Q[n] = P[n]
    BY <1>2, <1>4, <2>0
  <2> DEFINE h == [n \in 0 .. Len(P) |->
                     IF n = Len(P) THEN g[Len(P) - 1] \o Append(P[Len(P)], d) ELSE g[n]]
  <2>2. ASSUME NEW n \in 1 .. Len(P), n # Len(P) PROVE h[n] = h[n - 1] \o Q[n]
    <3>1. n \in 0 .. Len(P) /\ n - 1 \in 0 .. Len(P) /\ n - 1 # Len(P)
      BY <1>2
    <3>2. h[n] = g[n] /\ h[n - 1] = g[n - 1]
      BY <2>2, <3>1
    <3> QED BY <1>1, <2>1, <2>2, <3>2 DEF Joins, JoinsTo
  <2>3. /\ Len(P) - 1 \in 0 .. Len(P) /\ Len(P) - 1 # Len(P)
        /\ 0 \in 0 .. Len(P) /\ 0 # Len(P)
    BY <1>2, <1>4
  <2>4. /\ h[Len(P) - 1] = g[Len(P) - 1] /\ h[0] = g[0]
        /\ h[Len(P)] = g[Len(P) - 1] \o Append(P[Len(P)], d)
    BY <1>2, <2>3
  <2>5. DOMAIN h = 0 .. Len(P) /\ h[0] = <<>>
    BY <1>1, <2>4 DEF Joins, JoinsTo
  <2> HIDE DEF h
  <2>6. ASSUME NEW n \in 1 .. Len(Q) PROVE h[n] = h[n - 1] \o Q[n]
    BY <2>1, <2>2, <2>4
  <2>7. Joins(h, Q)
    BY <2>1, <2>5, <2>6 DEF Joins, JoinsTo
  <2>8. FlattenSeq(Q) = g[Len(P) - 1] \o Append(P[Len(P)], d)
    BY <2>1, <2>4, <2>7, FlattenIs
  <2>9. FlattenSeq(P) = g[Len(P) - 1] \o P[Len(P)]
    BY <1>1, <2>0, FlattenIs DEF Joins, JoinsTo
  <2>10. g[Len(P) - 1] \in Seq(R)
    BY <1>1, <2>3
  <2>11. g[Len(P) - 1] \o Append(P[Len(P)], d) = Append(g[Len(P) - 1] \o P[Len(P)], d)
    <3>1. P[Len(P)] \in Seq(R) /\ d \in R
      BY <2>0
    <3>2. ASSUME NEW x \in Seq(R), NEW y \in Seq(R)
          PROVE  x \o Append(y, d) = Append(x \o y, d)
      BY AppendAfter
    <3> QED BY <2>10, <3>1, <3>2
  <2> QED BY <2>1, <2>8, <2>9, <2>11
<1> QED BY <1>3, <1>4

-----------------------------------------------------------------------------
(* Loading a file: g[n] is what the maps are after n records. *)

ReplaysTo(n, g, m, f, s) ==
  /\ DOMAIN g = 0 .. n /\ g[0] = m
  /\ \A k \in 1 .. n : g[k] = Index(g[k - 1], f, s[k])

LEMMA ReplaysExists ==
  ASSUME NEW N \in Nat, NEW m, NEW f, NEW s
  PROVE  \E g : ReplaysTo(N, g, m, f, s)
<1> DEFINE Good(n) == \E g : ReplaysTo(n, g, m, f, s)
<1>1. Good(0)
  <2> DEFINE g == [k \in 0 .. 0 |-> m]
  <2>1. ReplaysTo(0, g, m, f, s)
    BY DEF ReplaysTo
  <2> QED BY <2>1
<1>2. ASSUME NEW n \in Nat, n # 0, Good(n - 1) PROVE Good(n)
  <2>1. PICK g : ReplaysTo(n - 1, g, m, f, s)
    BY <1>2
  <2> DEFINE h == [k \in 0 .. n |-> IF k = n THEN Index(g[n - 1], f, s[n]) ELSE g[k]]
  <2>2. n - 1 \in 0 .. n /\ n \in 0 .. n /\ n - 1 # n /\ 0 \in 0 .. n /\ 0 # n
    BY <1>2
  <2>3. h[n] = Index(g[n - 1], f, s[n]) /\ h[n - 1] = g[n - 1] /\ h[0] = g[0]
    BY <2>2
  <2>4. ASSUME NEW k \in 1 .. n - 1 PROVE h[k] = Index(h[k - 1], f, s[k])
    <3>1. k \in 0 .. n /\ k # n /\ k - 1 \in 0 .. n /\ k - 1 # n
      BY <1>2
    <3>2. h[k] = g[k] /\ h[k - 1] = g[k - 1]
      BY <3>1
    <3> QED BY <2>1, <3>2 DEF ReplaysTo
  <2>5. DOMAIN h = 0 .. n
    OBVIOUS
  <2> HIDE DEF h
  <2>6. ASSUME NEW k \in 1 .. n PROVE k = n \/ k \in 1 .. n - 1
    BY <1>2
  <2>7. ReplaysTo(n, h, m, f, s)
    BY <2>1, <2>3, <2>4, <2>5, <2>6 DEF ReplaysTo
  <2> QED BY <2>7
<1> HIDE DEF Good
<1> DEFINE Bad == {n \in Nat : ~Good(n)}
<1>3. ASSUME Bad # {} PROVE FALSE
  <2>1. Bad \in SUBSET Nat
    OBVIOUS
  <2>2. PICK n \in Bad : \A k \in Bad : n <= k
    BY <1>3, <2>1, NatMin
  <2>3. n # 0
    BY <1>1, <2>2
  <2>4. n - 1 \in Nat /\ n \in Nat /\ ~(n <= n - 1)
    BY <2>2, <2>3
  <2>5. Good(n - 1)
    BY <2>2, <2>4
  <2> QED BY <1>2, <2>2, <2>3, <2>4, <2>5
<1>4. Good(N)
  BY <1>3
<1> QED BY <1>4 DEF Good

LEMMA ReplayIs ==
  ASSUME NEW m, NEW f, NEW P, NEW s, s = FlattenSeq(P), Len(s) \in Nat,
         NEW g, ReplaysTo(Len(s), g, m, f, s)
  PROVE  Replay(m, f, P) = g[Len(s)]
<1> DEFINE Solves(h) == h = [n \in 0 .. Len(s) |->
                               IF n = 0 THEN m ELSE Index(h[n - 1], f, s[n])]
           c == CHOOSE h : Solves(h)
<1>1. ASSUME NEW n \in 0 .. Len(s)
      PROVE  g[n] = IF n = 0 THEN m ELSE Index(g[n - 1], f, s[n])
  <2>1. n = 0 \/ n \in 1 .. Len(s)
    OBVIOUS
  <2>2. n \in 1 .. Len(s) => n # 0
    OBVIOUS
  <2> QED BY <2>1, <2>2 DEF ReplaysTo
<1> DEFINE e == [n \in 0 .. Len(s) |-> g[n]]
<1>2. Solves(e)
  <2>1. ASSUME NEW n \in 0 .. Len(s)
        PROVE  g[n] = IF n = 0 THEN m ELSE Index(e[n - 1], f, s[n])
    <3>1. n = 0 \/ n - 1 \in 0 .. Len(s)
      OBVIOUS
    <3> QED BY <1>1, <3>1
  <2> HIDE DEF e
  <2>2. e = [n \in 0 .. Len(s) |-> g[n]]
    BY DEF e
  <2> QED BY <2>1, <2>2
<1>3. Solves(c)
  BY <1>2
<1> HIDE DEF c
<1>4. ASSUME NEW n \in 0 .. Len(s)
      PROVE  c[n] = IF n = 0 THEN m ELSE Index(c[n - 1], f, s[n])
  BY <1>3
<1> DEFINE Bad == {n \in 0 .. Len(s) : c[n] # g[n]}
<1>5. ASSUME Bad # {} PROVE FALSE
  <2>1. Bad \in SUBSET Nat
    OBVIOUS
  <2>2. PICK n \in Bad : \A k \in Bad : n <= k
    BY <1>5, <2>1, NatMin
  <2>3. n # 0
    BY <1>1, <1>4, <2>2
  <2>4. n - 1 \in 0 .. Len(s) /\ ~(n <= n - 1)
    BY <2>2, <2>3
  <2>5. c[n - 1] = g[n - 1]
    BY <2>2, <2>4
  <2> QED BY <1>1, <1>4, <2>2, <2>3, <2>5
<1>6. c[Len(s)] = g[Len(s)]
  BY <1>5
<1>7. Replay(m, f, P) = c[Len(s)]
  BY DEF Replay, c
<1> QED BY <1>6, <1>7

-----------------------------------------------------------------------------
(* The maps. *)

\* The lists that indexColumn and indexIndex put into their maps.
ColumnList(m, c) ==
  SortedByPosition(Append(WithoutOid(ListOf(m.columnsByTableOid, c.table), c.oid), c))
IndexList(m, x) == Append(WithoutOid(ListOf(m.indexesByTableOid, x.table), x.oid), x)

\* A list whose columns are at positions 0, 1, ... is in order already: an
\* increasing permutation of 1 .. n is the identity.
LEMMA SortedIsSame ==
  ASSUME NEW list \in Seq(ColumnRec), \A i \in DOMAIN list : list[i].position = i - 1
  PROVE  SortedByPosition(list) = list
<1> DEFINE D == DOMAIN list
           Ordered(p) == \A i, j \in D : i < j => list[p[i]].position <= list[p[j]].position
           id == [i \in D |-> i]
           c == CHOOSE p \in Bijection(D, D) : Ordered(p)
<1>1. D = 1 .. Len(list) /\ Len(list) \in Nat
  OBVIOUS
<1>2. id \in Bijection(D, D)
  BY DEF Bijection, Injection, Surjection, IsInjective
<1>3. Ordered(id)
  BY <1>1
<1>4. c \in Bijection(D, D) /\ Ordered(c)
  BY <1>2, <1>3
<1>5. /\ c \in [D -> D] /\ \A i, j \in D : c[i] = c[j] => i = j
      /\ \A j \in D : \E i \in D : c[i] = j
  BY <1>4 DEF Bijection, Injection, Surjection, IsInjective
<1>6. SortedByPosition(list) = [i \in D |-> list[c[i]]]
  BY DEF SortedByPosition
<1> HIDE DEF c
<1>7. ASSUME NEW i \in D, NEW j \in D, i < j PROVE c[i] < c[j]
  <2>0. c[i] \in D /\ c[j] \in D
    BY <1>5
  <2>1. c[i] \in D /\ c[j] \in D /\ c[i] # c[j]
    <3>1. i # j
      BY <1>1, <1>7
    <3> QED BY <1>5, <2>0, <3>1
  <2>2. list[c[i]].position <= list[c[j]].position
    BY <1>4, <1>7
  <2>3. c[i] - 1 <= c[j] - 1
    BY <2>1, <2>2
  <2>4. c[i] \in Nat /\ c[j] \in Nat
    BY <1>1, <2>1
  <2> QED BY <2>1, <2>3, <2>4
<1> DEFINE Bad == {i \in D : c[i] # i}
<1>8. ASSUME Bad # {} PROVE FALSE
  <2>1. Bad \in SUBSET Nat
    BY <1>1
  <2>2. PICK n \in Bad : \A k \in Bad : n <= k
    BY <1>8, <2>1, NatMin
  <2>3. PICK j \in D : c[j] = n
    BY <1>5, <2>2
  <2>4. j # n /\ n \in D /\ n \in Nat /\ j \in Nat /\ c[n] \in D /\ c[n] \in Nat
    <3>1. n \in D /\ c[n] # n
      BY <2>2
    <3>2. c[n] \in D /\ j # n
      BY <1>5, <2>3, <3>1
    <3> QED BY <1>1, <3>1, <3>2
  <2>5. ~(j < n)
    BY <2>2, <2>3, <2>4
  <2>6. c[n] < n
    BY <1>7, <2>3, <2>4, <2>5
  <2>7. c[c[n]] = c[n]
    BY <2>2, <2>4, <2>6
  <2> QED BY <1>5, <2>4, <2>6, <2>7
<1>9. ASSUME NEW i \in D PROVE list[c[i]] = list[i]
  BY <1>8
<1> QED BY <1>1, <1>6, <1>9

LEMMA WithoutOidIsSame ==
  ASSUME NEW list, NEW o, \A d \in ToSet(list) : d.oid # o
  PROVE  WithoutOid(list, o) = list
BY DEF WithoutOid

\* The next column of a table goes to the end of its list.
LEMMA ColumnListIs ==
  ASSUME NEW m, NEW c \in ColumnRec, NEW list, list = ListOf(m.columnsByTableOid, c.table),
         list \in Seq(ColumnRec), \A i \in DOMAIN list : list[i].position = i - 1,
         c.position = Len(list), \A i \in DOMAIN list : list[i].oid # c.oid
  PROVE  ColumnList(m, c) = Append(list, c)
<1>1. WithoutOid(list, c.oid) = list
  BY WithoutOidIsSame DEF ToSet
<1> DEFINE new == Append(list, c)
<1>2. /\ new \in Seq(ColumnRec) /\ DOMAIN new = 1 .. Len(list) + 1 /\ Len(list) \in Nat
      /\ DOMAIN list = 1 .. Len(list)
      /\ \A n \in 1 .. Len(list) : new[n] = list[n]
      /\ new[Len(list) + 1] = c
  BY AppendIs
<1> HIDE DEF new
<1>3. ASSUME NEW i \in DOMAIN new PROVE new[i].position = i - 1
  <2>1. i \in 1 .. Len(list) \/ i = Len(list) + 1
    BY <1>2
  <2> QED BY <1>2, <2>1
<1>4. SortedByPosition(new) = new
  BY <1>2, <1>3, SortedIsSame
<1> QED BY <1>1, <1>4 DEF ColumnList, new

-----------------------------------------------------------------------------
(* A definition enters the maps. *)

LEMMA UpTo ==
  ASSUME NEW N \in Nat, NEW S, 0 \in S, \A n \in 1 .. N : n - 1 \in S => n \in S
  PROVE  \A n \in 0 .. N : n \in S
<1> DEFINE Bad == {n \in 0 .. N : n \notin S}
<1>1. ASSUME Bad # {} PROVE FALSE
  <2>1. Bad \in SUBSET Nat
    OBVIOUS
  <2>2. PICK n \in Bad : \A k \in Bad : n <= k
    BY <1>1, <2>1, NatMin
  <2>3. n \in 1 .. N /\ n - 1 \in 0 .. N /\ ~(n <= n - 1)
    BY <2>2
  <2>4. n - 1 \in S
    BY <2>2, <2>3
  <2> QED BY <2>2, <2>3, <2>4
<1> QED BY <1>1

\* The maps that do not belong to file f are the same.
Kept(m, k, f) ==
  /\ IsRecord(m) /\ m.next = k.next
  /\ f # "types" => m.typesByName = k.typesByName
  /\ f # "tables" => m.tablesByOid = k.tablesByOid /\ m.tablesByName = k.tablesByName
  /\ f # "columns" => m.columnsByTableOid = k.columnsByTableOid
  /\ f # "indexes" => /\ m.indexesByName = k.indexesByName
                      /\ m.indexesByTableOid = k.indexesByTableOid

LEMMA IndexKeeps ==
  ASSUME NEW m, IsRecord(m), NEW f \in Files, NEW d, NEW k, k = Index(m, f, d)
  PROVE  Kept(k, m, f)
<1>1. CASE f = "types"
  BY <1>1 DEF Kept, IsRecord, Maps, Index, indexType
<1>2. CASE f = "tables"
  BY <1>2 DEF Kept, IsRecord, Maps, Index, indexTable
<1>3. CASE f = "columns"
  BY <1>3 DEF Kept, IsRecord, Maps, Index, indexColumn
<1>4. CASE f = "indexes"
  BY <1>4 DEF Kept, IsRecord, Maps, Index, indexIndex
<1> QED BY <1>1, <1>2, <1>3, <1>4 DEF Files

LEMMA ReplayKeeps ==
  ASSUME NEW N \in Nat, NEW m, IsRecord(m), NEW f \in Files, NEW s,
         NEW g, ReplaysTo(N, g, m, f, s)
  PROVE  \A n \in 0 .. N : Kept(g[n], m, f)
<1> DEFINE S == {n \in 0 .. N : Kept(g[n], m, f)}
<1>1. 0 \in S
  BY DEF ReplaysTo, Kept
<1>2. ASSUME NEW n \in 1 .. N, n - 1 \in S PROVE n \in S
  <2>1. n \in 0 .. N /\ Kept(g[n - 1], m, f)
    BY <1>2
  <2>2. g[n] = Index(g[n - 1], f, s[n])
    BY DEF ReplaysTo
  <2>3. IsRecord(g[n - 1])
    BY <2>1 DEF Kept
  <2>4. Kept(Index(g[n - 1], f, s[n]), g[n - 1], f)
    BY <2>3, IndexKeeps
  <2>5. Kept(g[n], g[n - 1], f)
    BY <2>2, <2>4
  <2>6. Kept(g[n], m, f)
    BY <2>1, <2>5 DEF Kept
  <2> QED BY <2>1, <2>6
<1>3. \A n \in 0 .. N : n \in S
  BY <1>1, <1>2, UpTo
<1> QED BY <1>3

LEMMA TypePut ==
  ASSUME NEW m, IsRecord(m), TypesAgree(m), NEW d \in TypeRec, NEW k, k = Index(m, "types", d)
  PROVE  TypesAgree(k)
<1>1. k.typesByName = Put(m.typesByName, d.name, d)
  BY DEF Index, indexType, IsRecord, Maps
<1>2. /\ DOMAIN k.typesByName = DOMAIN m.typesByName \cup {d.name}
      /\ k.typesByName[d.name] = d
      /\ \A x \in DOMAIN m.typesByName : x # d.name => k.typesByName[x] = m.typesByName[x]
  BY <1>1 DEF Put
<1> QED BY <1>2 DEF TypesAgree

\* A table gets one definition more, or the only one of its name and oid.
LEMMA TablePut ==
  ASSUME NEW m, IsRecord(m), TablesAgree(m), NEW d \in TableRec, NEW k,
         k = Index(m, "tables", d),
         \A n \in DOMAIN m.tablesByName : n = d.name <=> m.tablesByName[n].oid = d.oid
  PROVE  /\ TablesAgree(k)
         /\ DOMAIN k.tablesByName = DOMAIN m.tablesByName \cup {d.name}
         /\ DOMAIN k.tablesByOid = DOMAIN m.tablesByOid \cup {d.oid}
         /\ k.tablesByName[d.name] = d /\ k.tablesByOid[d.oid] = d
         /\ \A n \in DOMAIN m.tablesByName : n # d.name => k.tablesByName[n] = m.tablesByName[n]
         /\ \A o \in DOMAIN m.tablesByOid : o # d.oid => k.tablesByOid[o] = m.tablesByOid[o]
<1>1. /\ k.tablesByName = Put(m.tablesByName, d.name, d)
      /\ k.tablesByOid = Put(m.tablesByOid, d.oid, d)
  BY DEF Index, indexTable, IsRecord, Maps
<1>2. /\ DOMAIN k.tablesByName = DOMAIN m.tablesByName \cup {d.name}
      /\ k.tablesByName[d.name] = d
      /\ \A n \in DOMAIN m.tablesByName : n # d.name => k.tablesByName[n] = m.tablesByName[n]
  BY <1>1 DEF Put
<1>3. /\ DOMAIN k.tablesByOid = DOMAIN m.tablesByOid \cup {d.oid}
      /\ k.tablesByOid[d.oid] = d
      /\ \A o \in DOMAIN m.tablesByOid : o # d.oid => k.tablesByOid[o] = m.tablesByOid[o]
  BY <1>1 DEF Put
<1>4. ASSUME NEW n \in DOMAIN k.tablesByName, NEW t, t = k.tablesByName[n]
      PROVE  /\ t \in TableRec /\ t.name = n
             /\ t.oid \in DOMAIN k.tablesByOid /\ k.tablesByOid[t.oid] = t
  <2>1. CASE n = d.name
    BY <1>2, <1>3, <1>4, <2>1
  <2>2. CASE n # d.name
    <3>1. n \in DOMAIN m.tablesByName /\ t = m.tablesByName[n]
      BY <1>2, <1>4, <2>2
    <3>2. /\ t \in TableRec /\ t.name = n
          /\ t.oid \in DOMAIN m.tablesByOid /\ m.tablesByOid[t.oid] = t
      BY <3>1 DEF TablesAgree
    <3>3. t.oid # d.oid
      BY <2>2, <3>1
    <3> QED BY <1>3, <3>2, <3>3
  <2> QED BY <2>1, <2>2
<1>5. ASSUME NEW o \in DOMAIN k.tablesByOid, NEW t, t = k.tablesByOid[o]
      PROVE  t.oid = o /\ t.name \in DOMAIN k.tablesByName /\ k.tablesByName[t.name] = t
  <2>1. CASE o = d.oid
    BY <1>2, <1>3, <1>5, <2>1
  <2>2. CASE o # d.oid
    <3>1. o \in DOMAIN m.tablesByOid /\ t = m.tablesByOid[o]
      BY <1>3, <1>5, <2>2
    <3>2. t.oid = o /\ t.name \in DOMAIN m.tablesByName /\ m.tablesByName[t.name] = t
      BY <3>1 DEF TablesAgree
    <3>3. t.name # d.name
      BY <2>2, <3>2
    <3> QED BY <1>2, <3>2, <3>3
  <2> QED BY <2>1, <2>2
<1>6. TablesAgree(k)
  BY <1>4, <1>5 DEF TablesAgree
<1> QED BY <1>2, <1>3, <1>6

\* A column goes to the end of the list of its table.
LEMMA ColumnPut ==
  ASSUME NEW m, IsRecord(m), ColumnsAgree(m), NEW d \in ColumnRec, NEW k,
         k = Index(m, "columns", d), NEW list, list = ListOf(m.columnsByTableOid, d.table),
         d.position = Len(list), \A i \in DOMAIN list : list[i].oid # d.oid
  PROVE  /\ ColumnsAgree(k) /\ list \in Seq(ColumnRec)
         /\ DOMAIN k.columnsByTableOid = DOMAIN m.columnsByTableOid \cup {d.table}
         /\ k.columnsByTableOid[d.table] = Append(list, d)
         /\ ListOf(k.columnsByTableOid, d.table) = Append(list, d)
         /\ \A o \in DOMAIN m.columnsByTableOid : o # d.table =>
              k.columnsByTableOid[o] = m.columnsByTableOid[o]
         /\ \A o : o # d.table =>
              ListOf(k.columnsByTableOid, o) = ListOf(m.columnsByTableOid, o)
<1>1. list \in Seq(ColumnRec) /\ \A i \in DOMAIN list : list[i].table = d.table /\ list[i].position = i - 1
  <2>1. CASE d.table \in DOMAIN m.columnsByTableOid
    BY <2>1 DEF ColumnsAgree, ListOf
  <2>2. CASE d.table \notin DOMAIN m.columnsByTableOid
    <3>1. list = <<>>
      BY <2>2 DEF ListOf
    <3> QED BY <3>1
  <2> QED BY <2>1, <2>2
<1>2. ColumnList(m, d) = Append(list, d)
  BY <1>1, ColumnListIs
<1>3. k.columnsByTableOid = Put(m.columnsByTableOid, d.table, Append(list, d))
  BY <1>2 DEF Index, indexColumn, IsRecord, Maps, ColumnList
<1>4. /\ DOMAIN k.columnsByTableOid = DOMAIN m.columnsByTableOid \cup {d.table}
      /\ k.columnsByTableOid[d.table] = Append(list, d)
      /\ \A o \in DOMAIN m.columnsByTableOid : o # d.table =>
           k.columnsByTableOid[o] = m.columnsByTableOid[o]
  BY <1>3 DEF Put
<1>5. /\ ListOf(k.columnsByTableOid, d.table) = Append(list, d)
      /\ \A o : o # d.table => ListOf(k.columnsByTableOid, o) = ListOf(m.columnsByTableOid, o)
  BY <1>4 DEF ListOf
<1>6. /\ Append(list, d) \in Seq(ColumnRec)
      /\ \A i \in DOMAIN Append(list, d) :
           Append(list, d)[i].table = d.table /\ Append(list, d)[i].position = i - 1
  <2>1. /\ Append(list, d) \in Seq(ColumnRec) /\ Len(list) \in Nat
        /\ DOMAIN Append(list, d) = 1 .. Len(list) + 1 /\ DOMAIN list = 1 .. Len(list)
        /\ \A n \in 1 .. Len(list) : Append(list, d)[n] = list[n]
        /\ Append(list, d)[Len(list) + 1] = d
    BY <1>1, AppendIs
  <2>2. ASSUME NEW i \in DOMAIN Append(list, d)
        PROVE  Append(list, d)[i].table = d.table /\ Append(list, d)[i].position = i - 1
    <3>1. CASE i \in 1 .. Len(list)
      BY <1>1, <2>1, <3>1
    <3>2. CASE i = Len(list) + 1
      <4>1. Append(list, d)[i] = d /\ i - 1 = Len(list)
        BY <2>1, <3>2
      <4> QED BY <4>1
    <3> QED BY <2>1, <3>1, <3>2
  <2> QED BY <2>1, <2>2
<1>7. ColumnsAgree(k)
  <2>1. ASSUME NEW o \in DOMAIN k.columnsByTableOid
        PROVE  /\ k.columnsByTableOid[o] \in Seq(ColumnRec)
               /\ \A i \in DOMAIN k.columnsByTableOid[o] :
                    /\ k.columnsByTableOid[o][i].table = o
                    /\ k.columnsByTableOid[o][i].position = i - 1
    <3>1. CASE o = d.table
      BY <1>4, <1>6, <3>1
    <3>2. CASE o # d.table
      <4>1. o \in DOMAIN m.columnsByTableOid /\ k.columnsByTableOid[o] = m.columnsByTableOid[o]
        BY <1>4, <3>2
      <4> QED BY <4>1 DEF ColumnsAgree
    <3> QED BY <3>1, <3>2
  <2> QED BY <2>1 DEF ColumnsAgree
<1> QED BY <1>1, <1>4, <1>5, <1>7

\* An index of a new name and oid.
LEMMA IndexPut ==
  ASSUME NEW m, IsRecord(m), IndexesAgree(m), NEW d \in IndexRec, NEW k,
         k = Index(m, "indexes", d), d.name \notin DOMAIN m.indexesByName,
         \A n \in DOMAIN m.indexesByName : m.indexesByName[n].oid # d.oid
  PROVE  /\ IndexesAgree(k)
         /\ DOMAIN k.indexesByName = DOMAIN m.indexesByName \cup {d.name}
         /\ DOMAIN k.indexesByTableOid = DOMAIN m.indexesByTableOid \cup {d.table}
         /\ k.indexesByName[d.name] = d
         /\ \A n \in DOMAIN m.indexesByName : k.indexesByName[n] = m.indexesByName[n]
<1> DEFINE list == ListOf(m.indexesByTableOid, d.table)
<1>1. /\ list \in Seq(IndexRec)
      /\ \A i \in DOMAIN list : /\ list[i].name \in DOMAIN m.indexesByName
                                /\ m.indexesByName[list[i].name] = list[i]
  <2>1. CASE d.table \in DOMAIN m.indexesByTableOid
    BY <2>1 DEF IndexesAgree, ListOf
  <2>2. CASE d.table \notin DOMAIN m.indexesByTableOid
    <3>1. list = <<>>
      BY <2>2 DEF ListOf
    <3> QED BY <3>1
  <2> QED BY <2>1, <2>2
<1>2. WithoutOid(list, d.oid) = list
  <2>1. \A x \in ToSet(list) : x.oid # d.oid
    BY <1>1 DEF ToSet
  <2> QED BY <2>1, WithoutOidIsSame
<1> DEFINE new == Append(list, d)
<1>3. /\ k.indexesByName = Put(m.indexesByName, d.name, d)
      /\ k.indexesByTableOid = Put(m.indexesByTableOid, d.table, new)
  BY <1>2 DEF Index, indexIndex, IsRecord, Maps, IndexList
<1>4. /\ DOMAIN k.indexesByName = DOMAIN m.indexesByName \cup {d.name}
      /\ k.indexesByName[d.name] = d
      /\ \A n \in DOMAIN m.indexesByName : n # d.name => k.indexesByName[n] = m.indexesByName[n]
  BY <1>3 DEF Put
<1>5. /\ DOMAIN k.indexesByTableOid = DOMAIN m.indexesByTableOid \cup {d.table}
      /\ k.indexesByTableOid[d.table] = new
      /\ \A o \in DOMAIN m.indexesByTableOid : o # d.table =>
           k.indexesByTableOid[o] = m.indexesByTableOid[o]
  BY <1>3 DEF Put
<1>6. /\ new \in Seq(IndexRec) /\ Len(list) \in Nat
      /\ DOMAIN new = 1 .. Len(list) + 1 /\ DOMAIN list = 1 .. Len(list)
      /\ \A n \in 1 .. Len(list) : new[n] = list[n]
      /\ new[Len(list) + 1] = d
  BY <1>1, AppendIs
<1>l. list = ListOf(m.indexesByTableOid, d.table)
  OBVIOUS
<1> HIDE DEF list, new
<1>7. /\ d \in ToSet(new) /\ \A x \in ToSet(list) : x \in ToSet(new)
  <2>1. Len(list) + 1 \in DOMAIN new /\ \A n \in DOMAIN list : n \in DOMAIN new
    BY <1>6
  <2> QED BY <1>6, <2>1 DEF ToSet
<1>8. ASSUME NEW n \in DOMAIN k.indexesByName, NEW x, x = k.indexesByName[n]
      PROVE  /\ x \in IndexRec /\ x.name = n /\ x.table \in DOMAIN k.indexesByTableOid
             /\ x \in ToSet(k.indexesByTableOid[x.table])
  <2>1. CASE n = d.name
    BY <1>4, <1>5, <1>7, <1>8, <2>1
  <2>2. CASE n # d.name
    <3>1. n \in DOMAIN m.indexesByName /\ x = m.indexesByName[n]
      BY <1>4, <1>8, <2>2
    <3>2. /\ x \in IndexRec /\ x.name = n /\ x.table \in DOMAIN m.indexesByTableOid
          /\ x \in ToSet(m.indexesByTableOid[x.table])
      BY <3>1 DEF IndexesAgree
    <3>3. x.table = d.table => x \in ToSet(new)
      BY <1>7, <1>l, <3>2 DEF ListOf
    <3> QED BY <1>5, <3>2, <3>3
  <2> QED BY <2>1, <2>2
<1>9. ASSUME NEW o \in DOMAIN k.indexesByTableOid
      PROVE  /\ k.indexesByTableOid[o] \in Seq(IndexRec)
             /\ \A i \in DOMAIN k.indexesByTableOid[o] :
                  /\ k.indexesByTableOid[o][i].name \in DOMAIN k.indexesByName
                  /\ k.indexesByName[k.indexesByTableOid[o][i].name] = k.indexesByTableOid[o][i]
  <2> PICK l : l = k.indexesByTableOid[o]
    OBVIOUS
  <2>1. CASE o = d.table
    <3>1. l = new
      BY <1>5, <2>1
    <3>2. ASSUME NEW i \in DOMAIN new
          PROVE  new[i].name \in DOMAIN k.indexesByName /\ k.indexesByName[new[i].name] = new[i]
      <4>1. CASE i \in 1 .. Len(list)
        <5>1. new[i] = list[i] /\ list[i].name \in DOMAIN m.indexesByName
          BY <1>1, <1>6, <4>1
        <5> QED BY <1>1, <1>4, <1>6, <4>1, <5>1
      <4>2. CASE i = Len(list) + 1
        BY <1>4, <1>6, <4>2
      <4> QED BY <1>6, <4>1, <4>2
    <3> QED BY <1>6, <3>1, <3>2
  <2>2. CASE o # d.table
    <3>1. o \in DOMAIN m.indexesByTableOid /\ l = m.indexesByTableOid[o]
      BY <1>5, <2>2
    <3>2. /\ l \in Seq(IndexRec)
          /\ \A i \in DOMAIN l : /\ l[i].name \in DOMAIN m.indexesByName
                                 /\ m.indexesByName[l[i].name] = l[i]
      BY <3>1 DEF IndexesAgree
    <3> QED BY <1>4, <3>2
  <2> QED BY <2>1, <2>2
<1>10. IndexesAgree(k)
  <2>1. \A n \in DOMAIN k.indexesByName :
          /\ k.indexesByName[n] \in IndexRec /\ k.indexesByName[n].name = n
          /\ k.indexesByName[n].table \in DOMAIN k.indexesByTableOid
          /\ k.indexesByName[n] \in ToSet(k.indexesByTableOid[k.indexesByName[n].table])
    BY <1>8
  <2> QED BY <1>9, <2>1 DEF IndexesAgree
<1> QED BY <1>4, <1>5, <1>10

-----------------------------------------------------------------------------
(* Loading a file: what the maps are after the first n of its records s. *)

TypesLoaded(m, B) ==
  TypesAgree(m) /\ \A x \in DOMAIN m.typesByName : m.typesByName[x].oid < B

LEMMA LoadTypes ==
  ASSUME NEW s \in Seq(TypeRec), NEW B, \A a \in DOMAIN s : s[a].oid < B,
         NEW m, IsRecord(m), m.typesByName = Empty,
         NEW g, ReplaysTo(Len(s), g, m, "types", s)
  PROVE  TypesLoaded(g[Len(s)], B)
<1> DEFINE S == {n \in 0 .. Len(s) : TypesLoaded(g[n], B)}
<1>0. Len(s) \in Nat /\ DOMAIN s = 1 .. Len(s)
  OBVIOUS
<1>1. 0 \in S
  <2>1. g[0] = m
    BY DEF ReplaysTo
  <2>2. TypesLoaded(m, B)
    BY DEF TypesLoaded, TypesAgree, Empty
  <2> QED BY <1>0, <2>1, <2>2
<1>2. ASSUME NEW n \in 1 .. Len(s), n - 1 \in S PROVE n \in S
  <2> PICK d, k, h : d = s[n] /\ k = g[n - 1] /\ h = g[n]
    OBVIOUS
  <2>1. n \in 0 .. Len(s) /\ TypesLoaded(k, B) /\ d \in TypeRec /\ d.oid < B
    BY <1>0, <1>2
  <2>2. h = Index(k, "types", d) /\ IsRecord(k)
    <3>1. n - 1 \in 0 .. Len(s)
      BY <1>2
    <3>2. Kept(k, m, "types")
      BY <1>0, <3>1, ReplayKeeps DEF Files
    <3> QED BY <3>2 DEF ReplaysTo, Kept
  <2>3. TypesAgree(h)
    BY <2>1, <2>2, TypePut DEF TypesLoaded
  <2>4. h.typesByName = Put(k.typesByName, d.name, d)
    BY <2>2 DEF Index, indexType, IsRecord, Maps
  <2>5. \A x \in DOMAIN h.typesByName : h.typesByName[x].oid < B
    BY <2>1, <2>4 DEF Put, TypesLoaded
  <2> QED BY <2>1, <2>3, <2>5 DEF TypesLoaded
<1>3. \A n \in 0 .. Len(s) : n \in S
  BY <1>0, <1>1, <1>2, UpTo
<1> QED BY <1>0, <1>3

TablesLoaded(m, s, n) ==
  /\ TablesAgree(m)
  /\ \A x \in DOMAIN m.tablesByName : \E a \in 1 .. n : m.tablesByName[x] = s[a]
  /\ \A a \in 1 .. n : TableKnown(s[a], m)

LEMMA LoadTables ==
  ASSUME NEW s \in Seq(TableRec),
         \A a, b \in DOMAIN s : s[a].name = s[b].name <=> s[a].oid = s[b].oid,
         \A a, b \in DOMAIN s : a < b => Follows("tables", s[a], s[b]),
         NEW m, IsRecord(m), m.tablesByOid = Empty, m.tablesByName = Empty,
         NEW g, ReplaysTo(Len(s), g, m, "tables", s)
  PROVE  TablesLoaded(g[Len(s)], s, Len(s))
<1> DEFINE S == {n \in 0 .. Len(s) : TablesLoaded(g[n], s, n)}
<1>0. Len(s) \in Nat /\ DOMAIN s = 1 .. Len(s)
  OBVIOUS
<1>1. 0 \in S
  <2>1. g[0] = m
    BY DEF ReplaysTo
  <2>2. TablesLoaded(m, s, 0)
    BY DEF TablesLoaded, TablesAgree, Empty
  <2> QED BY <1>0, <2>1, <2>2
<1>2. ASSUME NEW n \in 1 .. Len(s), n - 1 \in S PROVE n \in S
  <2> DEFINE d == s[n]
  <2>1. n \in 0 .. Len(s) /\ TablesLoaded(g[n - 1], s, n - 1) /\ d \in TableRec /\ n \in Nat /\ n \in DOMAIN s
    BY <1>0, <1>2
  <2>2. g[n] = Index(g[n - 1], "tables", d) /\ IsRecord(g[n - 1])
    <3>1. n - 1 \in 0 .. Len(s)
      BY <1>2
    <3>2. Kept(g[n - 1], m, "tables")
      BY <1>0, <3>1, ReplayKeeps DEF Files
    <3> QED BY <3>2 DEF ReplaysTo, Kept
  <2> HIDE DEF d
  <2>d. d = s[n] /\ \A a \in 1 .. n - 1 : a \in DOMAIN s /\ a < n
    BY <1>0, <2>1 DEF d
  <2> PICK k, h : k = g[n - 1] /\ h = g[n]
    OBVIOUS
  <2>3. ASSUME NEW x \in DOMAIN k.tablesByName
        PROVE  x = d.name <=> k.tablesByName[x].oid = d.oid
    <3>1. PICK a \in 1 .. n - 1 : k.tablesByName[x] = s[a]
      BY <2>1 DEF TablesLoaded
    <3>2. k.tablesByName[x].name = x
      BY <2>1 DEF TablesLoaded, TablesAgree
    <3>3. a \in DOMAIN s /\ s[a].name = x
      BY <2>d, <3>1, <3>2
    <3> QED BY <2>1, <2>d, <3>1, <3>3
  <2>4. /\ TablesAgree(h)
        /\ DOMAIN h.tablesByName = DOMAIN k.tablesByName \cup {d.name}
        /\ h.tablesByName[d.name] = d
        /\ \A x \in DOMAIN k.tablesByName : x # d.name => h.tablesByName[x] = k.tablesByName[x]
    <3>1. TablesAgree(k) /\ IsRecord(k) /\ h = Index(k, "tables", d)
      BY <2>1, <2>2 DEF TablesLoaded
    <3> QED BY <2>1, <2>3, <3>1, TablePut
  <2>5. ASSUME NEW x \in DOMAIN h.tablesByName PROVE \E a \in 1 .. n : h.tablesByName[x] = s[a]
    <3>1. CASE x = d.name
      BY <2>1, <2>4, <2>d, <3>1
    <3>2. CASE x # d.name
      <4>1. x \in DOMAIN k.tablesByName /\ h.tablesByName[x] = k.tablesByName[x]
        BY <2>4, <3>2
      <4>2. PICK a \in 1 .. n - 1 : k.tablesByName[x] = s[a]
        BY <2>1, <4>1 DEF TablesLoaded
      <4>3. a \in 1 .. n
        BY <2>1
      <4> QED BY <4>1, <4>2, <4>3
    <3> QED BY <3>1, <3>2
  <2>6. ASSUME NEW a \in 1 .. n PROVE TableKnown(s[a], h)
    <3>1. CASE a = n
      <4>1. d.pages \in Nat
        BY <2>1 DEF TableRec
      <4> QED BY <2>4, <2>d, <3>1, <4>1 DEF TableKnown
    <3>2. CASE a # n
      <4>1. a \in 1 .. n - 1
        BY <2>1, <3>2
      <4>2. TableKnown(s[a], k)
        BY <2>1, <4>1 DEF TablesLoaded
      <4>3. CASE s[a].name # d.name
        BY <2>4, <4>2, <4>3 DEF TableKnown
      <4>4. CASE s[a].name = d.name
        <5>1. a \in DOMAIN s /\ s[a].oid = d.oid
          BY <2>1, <2>d, <4>1, <4>4
        <5>2. s[a].pages <= d.pages
          BY <2>1, <2>d, <4>1, <5>1 DEF Follows
        <5>3. s[a] \in TableRec
          BY <5>1
        <5> QED BY <2>1, <2>4, <4>4, <5>1, <5>2, <5>3 DEF TableKnown, TableRec
      <4> QED BY <4>3, <4>4
    <3> QED BY <3>1, <3>2
  <2>7. TablesLoaded(h, s, n)
    BY <2>4, <2>5, <2>6 DEF TablesLoaded
  <2> QED BY <2>1, <2>7
<1>3. \A n \in 0 .. Len(s) : n \in S
  BY <1>0, <1>1, <1>2, UpTo
<1> QED BY <1>0, <1>3

ColumnsLoaded(m, s, n) ==
  /\ ColumnsAgree(m)
  /\ \A o \in DOMAIN m.columnsByTableOid : \E a \in 1 .. n : s[a].table = o
  /\ \A o \in DOMAIN m.columnsByTableOid : \A i \in DOMAIN m.columnsByTableOid[o] :
       \E a \in 1 .. n : m.columnsByTableOid[o][i] = s[a]
  /\ \A a \in 1 .. n : ColumnKnown(s[a], m)

LEMMA LoadColumns ==
  ASSUME NEW s \in Seq(ColumnRec),
         \A a, b \in DOMAIN s : a < b => Follows("columns", s[a], s[b]),
         \A b \in DOMAIN s : s[b].position > 0 =>
           \E a \in DOMAIN s : s[a].table = s[b].table /\ s[a].position = s[b].position - 1,
         NEW m, IsRecord(m), m.columnsByTableOid = Empty,
         NEW g, ReplaysTo(Len(s), g, m, "columns", s)
  PROVE  ColumnsLoaded(g[Len(s)], s, Len(s))
<1> DEFINE S == {n \in 0 .. Len(s) : ColumnsLoaded(g[n], s, n)}
<1>0. Len(s) \in Nat /\ DOMAIN s = 1 .. Len(s)
  OBVIOUS
<1>1. 0 \in S
  <2>1. g[0] = m
    BY DEF ReplaysTo
  <2>2. ColumnsLoaded(m, s, 0)
    BY DEF ColumnsLoaded, ColumnsAgree, Empty
  <2> QED BY <1>0, <2>1, <2>2
<1>2. ASSUME NEW n \in 1 .. Len(s), n - 1 \in S PROVE n \in S
  <2> DEFINE d == s[n]
  <2>1. n \in 0 .. Len(s) /\ ColumnsLoaded(g[n - 1], s, n - 1) /\ d \in ColumnRec /\ n \in Nat /\ n \in DOMAIN s
    BY <1>0, <1>2
  <2>2. g[n] = Index(g[n - 1], "columns", d) /\ IsRecord(g[n - 1])
    <3>1. n - 1 \in 0 .. Len(s)
      BY <1>2
    <3>2. Kept(g[n - 1], m, "columns")
      BY <1>0, <3>1, ReplayKeeps DEF Files
    <3> QED BY <3>2 DEF ReplaysTo, Kept
  <2> HIDE DEF d
  <2>d. d = s[n] /\ \A a \in 1 .. n - 1 : a \in DOMAIN s /\ a < n
    BY <1>0, <2>1 DEF d
  <2> PICK k, h, list : k = g[n - 1] /\ h = g[n] /\ list = ListOf(k.columnsByTableOid, d.table)
    OBVIOUS
  <2>e. ASSUME NEW a \in 1 .. n - 1
        PROVE  s[a].oid # d.oid /\ (s[a].table = d.table => s[a].position < d.position)
    BY <2>1, <2>d DEF Follows
  <2>3. /\ list \in Seq(ColumnRec) /\ Len(list) \in Nat /\ DOMAIN list = 1 .. Len(list)
        /\ \A i \in DOMAIN list : /\ list[i].table = d.table /\ list[i].position = i - 1
                                  /\ \E a \in 1 .. n - 1 : list[i] = s[a]
    <3>1. CASE d.table \in DOMAIN k.columnsByTableOid
      <4>1. list = k.columnsByTableOid[d.table]
        BY <3>1 DEF ListOf
      <4> QED BY <2>1, <3>1, <4>1 DEF ColumnsLoaded, ColumnsAgree
    <3>2. CASE d.table \notin DOMAIN k.columnsByTableOid
      <4>1. list = <<>>
        BY <3>2 DEF ListOf
      <4> QED BY <4>1
    <3> QED BY <3>1, <3>2
  <2>4. \A i \in DOMAIN list : list[i].oid # d.oid
    BY <2>3, <2>e
  <2>5. d.position = Len(list)
    <3>1. d.position \in Nat
      BY <2>1 DEF ColumnRec
    <3>2. ASSUME d.position < Len(list) PROVE FALSE
      <4>1. d.position + 1 \in DOMAIN list
        BY <2>3, <3>1, <3>2
      <4>2. PICK a \in 1 .. n - 1 : list[d.position + 1] = s[a]
        BY <2>3, <4>1
      <4>3. s[a].table = d.table /\ s[a].position = (d.position + 1) - 1
        BY <2>3, <4>1, <4>2
      <4>4. s[a].position < d.position
        BY <2>e, <4>3
      <4> QED BY <3>1, <4>3, <4>4
    <3>3. ASSUME d.position > Len(list) PROVE FALSE
      <4>1. d.position > 0
        BY <2>3, <3>1, <3>3
      <4>2. PICK a \in DOMAIN s : s[a].table = d.table /\ s[a].position = d.position - 1
        BY <2>1, <2>d, <4>1
      <4>3. a < n
        <5>1. a = n \/ a < n \/ a > n
          BY <1>0, <2>1
        <5>2. a # n
          BY <2>d, <3>1, <4>2
        <5>3. ~(a > n)
          <6>1. SUFFICES ASSUME n < a PROVE FALSE
            BY <1>0, <2>1
          <6>2. d.position < s[a].position
            BY <2>1, <2>d, <4>2, <6>1 DEF Follows
          <6> QED BY <3>1, <4>2, <6>2
        <5> QED BY <5>1, <5>2, <5>3
      <4>4. a \in 1 .. n - 1
        BY <1>0, <2>1, <4>3
      <4>5. s[a] \in ToSet(list)
        <5>1. ColumnKnown(s[a], k)
          BY <2>1, <4>4 DEF ColumnsLoaded
        <5> QED BY <4>2, <5>1 DEF ColumnKnown
      <4>6. PICK i \in DOMAIN list : list[i] = s[a]
        BY <4>5 DEF ToSet
      <4>7. i - 1 = d.position - 1
        BY <2>3, <4>2, <4>6
      <4> QED BY <2>3, <3>1, <3>3, <4>7
    <3> QED BY <2>3, <3>1, <3>2, <3>3
  <2>6. /\ ColumnsAgree(h)
        /\ DOMAIN h.columnsByTableOid = DOMAIN k.columnsByTableOid \cup {d.table}
        /\ h.columnsByTableOid[d.table] = Append(list, d)
        /\ ListOf(h.columnsByTableOid, d.table) = Append(list, d)
        /\ \A o \in DOMAIN k.columnsByTableOid : o # d.table =>
             h.columnsByTableOid[o] = k.columnsByTableOid[o]
        /\ \A o : o # d.table =>
             ListOf(h.columnsByTableOid, o) = ListOf(k.columnsByTableOid, o)
    <3>1. ColumnsAgree(k) /\ IsRecord(k) /\ h = Index(k, "columns", d)
      BY <2>1, <2>2 DEF ColumnsLoaded
    <3>2. d \in ColumnRec /\ list = ListOf(k.columnsByTableOid, d.table)
      BY <2>1
    <3>3. ColumnsAgree(h)
      BY <2>4, <2>5, <3>1, <3>2, ColumnPut
    <3>4. /\ DOMAIN h.columnsByTableOid = DOMAIN k.columnsByTableOid \cup {d.table}
          /\ h.columnsByTableOid[d.table] = Append(list, d)
      BY <2>4, <2>5, <3>1, <3>2, ColumnPut
    <3>5. \A o \in DOMAIN k.columnsByTableOid : o # d.table =>
             h.columnsByTableOid[o] = k.columnsByTableOid[o]
      BY <2>4, <2>5, <3>1, <3>2, ColumnPut
    <3> QED BY <3>3, <3>4, <3>5 DEF ListOf
  <2>7. /\ DOMAIN Append(list, d) = 1 .. Len(list) + 1
        /\ \A i \in 1 .. Len(list) : Append(list, d)[i] = list[i]
        /\ Append(list, d)[Len(list) + 1] = d
    BY <2>1, <2>3, AppendIs
  <2>8. \A a \in 1 .. n - 1 : a \in 1 .. n
    BY <2>1
  <2>9. n \in 1 .. n
    BY <2>1
  <2>10. ASSUME NEW o \in DOMAIN h.columnsByTableOid PROVE \E a \in 1 .. n : s[a].table = o
    <3>1. CASE o = d.table
      BY <2>9, <2>d, <3>1
    <3>2. CASE o # d.table
      <4>1. PICK a \in 1 .. n - 1 : s[a].table = o
        BY <2>1, <2>6, <3>2 DEF ColumnsLoaded
      <4> QED BY <2>8, <4>1
    <3> QED BY <3>1, <3>2
  <2>11. ASSUME NEW o \in DOMAIN h.columnsByTableOid, NEW i \in DOMAIN h.columnsByTableOid[o]
         PROVE  \E a \in 1 .. n : h.columnsByTableOid[o][i] = s[a]
    <3>1. CASE o = d.table
      <4>1. i \in 1 .. Len(list) + 1 /\ h.columnsByTableOid[o] = Append(list, d)
        BY <2>6, <2>7, <3>1
      <4>2. CASE i = Len(list) + 1
        BY <2>7, <2>9, <2>d, <4>1, <4>2
      <4>3. CASE i \in 1 .. Len(list)
        <5>1. PICK a \in 1 .. n - 1 : list[i] = s[a]
          BY <2>3, <4>3
        <5> QED BY <2>7, <2>8, <4>1, <4>3, <5>1
      <4> QED BY <2>3, <4>1, <4>2, <4>3
    <3>2. CASE o # d.table
      <4>1. o \in DOMAIN k.columnsByTableOid /\ h.columnsByTableOid[o] = k.columnsByTableOid[o]
        BY <2>6, <3>2
      <4>2. PICK a \in 1 .. n - 1 : k.columnsByTableOid[o][i] = s[a]
        BY <2>1, <4>1 DEF ColumnsLoaded
      <4> QED BY <2>8, <4>1, <4>2
    <3> QED BY <3>1, <3>2
  <2>12. ASSUME NEW a \in 1 .. n PROVE ColumnKnown(s[a], h)
    <3>1. CASE a = n
      <4>1. d \in ToSet(Append(list, d))
        <5>1. Len(list) + 1 \in DOMAIN Append(list, d)
          BY <2>3, <2>7
        <5> QED BY <2>7, <5>1 DEF ToSet
      <4> QED BY <2>6, <2>d, <3>1, <4>1 DEF ColumnKnown
    <3>2. CASE a # n
      <4>1. a \in 1 .. n - 1
        BY <2>1, <3>2
      <4>2. s[a] \in ToSet(ListOf(k.columnsByTableOid, s[a].table))
        BY <2>1, <4>1 DEF ColumnsLoaded, ColumnKnown
      <4>3. CASE s[a].table # d.table
        BY <2>6, <4>2, <4>3 DEF ColumnKnown
      <4>4. CASE s[a].table = d.table
        <5>1. PICK i \in DOMAIN list : list[i] = s[a]
          BY <4>2, <4>4 DEF ToSet
        <5>2. i \in DOMAIN Append(list, d) /\ Append(list, d)[i] = s[a]
          BY <2>3, <2>7, <5>1
        <5>3. s[a] \in ToSet(Append(list, d))
          BY <5>2 DEF ToSet
        <5> QED BY <2>6, <4>4, <5>3 DEF ColumnKnown
      <4> QED BY <4>3, <4>4
    <3> QED BY <3>1, <3>2
  <2>13. ColumnsLoaded(h, s, n)
    BY <2>6, <2>10, <2>11, <2>12 DEF ColumnsLoaded
  <2> QED BY <2>1, <2>13
<1>3. \A n \in 0 .. Len(s) : n \in S
  BY <1>0, <1>1, <1>2, UpTo
<1> QED BY <1>0, <1>3

IndexesLoaded(m, s, n) ==
  /\ IndexesAgree(m)
  /\ \A x \in DOMAIN m.indexesByName : \E a \in 1 .. n : m.indexesByName[x] = s[a]
  /\ \A o \in DOMAIN m.indexesByTableOid : \E a \in 1 .. n : s[a].table = o
  /\ \A a \in 1 .. n : IndexKnown(s[a], m)

LEMMA LoadIndexes ==
  ASSUME NEW s \in Seq(IndexRec),
         \A a, b \in DOMAIN s : a < b => Follows("indexes", s[a], s[b]),
         NEW m, IsRecord(m), m.indexesByName = Empty, m.indexesByTableOid = Empty,
         NEW g, ReplaysTo(Len(s), g, m, "indexes", s)
  PROVE  IndexesLoaded(g[Len(s)], s, Len(s))
<1> DEFINE S == {n \in 0 .. Len(s) : IndexesLoaded(g[n], s, n)}
<1>0. Len(s) \in Nat /\ DOMAIN s = 1 .. Len(s)
  OBVIOUS
<1>1. 0 \in S
  <2>1. g[0] = m
    BY DEF ReplaysTo
  <2>2. IndexesLoaded(m, s, 0)
    BY DEF IndexesLoaded, IndexesAgree, Empty
  <2> QED BY <1>0, <2>1, <2>2
<1>2. ASSUME NEW n \in 1 .. Len(s), n - 1 \in S PROVE n \in S
  <2> DEFINE d == s[n]
  <2>1. n \in 0 .. Len(s) /\ IndexesLoaded(g[n - 1], s, n - 1) /\ d \in IndexRec /\ n \in Nat /\ n \in DOMAIN s
    BY <1>0, <1>2
  <2>2. g[n] = Index(g[n - 1], "indexes", d) /\ IsRecord(g[n - 1])
    <3>1. n - 1 \in 0 .. Len(s)
      BY <1>2
    <3>2. Kept(g[n - 1], m, "indexes")
      BY <1>0, <3>1, ReplayKeeps DEF Files
    <3> QED BY <3>2 DEF ReplaysTo, Kept
  <2> HIDE DEF d
  <2>d. d = s[n] /\ \A a \in 1 .. n - 1 : a \in DOMAIN s /\ a < n
    BY <1>0, <2>1 DEF d
  <2> PICK k, h : k = g[n - 1] /\ h = g[n]
    OBVIOUS
  <2>e. ASSUME NEW a \in 1 .. n - 1 PROVE s[a].oid # d.oid /\ s[a].name # d.name
    BY <2>1, <2>d DEF Follows
  <2>3. /\ d.name \notin DOMAIN k.indexesByName
        /\ \A x \in DOMAIN k.indexesByName : k.indexesByName[x].oid # d.oid
    <3>1. ASSUME NEW x \in DOMAIN k.indexesByName
          PROVE  x # d.name /\ k.indexesByName[x].oid # d.oid
      <4>1. PICK a \in 1 .. n - 1 : k.indexesByName[x] = s[a]
        BY <2>1 DEF IndexesLoaded
      <4>2. k.indexesByName[x].name = x
        BY <2>1 DEF IndexesLoaded, IndexesAgree
      <4> QED BY <2>e, <4>1, <4>2
    <3> QED BY <3>1
  <2>4. /\ IndexesAgree(h)
        /\ DOMAIN h.indexesByName = DOMAIN k.indexesByName \cup {d.name}
        /\ DOMAIN h.indexesByTableOid = DOMAIN k.indexesByTableOid \cup {d.table}
        /\ h.indexesByName[d.name] = d
        /\ \A x \in DOMAIN k.indexesByName : h.indexesByName[x] = k.indexesByName[x]
    <3>1. IndexesAgree(k) /\ IsRecord(k) /\ h = Index(k, "indexes", d)
      BY <2>1, <2>2 DEF IndexesLoaded
    <3> QED BY <2>1, <2>3, <3>1, IndexPut
  <2>5. n \in 1 .. n /\ \A a \in 1 .. n - 1 : a \in 1 .. n
    BY <2>1
  <2>6. ASSUME NEW x \in DOMAIN h.indexesByName PROVE \E a \in 1 .. n : h.indexesByName[x] = s[a]
    <3>1. CASE x = d.name
      BY <2>4, <2>5, <2>d, <3>1
    <3>2. CASE x # d.name
      <4>1. x \in DOMAIN k.indexesByName /\ h.indexesByName[x] = k.indexesByName[x]
        BY <2>4, <3>2
      <4>2. PICK a \in 1 .. n - 1 : k.indexesByName[x] = s[a]
        BY <2>1, <4>1 DEF IndexesLoaded
      <4> QED BY <2>5, <4>1, <4>2
    <3> QED BY <3>1, <3>2
  <2>7. ASSUME NEW o \in DOMAIN h.indexesByTableOid PROVE \E a \in 1 .. n : s[a].table = o
    <3>1. CASE o = d.table
      BY <2>5, <2>d, <3>1
    <3>2. CASE o # d.table
      <4>1. PICK a \in 1 .. n - 1 : s[a].table = o
        BY <2>1, <2>4, <3>2 DEF IndexesLoaded
      <4> QED BY <2>5, <4>1
    <3> QED BY <3>1, <3>2
  <2>8. ASSUME NEW a \in 1 .. n PROVE IndexKnown(s[a], h)
    <3>1. CASE a = n
      BY <2>4, <2>d, <3>1 DEF IndexKnown
    <3>2. CASE a # n
      <4>1. a \in 1 .. n - 1
        BY <2>1, <3>2
      <4>2. IndexKnown(s[a], k)
        BY <2>1, <4>1 DEF IndexesLoaded
      <4> QED BY <2>4, <4>2 DEF IndexKnown
    <3> QED BY <3>1, <3>2
  <2>9. IndexesLoaded(h, s, n)
    BY <2>4, <2>6, <2>7, <2>8 DEF IndexesLoaded
  <2> QED BY <2>1, <2>9
<1>3. \A n \in 0 .. Len(s) : n \in S
  BY <1>0, <1>1, <1>2, UpTo
<1> QED BY <1>0, <1>3

-----------------------------------------------------------------------------
(* The next oids. *)

LEMMA MaxIs ==
  ASSUME NEW B \in Nat, NEW S \in SUBSET (0 .. B), S # {}
  PROVE  Max(S) \in S /\ \A x \in S : x <= Max(S)
<1> DEFINE T == {B - x : x \in S}
<1>1. T \in SUBSET Nat /\ T # {}
  <2>1. \A x \in S : B - x \in Nat
    OBVIOUS
  <2>2. PICK x : x \in S
    OBVIOUS
  <2>3. B - x \in T
    BY <2>2
  <2> QED BY <2>1, <2>3
<1>2. PICK t \in T : \A u \in T : t <= u
  BY <1>1, NatMin
<1>3. PICK x \in S : t = B - x
  BY <1>2
<1>4. ASSUME NEW y \in S PROVE x >= y
  <2>1. B - y \in T
    OBVIOUS
  <2>2. B - x <= B - y
    BY <1>2, <1>3, <2>1
  <2> QED BY <2>2
<1>5. Max(S) \in S /\ \A y \in S : Max(S) >= y
  BY <1>3, <1>4 DEF Max
<1> QED BY <1>5

LEMMA OidsAre ==
  ASSUME NEW m, Agree(m), NEW f \in Files, NEW d \in DefinitionsOf(m, f)
  PROVE  d.oid \in Oids
<1>1. CASE f = "types"
  BY <1>1 DEF DefinitionsOf, Elements, Agree, TypesAgree, TypeRec
<1>2. CASE f = "tables"
  <2>1. PICK o \in DOMAIN m.tablesByOid : d = m.tablesByOid[o]
    BY <1>2 DEF DefinitionsOf, Elements
  <2>2. d.name \in DOMAIN m.tablesByName /\ m.tablesByName[d.name] = d
    BY <2>1 DEF Agree, TablesAgree
  <2>3. d \in TableRec
    BY <2>2 DEF Agree, TablesAgree
  <2> QED BY <2>3 DEF TableRec
<1>3. CASE f = "columns"
  <2>1. d \in UNION {ToSet(l) : l \in Elements(m.columnsByTableOid)}
    BY <1>3 DEF DefinitionsOf
  <2>2. PICK o \in DOMAIN m.columnsByTableOid : d \in ToSet(m.columnsByTableOid[o])
    BY <2>1 DEF Elements
  <2>3. d \in ColumnRec
    BY <2>2 DEF ToSet, Agree, ColumnsAgree
  <2> QED BY <2>3 DEF ColumnRec
<1>4. CASE f = "indexes"
  BY <1>4 DEF DefinitionsOf, Elements, Agree, IndexesAgree, IndexRec
<1> QED BY <1>1, <1>2, <1>3, <1>4 DEF Files

\* recomputeNextOids changes the counters only, and puts them past every oid.
LEMMA RecomputeIs ==
  ASSUME NEW m, IsRecord(m), NEW k, k = recomputeNextOids(m)
  PROVE  /\ IsRecord(k)
         /\ k.typesByName = m.typesByName /\ k.tablesByOid = m.tablesByOid
         /\ k.tablesByName = m.tablesByName /\ k.columnsByTableOid = m.columnsByTableOid
         /\ k.indexesByName = m.indexesByName /\ k.indexesByTableOid = m.indexesByTableOid
         /\ k.next = [f \in Files |-> nextIdAfterMax(DefinitionsOf(m, f))]
BY DEF recomputeNextOids, IsRecord, Maps

LEMMA RecomputeFits ==
  ASSUME NEW m, IsRecord(m), Agree(m), Linked(m), NEW nx \in [Files -> Oids], Below(m, nx),
         NEW k, k = recomputeNextOids(m)
  PROVE  MapsFit(k)
<1>1. /\ IsRecord(k)
      /\ k.typesByName = m.typesByName /\ k.tablesByOid = m.tablesByOid
      /\ k.tablesByName = m.tablesByName /\ k.columnsByTableOid = m.columnsByTableOid
      /\ k.indexesByName = m.indexesByName /\ k.indexesByTableOid = m.indexesByTableOid
      /\ k.next = [f \in Files |-> nextIdAfterMax(DefinitionsOf(m, f))]
  BY RecomputeIs
<1>2. Agree(k) /\ Linked(k)
  BY <1>1 DEF Agree, TypesAgree, TablesAgree, ColumnsAgree, IndexesAgree, Linked
<1>3. \A f \in Files : DefinitionsOf(k, f) = DefinitionsOf(m, f)
  BY <1>1 DEF DefinitionsOf
<1>4. ASSUME NEW f \in Files
      PROVE  k.next[f] \in Oids /\ \A d \in DefinitionsOf(m, f) : d.oid < k.next[f]
  <2> DEFINE S == {d.oid : d \in DefinitionsOf(m, f)} \cup {0}
  <2>1. S \in SUBSET (0 .. nx[f]) /\ S # {} /\ nx[f] \in Nat
    <3>1. ASSUME NEW d \in DefinitionsOf(m, f) PROVE d.oid \in Nat /\ d.oid < nx[f]
      BY OidsAre DEF Below, Oids
    <3>2. nx[f] \in Nat
      BY DEF Oids
    <3> QED BY <3>1, <3>2
  <2>2. Max(S) \in S /\ \A x \in S : x <= Max(S)
    BY <2>1, MaxIs
  <2>3. k.next[f] = Max(S) + 1
    BY <1>1 DEF nextIdAfterMax
  <2>4. Max(S) \in Nat
    BY <2>1, <2>2
  <2>5. k.next[f] \in Oids
    BY <2>3, <2>4 DEF Oids
  <2>6. ASSUME NEW d \in DefinitionsOf(m, f) PROVE d.oid < k.next[f]
    <3>1. d.oid \in S /\ d.oid \in Nat
      BY OidsAre DEF Oids
    <3> HIDE DEF S
    <3> QED BY <2>2, <2>3, <2>4, <3>1
  <2> QED BY <2>5, <2>6
<1>5. k.next \in [Files -> Oids]
  BY <1>1, <1>4
<1>6. Below(k, k.next)
  BY <1>3, <1>4 DEF Below
<1> QED BY <1>1, <1>2, <1>5, <1>6 DEF MapsFit

-----------------------------------------------------------------------------
(* Loading the files. *)

\* The records of the file are where they are in the pool.
LEMMA FileBehind ==
  ASSUME PagesFit, NEW f \in Files
  PROVE  /\ file[f] \in Seq(Seq(Rec[f])) /\ pool[f] \in Seq(Seq(Rec[f]))
         /\ DOMAIN file[f] \subseteq DOMAIN pool[f]
         /\ \A p \in DOMAIN file[f] : \A i \in DOMAIN file[f][p] :
              i \in DOMAIN pool[f][p] /\ file[f][p][i] = pool[f][p][i]
<1>1. file[f] \in Seq(Seq(Rec[f])) /\ pool[f] \in Seq(Seq(Rec[f])) /\ Behind(file[f], pool[f])
  BY DEF PagesFit
<1>2. PICK g, q : g = file[f] /\ q = pool[f]
  OBVIOUS
<1>3. /\ Len(g) \in Nat /\ Len(q) \in Nat /\ DOMAIN g = 1 .. Len(g) /\ DOMAIN q = 1 .. Len(q)
      /\ \A p \in 1 .. Len(g) : g[p] \in Seq(Rec[f])
      /\ \A p \in 1 .. Len(q) : q[p] \in Seq(Rec[f])
  BY <1>1, <1>2
<1>4. DOMAIN g \subseteq DOMAIN q
  BY <1>1, <1>2, <1>3 DEF Behind
<1>5. ASSUME NEW p \in DOMAIN g, NEW i \in DOMAIN g[p]
      PROVE  i \in DOMAIN q[p] /\ g[p][i] = q[p][i]
  <2>1. p \in 1 .. Len(g) /\ p \in 1 .. Len(q)
    BY <1>3, <1>4
  <2>2. /\ Len(g[p]) \in Nat /\ DOMAIN g[p] = 1 .. Len(g[p])
        /\ Len(q[p]) \in Nat /\ DOMAIN q[p] = 1 .. Len(q[p])
    <3>1. g[p] \in Seq(Rec[f]) /\ q[p] \in Seq(Rec[f])
      BY <1>3, <2>1
    <3> QED BY <3>1
  <2>3. Len(g[p]) <= Len(q[p]) /\ \A j \in 1 .. Len(g[p]) : g[p][j] = q[p][j]
    BY <1>1, <1>2, <2>1 DEF Behind
  <2> QED BY <2>2, <2>3
<1> QED BY <1>1, <1>2, <1>4, <1>5

LEMMA FileKnown ==
  ASSUME PagesFit, RecordsFit
  PROVE  Known(file, mem) /\ \A f \in Files : InOrder(f, file[f])
<1>1. ASSUME NEW f \in Files PROVE InOrder(f, file[f])
  <2>1. InOrder(f, pool[f])
    BY DEF RecordsFit
  <2> QED BY <2>1, FileBehind DEF InOrder
<1>2. \A p \in DOMAIN file["tables"] : \A i \in DOMAIN file["tables"][p] :
        TableKnown(file["tables"][p][i], mem)
  <2>1. "tables" \in Files
    BY DEF Files
  <2> QED BY <2>1, FileBehind DEF RecordsFit, Known
<1>3. \A p \in DOMAIN file["columns"] : \A i \in DOMAIN file["columns"][p] :
        ColumnKnown(file["columns"][p][i], mem)
  <2>1. "columns" \in Files
    BY DEF Files
  <2> QED BY <2>1, FileBehind DEF RecordsFit, Known
<1>4. \A p \in DOMAIN file["indexes"] : \A i \in DOMAIN file["indexes"][p] :
        IndexKnown(file["indexes"][p][i], mem)
  <2>1. "indexes" \in Files
    BY DEF Files
  <2> QED BY <2>1, FileBehind DEF RecordsFit, Known
<1> QED BY <1>1, <1>2, <1>3, <1>4 DEF Known

\* The records of a file in the order in which they are loaded.
LEMMA RecordsOf ==
  ASSUME NEW R, NEW P \in Seq(Seq(R)), NEW f, InOrder(f, P), NEW s, s = FlattenSeq(P)
  PROVE  /\ s \in Seq(R)
         /\ \A a \in DOMAIN s : In(s[a], P)
         /\ \A d : In(d, P) => \E a \in DOMAIN s : s[a] = d
         /\ \A a, b \in DOMAIN s : a < b => Follows(f, s[a], s[b])
<1>1. s \in Seq(R) /\ Places(P, Len(P), s) /\ DOMAIN P = 1 .. Len(P)
  BY FlattenPlaces
<1>2. ASSUME NEW a \in DOMAIN s PROVE In(s[a], P)
  BY <1>1 DEF Places, In
<1>3. ASSUME NEW d, In(d, P) PROVE \E a \in DOMAIN s : s[a] = d
  BY <1>1, <1>3 DEF Places, In
<1>4. ASSUME NEW a \in DOMAIN s, NEW b \in DOMAIN s, a < b PROVE Follows(f, s[a], s[b])
  <2>1. PICK p, q \in DOMAIN P : \E i \in DOMAIN P[p] : \E j \in DOMAIN P[q] :
               s[a] = P[p][i] /\ s[b] = P[q][j] /\ Before(p, i, q, j)
    BY <1>1, <1>4 DEF Places
  <2>2. PICK i \in DOMAIN P[p], j \in DOMAIN P[q] :
               s[a] = P[p][i] /\ s[b] = P[q][j] /\ Before(p, i, q, j)
    BY <2>1
  <2>3. Follows(f, P[p][i], P[q][j])
    BY <2>2 DEF InOrder
  <2> QED BY <2>2, <2>3
<1> QED BY <1>1, <1>2, <1>3, <1>4

LEMMA RecIs ==
  /\ Rec["types"] = TypeRec /\ Rec["tables"] = TableRec
  /\ Rec["columns"] = ColumnRec /\ Rec["indexes"] = IndexRec
  /\ {"types", "tables", "columns", "indexes"} \subseteq Files
BY DEF Rec, Files

LEMMA OidsAreBounded ==
  ASSUME NEW s \in Seq(TypeRec)
  PROVE  \E B \in Oids : \A a \in DOMAIN s : s[a].oid < B
<1> DEFINE Good(n) == \E B \in Oids : \A a \in 1 .. n : s[a].oid < B
<1>0. Len(s) \in Nat /\ DOMAIN s = 1 .. Len(s)
  OBVIOUS
<1>1. Good(0)
  <2>1. 1 \in Oids
    BY DEF Oids
  <2> QED BY <2>1
<1>2. ASSUME NEW n \in 1 .. Len(s), Good(n - 1) PROVE Good(n)
  <2>1. PICK B \in Oids : \A a \in 1 .. n - 1 : s[a].oid < B
    BY <1>2
  <2>2. ASSUME NEW a \in 1 .. n PROVE s[a].oid \in Nat
    <3>1. a \in DOMAIN s
      BY <1>0
    <3>2. s[a] \in TypeRec
      BY <3>1
    <3> QED BY <3>2 DEF TypeRec, Oids
  <2>3. n \in 1 .. n /\ \A a \in 1 .. n : a = n \/ a \in 1 .. n - 1
    BY <1>0
  <2>4. B \in Nat /\ B + s[n].oid + 1 \in Oids
    BY <2>2, <2>3 DEF Oids
  <2>5. ASSUME NEW a \in 1 .. n PROVE s[a].oid < B + s[n].oid + 1
    BY <2>1, <2>2, <2>3, <2>4
  <2> QED BY <2>4, <2>5
<1> HIDE DEF Good
<1> DEFINE S == {n \in 0 .. Len(s) : Good(n)}
<1>3. \A n \in 0 .. Len(s) : n \in S
  <2>1. 0 \in S
    BY <1>0, <1>1
  <2>2. ASSUME NEW n \in 1 .. Len(s), n - 1 \in S PROVE n \in S
    <3>1. n \in 0 .. Len(s) /\ Good(n - 1)
      BY <2>2
    <3> QED BY <1>2, <3>1
  <2> HIDE DEF S
  <2> QED BY <1>0, <2>1, <2>2, UpTo
<1>4. Good(Len(s))
  BY <1>0, <1>3
<1> QED BY <1>0, <1>4 DEF Good

\* The maps that a restart finds: they have every record of the files, and
\* nothing else.
LEMMA LoadFits ==
  ASSUME PagesFit, MapsFit(mem), RecordsFit, Anchored, NoGap, NEW L, L = loadFromDisk
  PROVE  /\ MapsFit(L) /\ Known(file, L)
         /\ \A o \in DOMAIN L.columnsByTableOid \cup DOMAIN L.indexesByTableOid : HasTable(o)
         /\ \A o \in DOMAIN L.columnsByTableOid : \A i \in DOMAIN L.columnsByTableOid[o] :
              In(L.columnsByTableOid[o][i], file["columns"])
<1>k. Known(file, mem) /\ \A f \in Files : InOrder(f, file[f])
  BY FileKnown
<1>f. /\ file["types"] \in Seq(Seq(TypeRec)) /\ file["tables"] \in Seq(Seq(TableRec))
      /\ file["columns"] \in Seq(Seq(ColumnRec)) /\ file["indexes"] \in Seq(Seq(IndexRec))
  BY FileBehind, RecIs
<1>1. PICK ty, ta, co, ix : /\ ty = FlattenSeq(file["types"]) /\ ta = FlattenSeq(file["tables"])
                            /\ co = FlattenSeq(file["columns"]) /\ ix = FlattenSeq(file["indexes"])
  OBVIOUS
<1>2. ty \in Seq(TypeRec)
  BY <1>1, <1>f, FlattenPlaces
<1>3. /\ ta \in Seq(TableRec)
      /\ \A a \in DOMAIN ta : In(ta[a], file["tables"])
      /\ \A d : In(d, file["tables"]) => \E a \in DOMAIN ta : ta[a] = d
      /\ \A a, b \in DOMAIN ta : a < b => Follows("tables", ta[a], ta[b])
  <2>1. InOrder("tables", file["tables"])
    BY <1>k, RecIs
  <2> QED BY <1>1, <1>f, <2>1, RecordsOf
<1>4. /\ co \in Seq(ColumnRec)
      /\ \A a \in DOMAIN co : In(co[a], file["columns"])
      /\ \A d : In(d, file["columns"]) => \E a \in DOMAIN co : co[a] = d
      /\ \A a, b \in DOMAIN co : a < b => Follows("columns", co[a], co[b])
  <2>1. InOrder("columns", file["columns"])
    BY <1>k, RecIs
  <2> QED BY <1>1, <1>f, <2>1, RecordsOf
<1>5. /\ ix \in Seq(IndexRec)
      /\ \A a \in DOMAIN ix : In(ix[a], file["indexes"])
      /\ \A d : In(d, file["indexes"]) => \E a \in DOMAIN ix : ix[a] = d
      /\ \A a, b \in DOMAIN ix : a < b => Follows("indexes", ix[a], ix[b])
  <2>1. InOrder("indexes", file["indexes"])
    BY <1>k, RecIs
  <2> QED BY <1>1, <1>f, <2>1, RecordsOf
<1>l. /\ Len(ty) \in Nat /\ Len(ta) \in Nat /\ Len(co) \in Nat /\ Len(ix) \in Nat
      /\ DOMAIN ta = 1 .. Len(ta) /\ DOMAIN co = 1 .. Len(co) /\ DOMAIN ix = 1 .. Len(ix)
  BY <1>2, <1>3, <1>4, <1>5
<1>m. /\ \A a \in DOMAIN ta : TableKnown(ta[a], mem)
      /\ \A a \in DOMAIN co : ColumnKnown(co[a], mem)
      /\ \A a \in DOMAIN ix : IndexKnown(ix[a], mem)
  BY <1>3, <1>4, <1>5, <1>k DEF Known, In
\* The four files, one after the other.
<1>6. PICK gt : ReplaysTo(Len(ty), gt, EmptyMaps, "types", ty)
  BY <1>l, ReplaysExists
<1> PICK m1 : m1 = gt[Len(ty)]
  OBVIOUS
<1>7. PICK ga : ReplaysTo(Len(ta), ga, m1, "tables", ta)
  BY <1>l, ReplaysExists
<1> PICK m2 : m2 = ga[Len(ta)]
  OBVIOUS
<1>8. PICK gc : ReplaysTo(Len(co), gc, m2, "columns", co)
  BY <1>l, ReplaysExists
<1> PICK m3 : m3 = gc[Len(co)]
  OBVIOUS
<1>9. PICK gi : ReplaysTo(Len(ix), gi, m3, "indexes", ix)
  BY <1>l, ReplaysExists
<1> PICK m4 : m4 = gi[Len(ix)]
  OBVIOUS
<1>10. L = recomputeNextOids(m4)
  <2>1. Replay(EmptyMaps, "types", file["types"]) = m1
    BY <1>1, <1>6, <1>l, ReplayIs
  <2>2. Replay(m1, "tables", file["tables"]) = m2
    BY <1>1, <1>7, <1>l, ReplayIs
  <2>3. Replay(m2, "columns", file["columns"]) = m3
    BY <1>1, <1>8, <1>l, ReplayIs
  <2>4. Replay(m3, "indexes", file["indexes"]) = m4
    BY <1>1, <1>9, <1>l, ReplayIs
  <2> QED BY <2>1, <2>2, <2>3, <2>4 DEF loadFromDisk
\* Each leaves the maps of the others alone.
<1>11. IsRecord(EmptyMaps) /\ Kept(m1, EmptyMaps, "types")
  <2>1. IsRecord(EmptyMaps)
    BY DEF EmptyMaps, IsRecord, Maps
  <2>2. Len(ty) \in 0 .. Len(ty)
    BY <1>l
  <2> QED BY <1>6, <1>l, <2>1, <2>2, ReplayKeeps, RecIs
<1>12. Kept(m2, m1, "tables")
  <2>1. Len(ta) \in 0 .. Len(ta) /\ IsRecord(m1)
    BY <1>l, <1>11 DEF Kept
  <2> QED BY <1>7, <1>l, <2>1, ReplayKeeps, RecIs
<1>13. Kept(m3, m2, "columns")
  <2>1. Len(co) \in 0 .. Len(co) /\ IsRecord(m2)
    BY <1>l, <1>12 DEF Kept
  <2> QED BY <1>8, <1>l, <2>1, ReplayKeeps, RecIs
<1>14. Kept(m4, m3, "indexes")
  <2>1. Len(ix) \in 0 .. Len(ix) /\ IsRecord(m3)
    BY <1>l, <1>13 DEF Kept
  <2> QED BY <1>9, <1>l, <2>1, ReplayKeeps, RecIs
<1>15. /\ EmptyMaps.typesByName = Empty /\ EmptyMaps.tablesByOid = Empty
       /\ EmptyMaps.tablesByName = Empty /\ EmptyMaps.columnsByTableOid = Empty
       /\ EmptyMaps.indexesByName = Empty /\ EmptyMaps.indexesByTableOid = Empty
  BY DEF EmptyMaps
<1>b. PICK B \in Oids : \A a \in DOMAIN ty : ty[a].oid < B
  BY <1>2, OidsAreBounded
<1>16. TypesLoaded(m4, B)
  <2>1. TypesLoaded(m1, B)
    BY <1>2, <1>6, <1>11, <1>15, <1>b, LoadTypes
  <2> QED BY <1>12, <1>13, <1>14, <2>1 DEF Kept, TypesLoaded, TypesAgree
<1>17. TablesLoaded(m4, ta, Len(ta))
  <2>1. \A a, b \in DOMAIN ta : ta[a].name = ta[b].name <=> ta[a].oid = ta[b].oid
    <3>1. ASSUME NEW a \in DOMAIN ta, NEW b \in DOMAIN ta
          PROVE  ta[a].name = ta[b].name <=> ta[a].oid = ta[b].oid
      <4>1. TableKnown(ta[a], mem) /\ TableKnown(ta[b], mem) /\ TablesAgree(mem)
        BY <1>m DEF MapsFit, Agree
      <4>2. ASSUME NEW x, TableKnown(x, mem)
            PROVE  /\ x.name \in DOMAIN mem.tablesByName
                   /\ mem.tablesByName[x.name].oid = x.oid
                   /\ mem.tablesByName[x.name].name = x.name
                   /\ mem.tablesByOid[x.oid] = mem.tablesByName[x.name]
        BY <4>1, <4>2 DEF TableKnown, TablesAgree
      <4> QED BY <4>1, <4>2
    <3> QED BY <3>1
  <2>2. IsRecord(m1) /\ m1.tablesByOid = Empty /\ m1.tablesByName = Empty
    BY <1>11, <1>15 DEF Kept
  <2>3. TablesLoaded(m2, ta, Len(ta))
    BY <1>3, <1>7, <2>1, <2>2, LoadTables
  <2>4. m4.tablesByName = m2.tablesByName /\ m4.tablesByOid = m2.tablesByOid
    BY <1>13, <1>14 DEF Kept
  <2> QED BY <2>3, <2>4 DEF TablesLoaded, TablesAgree, TableKnown
<1>18. ColumnsLoaded(m4, co, Len(co))
  <2>1. ASSUME NEW b \in DOMAIN co, co[b].position > 0
        PROVE  \E a \in DOMAIN co : co[a].table = co[b].table /\ co[a].position = co[b].position - 1
    <3>1. PICK p \in DOMAIN file["columns"] : \E i \in DOMAIN file["columns"][p] :
                 co[b] = file["columns"][p][i]
      BY <1>4 DEF In
    <3>2. PICK i \in DOMAIN file["columns"][p] : co[b] = file["columns"][p][i]
      BY <3>1
    <3>3. /\ p \in DOMAIN pool["columns"] /\ i \in DOMAIN pool["columns"][p]
          /\ co[b] = pool["columns"][p][i]
      BY <3>2, FileBehind, RecIs
    <3>4. Preceded(file["columns"], co[b])
      BY <3>3 DEF NoGap
    <3>5. PICK d \in ColumnRec : /\ d.table = co[b].table /\ d.position = co[b].position - 1
                                 /\ In(d, file["columns"])
      BY <2>1, <3>4 DEF Preceded
    <3> QED BY <1>4, <3>5
  <2>2. IsRecord(m2) /\ m2.columnsByTableOid = Empty
    BY <1>11, <1>12, <1>15 DEF Kept
  <2>3. ColumnsLoaded(m3, co, Len(co))
    BY <1>4, <1>8, <2>1, <2>2, LoadColumns
  <2>4. m4.columnsByTableOid = m3.columnsByTableOid
    BY <1>14 DEF Kept
  <2> QED BY <2>3, <2>4 DEF ColumnsLoaded, ColumnsAgree, ColumnKnown
<1>19. IndexesLoaded(m4, ix, Len(ix))
  <2>1. IsRecord(m3) /\ m3.indexesByName = Empty /\ m3.indexesByTableOid = Empty
    BY <1>11, <1>12, <1>13, <1>15 DEF Kept
  <2> QED BY <1>5, <1>9, <2>1, LoadIndexes
<1>20. Agree(m4) /\ IsRecord(m4)
  BY <1>14, <1>16, <1>17, <1>18, <1>19
  DEF Agree, TypesLoaded, TablesLoaded, ColumnsLoaded, IndexesLoaded, Kept
\* A table with columns or indexes is in the file of tables.
<1>21. ASSUME NEW o \in DOMAIN m4.columnsByTableOid \cup DOMAIN m4.indexesByTableOid
       PROVE  HasTable(o) /\ o \in DOMAIN m4.tablesByOid
  <2>1. ASSUME o \in DOMAIN m4.columnsByTableOid PROVE HasTable(o)
    <3>1. PICK a \in DOMAIN co : co[a].table = o
      BY <1>18, <1>l, <2>1 DEF ColumnsLoaded
    <3>2. co[a] \in ToSet(ListOf(mem.columnsByTableOid, o))
      BY <1>m, <3>1 DEF ColumnKnown
    <3>3. o \in DOMAIN mem.columnsByTableOid
      BY <3>2 DEF ListOf, ToSet
    <3> QED BY <3>3 DEF Anchored
  <2>2. ASSUME o \in DOMAIN m4.indexesByTableOid PROVE HasTable(o)
    <3>1. PICK a \in DOMAIN ix : ix[a].table = o
      BY <1>19, <1>l, <2>2 DEF IndexesLoaded
    <3>2. ix[a].name \in DOMAIN mem.indexesByName /\ mem.indexesByName[ix[a].name] = ix[a]
      BY <1>m DEF IndexKnown
    <3>3. o \in DOMAIN mem.indexesByTableOid
      BY <3>1, <3>2 DEF MapsFit, Agree, IndexesAgree
    <3> QED BY <3>3 DEF Anchored
  <2>3. HasTable(o)
    BY <2>1, <2>2
  <2>4. PICK d \in TableRec : d.oid = o /\ In(d, file["tables"])
    BY <2>3 DEF HasTable
  <2>5. PICK a \in 1 .. Len(ta) : ta[a] = d
    BY <1>3, <1>l, <2>4
  <2>6. TableKnown(d, m4)
    BY <1>17, <2>5 DEF TablesLoaded
  <2>7. o \in DOMAIN m4.tablesByOid
    BY <1>17, <2>4, <2>6 DEF TablesLoaded, TablesAgree, TableKnown
  <2> QED BY <2>3, <2>7
<1>22. Linked(m4)
  BY <1>21 DEF Linked
\* No oid of a record is past the counters in memory.
<1> DEFINE nx == [f \in Files |-> IF f = "types" THEN B ELSE mem.next[f]]
<1>23. nx \in [Files -> Oids] /\ mem.next \in [Files -> Oids] /\ Below(mem, mem.next) /\ Agree(mem)
  BY <1>b DEF MapsFit
<1>24. /\ nx["types"] = B /\ nx["tables"] = mem.next["tables"]
       /\ nx["columns"] = mem.next["columns"] /\ nx["indexes"] = mem.next["indexes"]
  BY RecIs
<1> HIDE DEF nx
<1>25. Below(m4, nx)
  <2>1. ASSUME NEW d \in DefinitionsOf(m4, "types") PROVE d.oid < nx["types"]
    BY <1>16, <1>24 DEF DefinitionsOf, Elements, TypesLoaded
  <2>2. ASSUME NEW d \in DefinitionsOf(m4, "tables") PROVE d.oid < nx["tables"]
    <3>1. PICK o \in DOMAIN m4.tablesByOid : d = m4.tablesByOid[o]
      BY DEF DefinitionsOf, Elements
    <3>2. PICK a \in 1 .. Len(ta) : d = ta[a]
      BY <1>17, <3>1 DEF TablesLoaded, TablesAgree
    <3>3. TableKnown(d, mem)
      BY <1>l, <1>m, <3>2
    <3>4. PICK t : t = mem.tablesByName[d.name]
      OBVIOUS
    <3>5. t.oid = d.oid /\ t.oid \in DOMAIN mem.tablesByOid /\ mem.tablesByOid[t.oid] = t
      BY <1>23, <3>3, <3>4 DEF TableKnown, Agree, TablesAgree
    <3>6. t \in DefinitionsOf(mem, "tables")
      BY <3>5 DEF DefinitionsOf, Elements
    <3> QED BY <1>23, <1>24, <3>5, <3>6, RecIs DEF Below
  <2>3. ASSUME NEW d \in DefinitionsOf(m4, "columns") PROVE d.oid < nx["columns"]
    <3>1. d \in UNION {ToSet(l) : l \in Elements(m4.columnsByTableOid)}
      BY DEF DefinitionsOf
    <3>2. PICK o \in DOMAIN m4.columnsByTableOid : d \in ToSet(m4.columnsByTableOid[o])
      BY <3>1 DEF Elements
    <3>3. PICK a \in 1 .. Len(co) : d = co[a]
      BY <1>18, <3>2 DEF ColumnsLoaded, ToSet
    <3>4. d \in ToSet(ListOf(mem.columnsByTableOid, d.table))
      BY <1>l, <1>m, <3>3 DEF ColumnKnown
    <3>5. d.table \in DOMAIN mem.columnsByTableOid /\ d \in ToSet(mem.columnsByTableOid[d.table])
      BY <3>4 DEF ListOf, ToSet
    <3>6. d \in DefinitionsOf(mem, "columns")
      BY <3>5 DEF DefinitionsOf, Elements
    <3> QED BY <1>23, <1>24, <3>6, RecIs DEF Below
  <2>4. ASSUME NEW d \in DefinitionsOf(m4, "indexes") PROVE d.oid < nx["indexes"]
    <3>1. PICK n \in DOMAIN m4.indexesByName : d = m4.indexesByName[n]
      BY DEF DefinitionsOf, Elements
    <3>2. PICK a \in 1 .. Len(ix) : d = ix[a]
      BY <1>19, <3>1 DEF IndexesLoaded
    <3>3. IndexKnown(d, mem)
      BY <1>l, <1>m, <3>2
    <3>4. d \in DefinitionsOf(mem, "indexes")
      BY <3>3 DEF IndexKnown, DefinitionsOf, Elements
    <3> QED BY <1>23, <1>24, <3>4, RecIs DEF Below
  <2> QED BY <2>1, <2>2, <2>3, <2>4 DEF Below, Files
<1>26. MapsFit(L)
  BY <1>10, <1>20, <1>22, <1>23, <1>25, RecomputeFits
<1>27. /\ L.tablesByName = m4.tablesByName /\ L.columnsByTableOid = m4.columnsByTableOid
       /\ L.indexesByName = m4.indexesByName /\ L.indexesByTableOid = m4.indexesByTableOid
  BY <1>10, <1>20, RecomputeIs
<1>28. Known(file, L)
  <2>1. ASSUME NEW p \in DOMAIN file["tables"], NEW i \in DOMAIN file["tables"][p]
        PROVE  TableKnown(file["tables"][p][i], L)
    <3>1. PICK a \in 1 .. Len(ta) : ta[a] = file["tables"][p][i]
      BY <1>3, <1>l DEF In
    <3> QED BY <1>17, <1>27, <3>1 DEF TablesLoaded, TableKnown
  <2>2. ASSUME NEW p \in DOMAIN file["columns"], NEW i \in DOMAIN file["columns"][p]
        PROVE  ColumnKnown(file["columns"][p][i], L)
    <3>1. PICK a \in 1 .. Len(co) : co[a] = file["columns"][p][i]
      BY <1>4, <1>l DEF In
    <3> QED BY <1>18, <1>27, <3>1 DEF ColumnsLoaded, ColumnKnown
  <2>3. ASSUME NEW p \in DOMAIN file["indexes"], NEW i \in DOMAIN file["indexes"][p]
        PROVE  IndexKnown(file["indexes"][p][i], L)
    <3>1. PICK a \in 1 .. Len(ix) : ix[a] = file["indexes"][p][i]
      BY <1>5, <1>l DEF In
    <3> QED BY <1>19, <1>27, <3>1 DEF IndexesLoaded, IndexKnown
  <2> QED BY <2>1, <2>2, <2>3 DEF Known
<1>29. ASSUME NEW o \in DOMAIN L.columnsByTableOid, NEW i \in DOMAIN L.columnsByTableOid[o]
       PROVE  In(L.columnsByTableOid[o][i], file["columns"])
  <2>1. PICK a \in 1 .. Len(co) : L.columnsByTableOid[o][i] = co[a]
    BY <1>18, <1>27 DEF ColumnsLoaded
  <2> QED BY <1>4, <1>l, <2>1
<1> QED BY <1>21, <1>26, <1>27, <1>28, <1>29

-----------------------------------------------------------------------------
(* A record is appended to the pages. *)

\* Q is P with the record d at its end.
Grows(P, Q, d) ==
  \/ Q = Append(P, <<d>>)
  \/ Len(P) > 0 /\ Q = [P EXCEPT ![Len(P)] = Append(P[Len(P)], d)]

\* The place of d, after all the others.
LEMMA GrowsPlaces ==
  ASSUME NEW R, NEW P \in Seq(Seq(R)), NEW d \in R, NEW Q, Grows(P, Q, d)
  PROVE  /\ Q \in Seq(Seq(R))
         /\ \E t \in DOMAIN Q : \E j \in DOMAIN Q[t] :
              /\ Q[t][j] = d
              /\ \A p \in DOMAIN Q : \A i \in DOMAIN Q[p] :
                   \/ p = t /\ i = j
                   \/ /\ p \in DOMAIN P /\ i \in DOMAIN P[p] /\ Q[p][i] = P[p][i]
                      /\ ~Before(t, j, p, i)
              /\ ~Before(t, j, t, j)
         /\ \A p \in DOMAIN P : \A i \in DOMAIN P[p] :
              p \in DOMAIN Q /\ i \in DOMAIN Q[p] /\ Q[p][i] = P[p][i]
<1>1. /\ Len(P) \in Nat /\ DOMAIN P = 1 .. Len(P) /\ <<d>> \in Seq(R)
      /\ Len(<<d>>) = 1 /\ <<d>>[1] = d
      /\ \A p \in 1 .. Len(P) : P[p] \in Seq(R) /\ Len(P[p]) \in Nat /\ DOMAIN P[p] = 1 .. Len(P[p])
  OBVIOUS
<1>2. CASE Q = Append(P, <<d>>)
  <2>1. /\ Q \in Seq(Seq(R)) /\ DOMAIN Q = 1 .. Len(P) + 1
        /\ \A n \in 1 .. Len(P) : Q[n] = P[n]
        /\ Q[Len(P) + 1] = <<d>>
    BY <1>1, <1>2, AppendIs
  <2> DEFINE t == Len(P) + 1
  <2>2. t \in DOMAIN Q /\ DOMAIN Q[t] = {1} /\ Q[t][1] = d
    BY <1>1, <2>1
  <2>3. ASSUME NEW p \in DOMAIN Q, NEW i \in DOMAIN Q[p]
        PROVE  \/ p = t /\ i = 1
               \/ /\ p \in DOMAIN P /\ i \in DOMAIN P[p] /\ Q[p][i] = P[p][i]
                  /\ ~Before(t, 1, p, i)
    <3>1. p = t \/ p \in 1 .. Len(P)
      BY <1>1, <2>1
    <3>2. CASE p = t
      BY <2>2, <3>2
    <3>3. CASE p \in 1 .. Len(P)
      <4>1. Q[p] = P[p] /\ i \in DOMAIN P[p]
        BY <2>1, <3>3
      <4>2. ~(t < p) /\ t # p
        BY <1>1, <3>3
      <4> QED BY <1>1, <3>3, <4>1, <4>2 DEF Before
    <3> QED BY <3>1, <3>2, <3>3
  <2>4. ~Before(t, 1, t, 1)
    BY <1>1 DEF Before
  <2>5. \A p \in DOMAIN P : \A i \in DOMAIN P[p] :
          p \in DOMAIN Q /\ i \in DOMAIN Q[p] /\ Q[p][i] = P[p][i]
    BY <1>1, <2>1
  <2>6. \E j \in DOMAIN Q[t] :
          /\ Q[t][j] = d
          /\ \A p \in DOMAIN Q : \A i \in DOMAIN Q[p] :
               \/ p = t /\ i = j
               \/ /\ p \in DOMAIN P /\ i \in DOMAIN P[p] /\ Q[p][i] = P[p][i]
                  /\ ~Before(t, j, p, i)
          /\ ~Before(t, j, t, j)
    BY <2>2, <2>3, <2>4
  <2> QED BY <2>1, <2>2, <2>5, <2>6
<1>3. CASE Len(P) > 0 /\ Q = [P EXCEPT ![Len(P)] = Append(P[Len(P)], d)]
  <2> DEFINE t == Len(P)
             u == P[t]
             j == Len(u) + 1
  <2>0. t \in 1 .. Len(P) /\ u \in Seq(R) /\ Len(u) \in Nat /\ DOMAIN u = 1 .. Len(u)
    BY <1>1, <1>3
  <2>1. /\ Append(u, d) \in Seq(R) /\ DOMAIN Append(u, d) = 1 .. j
        /\ \A n \in 1 .. Len(u) : Append(u, d)[n] = u[n]
        /\ Append(u, d)[j] = d
    BY <2>0, AppendIs
  <2>2. /\ Q \in Seq(Seq(R)) /\ DOMAIN Q = DOMAIN P
        /\ Q[t] = Append(u, d)
        /\ \A n \in DOMAIN P : n # t => Q[n] = P[n]
    BY <1>1, <1>3, <2>0, <2>1
  <2>3. t \in DOMAIN Q /\ j \in DOMAIN Q[t] /\ Q[t][j] = d
    BY <1>1, <2>0, <2>1, <2>2
  <2>u. u = P[t] /\ j = Len(u) + 1 /\ t = Len(P)
    OBVIOUS
  <2> HIDE DEF u, j, t
  <2>4. ASSUME NEW p \in DOMAIN Q, NEW i \in DOMAIN Q[p]
        PROVE  \/ p = t /\ i = j
               \/ /\ p \in DOMAIN P /\ i \in DOMAIN P[p] /\ Q[p][i] = P[p][i]
                  /\ ~Before(t, j, p, i)
    <3>1. p \in DOMAIN P /\ p \in 1 .. Len(P)
      BY <1>1, <2>2
    <3>2. CASE p = t
      <4>1. i \in 1 .. j
        BY <2>1, <2>2, <3>2
      <4>2. CASE i = j
        BY <3>2, <4>2
      <4>3. CASE i # j
        <5>1. i \in 1 .. Len(u) /\ ~(j < i)
          BY <2>0, <2>u, <4>1, <4>3
        <5>2. ~(t < t)
          BY <1>1, <2>u
        <5>3. Q[p][i] = u[i] /\ i \in DOMAIN P[p] /\ u = P[p]
          BY <2>0, <2>1, <2>2, <2>u, <3>2, <5>1
        <5> QED BY <3>1, <3>2, <5>1, <5>2, <5>3 DEF Before
      <4> QED BY <4>2, <4>3
    <3>3. CASE p # t
      <4>1. ~(t < p)
        BY <1>1, <2>u, <3>1, <3>3
      <4> QED BY <2>2, <3>1, <3>3, <4>1 DEF Before
    <3> QED BY <3>2, <3>3
  <2>5. ~Before(t, j, t, j)
    BY <1>1, <2>0, <2>u DEF Before
  <2>6. ASSUME NEW p \in DOMAIN P, NEW i \in DOMAIN P[p]
        PROVE  p \in DOMAIN Q /\ i \in DOMAIN Q[p] /\ Q[p][i] = P[p][i]
    <3>1. CASE p = t
      <4>1. i \in 1 .. Len(u) /\ i \in 1 .. j
        BY <2>0, <2>u, <3>1
      <4> QED BY <2>1, <2>2, <2>u, <3>1, <4>1
    <3>2. CASE p # t
      BY <2>2, <3>2
    <3> QED BY <3>1, <3>2
  <2> QED BY <2>2, <2>3, <2>4, <2>5, <2>6
<1> QED BY <1>2, <1>3 DEF Grows

LEMMA GrowsIn ==
  ASSUME NEW R, NEW P \in Seq(Seq(R)), NEW d \in R, NEW Q, Grows(P, Q, d)
  PROVE  \A e : In(e, Q) <=> In(e, P) \/ e = d
<1> USE DEF In
<1>1. PICK t \in DOMAIN Q : \E j \in DOMAIN Q[t] :
            /\ Q[t][j] = d
            /\ \A p \in DOMAIN Q : \A i \in DOMAIN Q[p] :
                 \/ p = t /\ i = j
                 \/ p \in DOMAIN P /\ i \in DOMAIN P[p] /\ Q[p][i] = P[p][i]
  BY GrowsPlaces
<1>2. \A p \in DOMAIN P : \A i \in DOMAIN P[p] :
        p \in DOMAIN Q /\ i \in DOMAIN Q[p] /\ Q[p][i] = P[p][i]
  BY GrowsPlaces
<1> QED BY <1>1, <1>2

LEMMA GrowsInOrder ==
  ASSUME NEW R, NEW P \in Seq(Seq(R)), NEW d \in R, NEW Q, Grows(P, Q, d),
         NEW f, InOrder(f, P), \A e : In(e, P) => Follows(f, e, d)
  PROVE  InOrder(f, Q)
<1>1. PICK t \in DOMAIN Q : \E j \in DOMAIN Q[t] :
            /\ Q[t][j] = d
            /\ \A p \in DOMAIN Q : \A i \in DOMAIN Q[p] :
                 \/ p = t /\ i = j
                 \/ /\ p \in DOMAIN P /\ i \in DOMAIN P[p] /\ Q[p][i] = P[p][i]
                    /\ ~Before(t, j, p, i)
            /\ ~Before(t, j, t, j)
  BY GrowsPlaces
<1>2. PICK j \in DOMAIN Q[t] :
            /\ Q[t][j] = d
            /\ \A p \in DOMAIN Q : \A i \in DOMAIN Q[p] :
                 \/ p = t /\ i = j
                 \/ /\ p \in DOMAIN P /\ i \in DOMAIN P[p] /\ Q[p][i] = P[p][i]
                    /\ ~Before(t, j, p, i)
            /\ ~Before(t, j, t, j)
  BY <1>1
<1>3. ASSUME NEW p \in DOMAIN Q, NEW q \in DOMAIN Q, NEW i \in DOMAIN Q[p], NEW k \in DOMAIN Q[q],
             Before(p, i, q, k)
      PROVE  Follows(f, Q[p][i], Q[q][k])
  <2>1. p \in DOMAIN P /\ i \in DOMAIN P[p] /\ Q[p][i] = P[p][i]
    BY <1>2, <1>3
  <2>2. CASE q = t /\ k = j
    <3>1. In(P[p][i], P)
      BY <2>1 DEF In
    <3> QED BY <1>2, <2>1, <2>2, <3>1
  <2>3. CASE ~(q = t /\ k = j)
    <3>1. q \in DOMAIN P /\ k \in DOMAIN P[q] /\ Q[q][k] = P[q][k]
      BY <1>2, <2>3
    <3> QED BY <1>3, <2>1, <3>1 DEF InOrder
  <2> QED BY <2>2, <2>3
<1> QED BY <1>3 DEF InOrder

\* No record is lost.
Keeps(P, Q) == \A e : In(e, P) => In(e, Q)

LEMMA PageIs ==
  ASSUME NEW R, NEW P \in Seq(Seq(R))
  PROVE  /\ Len(P) \in Nat /\ DOMAIN P = 1 .. Len(P)
         /\ \A p \in 1 .. Len(P) :
              P[p] \in Seq(R) /\ Len(P[p]) \in Nat /\ DOMAIN P[p] = 1 .. Len(P[p])
OBVIOUS

\* GetPage: the record goes to the last page of the pool's pages q, and a flush
\* of the page brings it to the file's pages g.
SetTo(P, t, page, Q) == Q = [P EXCEPT ![t] = page]
ToLast(g, q, d, Q, W) ==
  /\ Len(g) > 0 /\ Len(q) = Len(g)
  /\ SetTo(q, Len(g), Append(q[Len(g)], d), Q)
  /\ SetTo(g, Len(g), Append(q[Len(g)], d), W)

LEMMA AppendToLast ==
  ASSUME NEW R, NEW g \in Seq(Seq(R)), NEW q \in Seq(Seq(R)), Behind(g, q), NEW d \in R,
         NEW Q, NEW W, ToLast(g, q, d, Q, W)
  PROVE  /\ Grows(q, Q, d)
         /\ Q \in Seq(Seq(R)) /\ Behind(g, Q)
         /\ W \in Seq(Seq(R)) /\ Behind(W, Q)
         /\ Keeps(g, W)
         /\ In(d, W)
         /\ g = q => W = Q
<1> PICK t, a : t = Len(g) /\ a = Append(q[t], d)
  OBVIOUS
<1> t > 0 /\ t = Len(q) /\ SetTo(q, t, a, Q) /\ SetTo(g, t, a, W)
  BY DEF ToLast
<1>g. /\ t \in Nat /\ DOMAIN g = 1 .. t /\ t \in 1 .. t
      /\ \A p \in 1 .. t :
           g[p] \in Seq(R) /\ Len(g[p]) \in Nat /\ DOMAIN g[p] = 1 .. Len(g[p])
  <2>1. t \in Nat
    OBVIOUS
  <2>2. t \in 1 .. t
    BY <2>1
  <2> QED BY <2>1, <2>2, PageIs
<1>q. /\ DOMAIN q = 1 .. t
      /\ \A p \in 1 .. t :
           q[p] \in Seq(R) /\ Len(q[p]) \in Nat /\ DOMAIN q[p] = 1 .. Len(q[p])
  BY PageIs
<1>b. \A p \in 1 .. t :
        Len(g[p]) <= Len(q[p]) /\ \A i \in 1 .. Len(g[p]) : g[p][i] = q[p][i]
  BY DEF Behind
<1>1. Len(q[t]) \in Nat /\ q[t] \in Seq(R)
  BY <1>g, <1>q
<1>2. /\ a \in Seq(R) /\ DOMAIN a = 1 .. Len(q[t]) + 1 /\ Len(a) = Len(q[t]) + 1
      /\ \A i \in 1 .. Len(q[t]) : a[i] = q[t][i]
      /\ a[Len(q[t]) + 1] = d
  BY <1>1, AppendIs
<1>3. /\ Q \in Seq(Seq(R)) /\ Len(Q) = t /\ DOMAIN Q = 1 .. t /\ Q[t] = a
      /\ \A n \in 1 .. t : n # t => Q[n] = q[n]
  BY <1>2, <1>g, <1>q, ExceptIs DEF SetTo
<1>4. /\ W \in Seq(Seq(R)) /\ Len(W) = t /\ DOMAIN W = 1 .. t /\ W[t] = a
      /\ \A n \in 1 .. t : n # t => W[n] = g[n]
  BY <1>2, <1>g, ExceptIs DEF SetTo
<1>5. Grows(q, Q, d)
  BY DEF Grows, SetTo
<1>6. Behind(g, Q)
  <2>1. ASSUME NEW p \in 1 .. t
        PROVE  Len(g[p]) <= Len(Q[p]) /\ \A i \in 1 .. Len(g[p]) : g[p][i] = Q[p][i]
    <3>1. CASE p = t
      <4>1. Len(g[t]) <= Len(q[t]) /\ Len(g[t]) \in Nat
        BY <1>b, <1>g
      <4>2. ASSUME NEW i \in 1 .. Len(g[t]) PROVE i \in 1 .. Len(q[t]) /\ g[t][i] = q[t][i]
        BY <1>1, <1>b, <1>g, <4>1
      <4>3. Len(g[t]) <= Len(a)
        BY <1>1, <1>2, <4>1
      <4> QED BY <1>2, <1>3, <3>1, <4>2, <4>3
    <3>2. CASE p # t
      BY <1>3, <1>b, <3>2
    <3> QED BY <3>1, <3>2
  <2>2. Len(g) <= Len(Q) /\ Len(Q) <= Len(g) + 1 /\ ~(Len(Q) > Len(g))
    BY <1>3, <1>g
  <2> QED BY <2>1, <2>2 DEF Behind
<1>7. Behind(W, Q)
  <2>1. ASSUME NEW p \in 1 .. t
        PROVE  Len(W[p]) <= Len(Q[p]) /\ \A i \in 1 .. Len(W[p]) : W[p][i] = Q[p][i]
    <3>1. CASE p = t
      <4>1. W[p] = a /\ Q[p] = a /\ Len(a) \in Nat
        BY <1>1, <1>2, <1>3, <1>4, <3>1
      <4>2. Len(a) <= Len(a)
        BY <4>1
      <4> QED BY <4>1, <4>2
    <3>2. CASE p # t
      BY <1>3, <1>4, <1>b, <3>2
    <3> QED BY <3>1, <3>2
  <2> QED BY <1>3, <1>4, <1>g, <2>1 DEF Behind
<1>8. ASSUME NEW e, In(e, g) PROVE In(e, W)
  <2>1. PICK p \in 1 .. t : \E i \in DOMAIN g[p] : g[p][i] = e
    BY <1>8, <1>g DEF In
  <2>2. PICK i \in DOMAIN g[p] : g[p][i] = e
    BY <2>1
  <2>3. CASE p = t
    <3>1. /\ i \in 1 .. Len(g[t]) /\ g[t][i] = e
          /\ Len(g[t]) <= Len(q[t]) /\ Len(g[t]) \in Nat /\ q[t][i] = e
      BY <1>b, <1>g, <2>2, <2>3
    <3>2. i \in 1 .. Len(q[t]) /\ i \in 1 .. Len(q[t]) + 1
      BY <1>1, <3>1
    <3>3. i \in DOMAIN W[t] /\ W[t][i] = e
      BY <1>2, <1>4, <3>1, <3>2
    <3> QED BY <1>4, <1>g, <3>3 DEF In
  <2>4. CASE p # t
    BY <1>4, <2>2, <2>4 DEF In
  <2> QED BY <2>3, <2>4
<1>9. In(d, W)
  <2>1. Len(q[t]) + 1 \in 1 .. Len(q[t]) + 1
    BY <1>1
  <2>2. Len(q[t]) + 1 \in DOMAIN W[t] /\ W[t][Len(q[t]) + 1] = d
    BY <1>2, <1>4, <2>1
  <2> QED BY <1>4, <1>g, <2>2 DEF In
<1>10. g = q => W = Q
  BY DEF SetTo
<1> QED BY <1>3, <1>4, <1>5, <1>6, <1>7, <1>8, <1>9, <1>10 DEF Keeps

\* NewPage: the record is the first of a page after the last, which is full.
LEMMA AppendToNew ==
  ASSUME NEW R, NEW g \in Seq(Seq(R)), NEW q \in Seq(Seq(R)), Behind(g, q), NEW d \in R,
         NEW t, t = Len(g), t = Len(q), t > 0 => Len(q[t]) >= PerPage,
         NEW a, a = <<d>>,
         NEW Q, Q = Append(q, a), NEW W, W = Append(g, a)
  PROVE  /\ Grows(q, Q, d)
         /\ Q \in Seq(Seq(R)) /\ Behind(g, Q)
         /\ W \in Seq(Seq(R)) /\ Behind(W, Q)
         /\ Keeps(g, W)
         /\ In(d, W)
<1>g. t \in Nat /\ \A p \in 1 .. t : Len(g[p]) \in Nat
  BY PageIs
<1>b. \A p \in 1 .. t :
        Len(g[p]) <= Len(q[p]) /\ \A i \in 1 .. Len(g[p]) : g[p][i] = q[p][i]
  BY DEF Behind
<1>1. a \in Seq(R) /\ Len(a) = 1
  OBVIOUS
<1>2. /\ Q \in Seq(Seq(R)) /\ Len(Q) = t + 1
      /\ \A n \in 1 .. t : Q[n] = q[n]
      /\ Q[t + 1] = a
  BY <1>1, AppendIs
<1>3. /\ W \in Seq(Seq(R)) /\ Len(W) = t + 1
      /\ \A n \in 1 .. t : W[n] = g[n]
      /\ W[t + 1] = a
  <2>1. \A x \in Seq(Seq(R)) :
          /\ Append(x, a) \in Seq(Seq(R)) /\ Len(Append(x, a)) = Len(x) + 1
          /\ \A n \in 1 .. Len(x) : Append(x, a)[n] = x[n]
          /\ Append(x, a)[Len(x) + 1] = a
    BY <1>1, AppendIs
  <2> QED BY <2>1
<1>4. Grows(q, Q, d) /\ Grows(g, W, d)
  BY DEF Grows
<1>5. Behind(g, Q)
  <2>1. ASSUME NEW p \in 1 .. t
        PROVE  Len(g[p]) <= Len(Q[p]) /\ \A i \in 1 .. Len(g[p]) : g[p][i] = Q[p][i]
    BY <1>2, <1>b
  <2>2. t > 0 => Len(Q[t]) >= PerPage
    <3>1. t > 0 => t \in 1 .. t
      BY <1>g
    <3> QED BY <1>2, <3>1
  <2>3. Len(g) <= Len(Q) /\ Len(Q) <= Len(g) + 1
    BY <1>2, <1>g
  <2> QED BY <2>1, <2>2, <2>3 DEF Behind
<1>6. Behind(W, Q)
  <2>1. ASSUME NEW p \in 1 .. t + 1
        PROVE  Len(W[p]) <= Len(Q[p]) /\ \A i \in 1 .. Len(W[p]) : W[p][i] = Q[p][i]
    <3>1. CASE p = t + 1
      <4>1. W[p] = a /\ Q[p] = a /\ Len(a) <= Len(a)
        BY <1>1, <1>2, <1>3, <3>1
      <4> QED BY <4>1
    <3>2. CASE p \in 1 .. t
      BY <1>2, <1>3, <1>b, <3>2
    <3>3. p = t + 1 \/ p \in 1 .. t
      BY <1>g
    <3> QED BY <3>1, <3>2, <3>3
  <2>2. Len(W) <= Len(Q) /\ Len(Q) <= Len(W) + 1 /\ ~(Len(Q) > Len(W))
    BY <1>2, <1>3, <1>g
  <2> QED BY <1>3, <2>1, <2>2 DEF Behind
<1>7. \A e : In(e, W) <=> In(e, g) \/ e = d
  BY <1>4, GrowsIn
<1> QED BY <1>2, <1>3, <1>4, <1>5, <1>6, <1>7 DEF Keeps

LEMMA Single ==
  ASSUME NEW R, NEW x \in R
  PROVE  <<x>> \in Seq(R)
OBVIOUS

LEMMA AppendTarget ==
  ASSUME PagesFit, NEW f \in Files, ~Refused(f), NEW d \in Rec[f],
         NEW Q, Q = WithRecord(f, d), NEW W, W = Written(file[f], Target(f), Q[Target(f)])
  PROVE  /\ Grows(pool[f], Q, d)
         /\ Q \in Seq(Seq(Rec[f])) /\ Behind(file[f], Q)
         /\ W \in Seq(Seq(Rec[f])) /\ Behind(W, Q)
         /\ Keeps(file[f], W)
         /\ In(d, W)
         /\ file[f] = pool[f] => W = Q
<1> DEFINE g == file[f]
           q == pool[f]
<1>1. g \in Seq(Seq(Rec[f])) /\ q \in Seq(Seq(Rec[f])) /\ Behind(g, q)
  BY DEF PagesFit
<1>2. /\ Len(g) \in Nat /\ Len(q) \in Nat /\ Len(g) <= Len(q) /\ Len(q) <= Len(g) + 1
      /\ \A p \in 1 .. Len(q) : Len(q[p]) \in Nat
  <2>1. Len(g) <= Len(q) /\ Len(q) <= Len(g) + 1
    BY <1>1 DEF Behind
  <2>2. Len(g) \in Nat /\ Len(q) \in Nat
    BY <1>1
  <2>3. \A p \in 1 .. Len(q) : Len(q[p]) \in Nat
    BY <1>1, PageIs
  <2> QED BY <2>1, <2>2, <2>3
<1>3. PerPage \in Nat
  BY PerPageAssumption
<1>4. CASE Len(g) > 0 /\ Len(q[Len(g)]) < PerPage
  <2>1. Target(f) = Len(g)
    BY <1>4 DEF Target
  <2>2. Len(g) \in 1 .. Len(q)
    BY <1>2, <1>4
  <2>3. Len(q) = Len(g)
    <3>1. Len(q) > Len(g) /\ Len(g) > 0 => Len(q[Len(g)]) >= PerPage
      BY <1>1 DEF Behind
    <3>2. Len(q[Len(g)]) \in Nat
      BY <1>2, <2>2
    <3> QED BY <1>2, <1>3, <1>4, <3>1, <3>2
  <2> DEFINE t == Len(g)
             a == Append(q[t], d)
  <2>4. ~(t > Len(q)) /\ ~(t > Len(g)) /\ t \in DOMAIN q
    BY <1>1, <1>2, <2>2, <2>3
  <2>5. Q = [q EXCEPT ![t] = a] /\ Q[t] = a
    BY <2>1, <2>4 DEF WithRecord
  <2>6. W = [g EXCEPT ![t] = a]
    BY <2>1, <2>4, <2>5 DEF Written
  <2>7. ToLast(g, q, d, Q, W)
    BY <1>4, <2>3, <2>5, <2>6 DEF SetTo, ToLast
  <2> HIDE DEF g, q
  <2>8. Grows(q, Q, d) /\ Behind(g, Q) /\ Behind(W, Q) /\ In(d, W)
    BY <1>1, <2>7, AppendToLast
  <2>9. Q \in Seq(Seq(Rec[f])) /\ W \in Seq(Seq(Rec[f]))
    BY <1>1, <2>7, AppendToLast
  <2>10. Keeps(g, W) /\ (g = q => W = Q)
    BY <1>1, <2>7, AppendToLast
  <2> QED BY <2>8, <2>9, <2>10 DEF g, q
<1>5. CASE ~(Len(g) > 0 /\ Len(q[Len(g)]) < PerPage)
  <2>1. Target(f) = Len(g) + 1
    BY <1>5 DEF Target
  <2>2. Len(q) = Len(g)
    BY <1>2, <2>1 DEF Refused
  <2> DEFINE t == Len(g)
             a == <<d>>
  <2>3. Len(g) + 1 > Len(q) /\ Len(g) + 1 > Len(g)
    BY <1>2, <2>2
  <2>4. Q = Append(q, a)
    BY <2>1, <2>3 DEF WithRecord
  <2>5. Q[t + 1] = a
    <3>1. a \in Seq(Rec[f])
      BY Single
    <3> QED BY <1>1, <2>2, <2>4, <3>1, AppendIs
  <2>6. W = Append(g, a)
    BY <2>1, <2>3, <2>5 DEF Written
  <2>7. t = Len(g) /\ t = Len(q) /\ a = <<d>>
    BY <2>2
  <2>8. t > 0 => Len(q[t]) >= PerPage
    <3>1. t > 0 => t \in 1 .. Len(q)
      BY <1>2, <2>2
    <3> QED BY <1>2, <1>3, <1>5, <3>1
  <2> HIDE DEF t, a, g, q
  <2>9. /\ Grows(q, Q, d) /\ Q \in Seq(Seq(Rec[f])) /\ Behind(g, Q)
        /\ W \in Seq(Seq(Rec[f])) /\ Behind(W, Q)
        /\ Keeps(g, W)
        /\ In(d, W)
    BY <1>1, <2>4, <2>6, <2>7, <2>8, AppendToNew
  <2>10. g = q => W = Q
    BY <2>4, <2>6
  <2> QED BY <2>9, <2>10 DEF g, q
<1> QED BY <1>4, <1>5

LEMMA AppendPages ==
  ASSUME PagesFit, NEW f \in Files, NEW d \in Rec[f], AppendDone(f, d) \/ AppendFails(f, d)
  PROVE  /\ PagesFit'
         /\ \A h \in Files : h # f => pool'[h] = pool[h] /\ file'[h] = file[h]
         /\ \A h \in Files : Keeps(file[h], file'[h])
         /\ pool'[f] = pool[f] \/ Grows(pool[f], pool'[f], d)
         /\ AppendDone(f, d) => In(d, file'[f])
<1>1. DOMAIN file = Files /\ DOMAIN pool = Files
  BY DEF PagesFit
<1>2. CASE AppendDone(f, d)
  <2>0. PICK Q : Q = WithRecord(f, d)
    OBVIOUS
  <2>w. PICK W : W = Written(file[f], Target(f), Q[Target(f)])
    OBVIOUS
  <2>1. ~Refused(f) /\ pool' = [pool EXCEPT ![f] = Q]
    BY <1>2, <2>0 DEF AppendDone
  <2>2. pool'[f] = Q /\ file' = [file EXCEPT ![f] = W]
    BY <1>1, <1>2, <2>1, <2>w DEF AppendDone
  <2>3. /\ DOMAIN file' = Files /\ DOMAIN pool' = Files /\ file'[f] = W
        /\ \A h \in Files : h # f => pool'[h] = pool[h] /\ file'[h] = file[h]
    BY <1>1, <2>1, <2>2
  <2>4. /\ Grows(pool[f], Q, d) /\ Q \in Seq(Seq(Rec[f]))
        /\ W \in Seq(Seq(Rec[f])) /\ Behind(W, Q)
        /\ Keeps(file[f], W)
        /\ In(d, W)
    <3>1. ~Refused(f)
      BY <2>1
    <3>2. Grows(pool[f], Q, d)
      BY <2>0, <2>w, <3>1, AppendTarget
    <3>3. Q \in Seq(Seq(Rec[f])) /\ W \in Seq(Seq(Rec[f]))
      BY <2>0, <2>w, <3>1, AppendTarget
    <3>4. Behind(W, Q) /\ In(d, W)
      BY <2>0, <2>w, <3>1, AppendTarget
    <3>5. Keeps(file[f], W)
      BY <2>0, <2>w, <3>1, AppendTarget
    <3> QED BY <3>2, <3>3, <3>4, <3>5
  <2>5. PagesFit'
    BY <2>2, <2>3, <2>4 DEF PagesFit
  <2> QED BY <2>2, <2>3, <2>4, <2>5 DEF Keeps
<1>3. CASE AppendFails(f, d) /\ pool' = pool
  <2>1. file' = file
    BY <1>3 DEF AppendFails
  <2>2. ~AppendDone(f, d) \/ In(d, file'[f])
    BY <1>2
  <2> QED BY <1>3, <2>1, <2>2 DEF PagesFit, Keeps
<1>4. CASE AppendFails(f, d) /\ ~Refused(f) /\ pool' = [pool EXCEPT ![f] = WithRecord(f, d)]
  <2> DEFINE Q == WithRecord(f, d)
  <2>1. file' = file /\ DOMAIN pool' = Files /\ pool'[f] = Q
        /\ \A h \in Files : h # f => pool'[h] = pool[h]
    BY <1>1, <1>4 DEF AppendFails
  <2>2. Grows(pool[f], Q, d) /\ Q \in Seq(Seq(Rec[f])) /\ Behind(file[f], Q)
    BY <1>4, AppendTarget
  <2> HIDE DEF Q
  <2>3. PagesFit'
    BY <1>1, <2>1, <2>2 DEF PagesFit
  <2>4. ~AppendDone(f, d) \/ In(d, file'[f])
    BY <1>2
  <2> QED BY <2>1, <2>2, <2>3, <2>4 DEF Keeps
<1> QED BY <1>2, <1>3, <1>4 DEF AppendFails

\* A page is written to the file: the file has all it had and is still behind.
LEMMA FlushOver ==
  ASSUME NEW R, NEW g \in Seq(Seq(R)), NEW q \in Seq(Seq(R)), Behind(g, q),
         NEW p \in 1 .. Len(g), NEW W, SetTo(g, p, q[p], W)
  PROVE  W \in Seq(Seq(R)) /\ Behind(W, q) /\ Keeps(g, W)
<1>1. /\ Len(g) \in Nat /\ DOMAIN g = 1 .. Len(g)
      /\ \A n \in 1 .. Len(g) : Len(g[n]) \in Nat /\ DOMAIN g[n] = 1 .. Len(g[n])
  BY PageIs
<1>2. Len(g) <= Len(q) /\ Len(q) <= Len(g) + 1
  BY DEF Behind
<1>3. \A n \in 1 .. Len(g) :
        Len(g[n]) <= Len(q[n]) /\ \A i \in 1 .. Len(g[n]) : g[n][i] = q[n][i]
  BY DEF Behind
<1> PICK a : a = q[p]
  OBVIOUS
<1>4. a \in Seq(R) /\ Len(a) \in Nat /\ DOMAIN a = 1 .. Len(a)
  <2>1. p \in 1 .. Len(q)
    BY <1>1, <1>2
  <2>2. q[p] \in Seq(R)
    BY <2>1, PageIs
  <2> QED BY <2>2
<1>5. /\ W \in Seq(Seq(R)) /\ Len(W) = Len(g) /\ DOMAIN W = DOMAIN g
      /\ W[p] = a
      /\ \A n \in DOMAIN g : n # p => W[n] = g[n]
  BY <1>4, ExceptIs DEF SetTo
<1>6. ASSUME NEW n \in 1 .. Len(W)
      PROVE  Len(W[n]) <= Len(q[n]) /\ \A i \in 1 .. Len(W[n]) : W[n][i] = q[n][i]
  <2>1. CASE n = p
    <3>1. W[n] = q[n] /\ Len(q[n]) <= Len(q[n])
      BY <1>4, <1>5, <2>1
    <3> QED BY <3>1
  <2>2. CASE n # p
    <3>1. n \in 1 .. Len(g) /\ W[n] = g[n]
      BY <1>1, <1>5, <2>2
    <3> QED BY <1>3, <3>1
  <2> QED BY <2>1, <2>2
<1>7. Len(W) <= Len(q) /\ Len(q) <= Len(W) + 1
  BY <1>2, <1>5
<1>8. Len(q) > Len(W) /\ Len(W) > 0 => Len(q[Len(W)]) >= PerPage
  BY <1>5 DEF Behind
<1>9. Behind(W, q)
  BY <1>6, <1>7, <1>8 DEF Behind
<1>10. ASSUME NEW e, In(e, g) PROVE In(e, W)
  <2>1. PICK n \in DOMAIN g : \E i \in DOMAIN g[n] : g[n][i] = e
    BY <1>10 DEF In
  <2>2. PICK i \in DOMAIN g[n] : g[n][i] = e
    BY <2>1
  <2>3. CASE n = p
    <3>1. i \in 1 .. Len(g[p]) /\ Len(g[p]) <= Len(a) /\ Len(g[p]) \in Nat /\ a[i] = e
      BY <1>1, <1>3, <2>2, <2>3
    <3>2. i \in DOMAIN W[p] /\ W[p][i] = e
      BY <1>4, <1>5, <3>1
    <3> QED BY <1>5, <2>3, <3>2 DEF In
  <2>4. CASE n # p
    BY <1>5, <2>2, <2>4 DEF In
  <2> QED BY <2>3, <2>4
<1> QED BY <1>5, <1>9, <1>10 DEF Keeps

LEMMA FlushPages ==
  ASSUME PagesFit, NEW f \in Files, NEW p \in 1 .. Len(pool[f]), FlushPage(f, p)
  PROVE  /\ PagesFit'
         /\ \A h \in Files : Keeps(file[h], file'[h])
<1> DEFINE g == file[f]
           q == pool[f]
           a == q[p]
           W == Written(g, p, a)
<1>1. g \in Seq(Seq(Rec[f])) /\ q \in Seq(Seq(Rec[f])) /\ Behind(g, q)
  BY DEF PagesFit
<1>2. /\ Len(g) \in Nat /\ DOMAIN g = 1 .. Len(g)
      /\ \A n \in 1 .. Len(g) : Len(g[n]) \in Nat /\ DOMAIN g[n] = 1 .. Len(g[n])
  BY <1>1, PageIs
<1>3. /\ Len(q) \in Nat /\ p \in Nat /\ p >= 1 /\ p <= Len(q)
      /\ \A n \in 1 .. Len(q) : Len(q[n]) \in Nat /\ DOMAIN q[n] = 1 .. Len(q[n])
  BY <1>1, PageIs
<1>a. a \in Seq(Rec[f]) /\ Len(a) \in Nat /\ DOMAIN a = 1 .. Len(a)
  BY <1>1, PageIs
<1>4. Len(g) <= Len(q) /\ Len(q) <= Len(g) + 1
  BY <1>1 DEF Behind
<1>5. \A n \in 1 .. Len(g) :
        Len(g[n]) <= Len(q[n]) /\ \A i \in 1 .. Len(g[n]) : g[n][i] = q[n][i]
  BY <1>1 DEF Behind
<1>6. pool' = pool /\ file' = [file EXCEPT ![f] = W]
  BY DEF FlushPage
<1>7. DOMAIN file' = Files /\ file'[f] = W /\ \A h \in Files : h # f => file'[h] = file[h]
  BY <1>6 DEF PagesFit
<1>8. W \in Seq(Seq(Rec[f])) /\ Behind(W, q) /\ Keeps(g, W)
  <2>1. CASE p > Len(g)
    <3>1. W = Append(g, a) /\ p = Len(g) + 1 /\ Len(q) = Len(g) + 1
      BY <1>2, <1>3, <1>4, <2>1 DEF Written
    <3> HIDE DEF g, q, a, W
    <3>2. /\ W \in Seq(Seq(Rec[f])) /\ Len(W) = Len(g) + 1 /\ DOMAIN W = 1 .. Len(g) + 1
          /\ \A n \in 1 .. Len(g) : W[n] = g[n]
          /\ W[Len(g) + 1] = a
      BY <1>1, <1>a, <3>1, AppendIs
    <3>3. ASSUME NEW n \in 1 .. Len(W)
          PROVE  Len(W[n]) <= Len(q[n]) /\ \A i \in 1 .. Len(W[n]) : W[n][i] = q[n][i]
      <4>1. CASE n = p
        <5>1. W[n] = q[n]
          BY <3>1, <3>2, <4>1 DEF a
        <5>2. n \in 1 .. Len(q)
          BY <1>3, <4>1
        <5>3. Len(q[n]) <= Len(q[n])
          BY <1>3, <5>2
        <5> QED BY <5>1, <5>3
      <4>2. CASE n \in 1 .. Len(g)
        BY <1>5, <3>2, <4>2
      <4>3. n = p \/ n \in 1 .. Len(g)
        BY <1>2, <3>1, <3>2
      <4> QED BY <4>1, <4>2, <4>3
    <3>4. Len(W) <= Len(q) /\ Len(q) <= Len(W) + 1 /\ ~(Len(q) > Len(W))
      BY <1>2, <3>1, <3>2
    <3>5. Behind(W, q)
      BY <3>3, <3>4 DEF Behind
    <3>6. ASSUME NEW e, In(e, g) PROVE In(e, W)
      <4>1. \A n \in DOMAIN g : n \in DOMAIN W /\ W[n] = g[n]
        BY <1>2, <3>2
      <4> QED BY <3>6, <4>1 DEF In
    <3> QED BY <3>2, <3>5, <3>6 DEF Keeps
  <2>2. CASE ~(p > Len(g))
    <3>1. SetTo(g, p, q[p], W) /\ p \in 1 .. Len(g)
      BY <1>2, <1>3, <2>2 DEF Written, SetTo
    <3> HIDE DEF g, q, a, W
    <3> QED BY <1>1, <3>1, FlushOver
  <2> QED BY <2>1, <2>2
<1>9. PagesFit'
  <2> HIDE DEF W, a
  <2> QED BY <1>6, <1>7, <1>8 DEF PagesFit
<1> HIDE DEF W, a
<1> QED BY <1>7, <1>8, <1>9 DEF Keeps

-----------------------------------------------------------------------------
(* The steps that give out no oid. *)

LEMMA KnownIn ==
  ASSUME NEW P, NEW m
  PROVE  Known(P, m) <=> /\ \A d : In(d, P["tables"]) => TableKnown(d, m)
                         /\ \A d : In(d, P["columns"]) => ColumnKnown(d, m)
                         /\ \A d : In(d, P["indexes"]) => IndexKnown(d, m)
BY DEF Known, In

LEMMA NoGapIn == NoGap <=> \A e : In(e, pool["columns"]) => Preceded(file["columns"], e)
BY DEF NoGap, In

\* What is in a file stays there.
Kept4 == \A h \in Files : Keeps(file[h], file'[h])

LEMMA StaysSaved ==
  ASSUME Kept4
  PROVE  /\ \A n, o : TableSaved(n, o) => TableSaved(n, o)'
         /\ \A o : HasTable(o) => HasTable(o)'
         /\ \A n, c : CountSaved(n, c) => CountSaved(n, c)'
         /\ \A n, x, o : IndexSaved(n, x, o) => IndexSaved(n, x, o)'
         /\ \A c : Preceded(file["columns"], c) => Preceded(file'["columns"], c)
<1>1. ASSUME NEW e
      PROVE  /\ In(e, file["tables"]) => In(e, file'["tables"])
             /\ In(e, file["columns"]) => In(e, file'["columns"])
             /\ In(e, file["indexes"]) => In(e, file'["indexes"])
  BY RecIs DEF Kept4, Keeps
<1>2. ASSUME NEW n, NEW o, TableSaved(n, o) PROVE TableSaved(n, o)'
  BY <1>1, <1>2 DEF TableSaved
<1>3. ASSUME NEW o, HasTable(o) PROVE HasTable(o)'
  BY <1>1, <1>3 DEF HasTable
<1>4. ASSUME NEW n, NEW c, CountSaved(n, c) PROVE CountSaved(n, c)'
  BY <1>1, <1>4 DEF CountSaved
<1>5. ASSUME NEW n, NEW x, NEW o, IndexSaved(n, x, o) PROVE IndexSaved(n, x, o)'
  BY <1>1, <1>5 DEF IndexSaved
<1>6. ASSUME NEW c, Preceded(file["columns"], c) PROVE Preceded(file'["columns"], c)
  BY <1>1, <1>6 DEF Preceded
<1> QED BY <1>2, <1>3, <1>4, <1>5, <1>6

LEMMA ColumnsStaySaved ==
  ASSUME Kept4, NEW o, ColumnsSaved(o), ColumnsOf(o)' = ColumnsOf(o)
  PROVE  ColumnsSaved(o)'
<1>1. \A e : In(e, file["columns"]) => In(e, file'["columns"])
  BY RecIs DEF Kept4, Keeps
<1> QED BY <1>1 DEF ColumnsSaved

LEMMA SavedStays ==
  ASSUME Kept4, NEW a, Saved(a), a[1] = "table" => ColumnsOf(a[3])' = ColumnsOf(a[3])
  PROVE  Saved(a)'
<1>1. CASE a[1] = "table"
  <2>1. TableSaved(a[2], a[3]) /\ ColumnsSaved(a[3]) /\ Len(ColumnsOf(a[3])) = a[4]
    BY <1>1 DEF Saved
  <2>2. ColumnsOf(a[3])' = ColumnsOf(a[3])
    BY <1>1
  <2>3. TableSaved(a[2], a[3])'
    BY <2>1, StaysSaved
  <2>4. ColumnsSaved(a[3])'
    BY <2>1, <2>2, ColumnsStaySaved
  <2> QED BY <1>1, <2>1, <2>2, <2>3, <2>4 DEF Saved
<1>2. CASE a[1] = "count"
  <2>1. CountSaved(a[2], a[4]) /\ a[4] \in Nat
    BY <1>2 DEF Saved
  <2>2. CountSaved(a[2], a[4])'
    BY <2>1, StaysSaved
  <2> QED BY <1>2, <2>1, <2>2 DEF Saved
<1>3. CASE a[1] = "index"
  <2>1. IndexSaved(a[2], a[3], a[4])
    BY <1>3 DEF Saved
  <2>2. IndexSaved(a[2], a[3], a[4])'
    BY <2>1, StaysSaved
  <2> QED BY <1>3, <2>2 DEF Saved
<1> QED BY <1>1, <1>2, <1>3 DEF Saved

\* The shape of the operation, apart from what a running one has done.
OpShape ==
  /\ op = [pc |-> op.pc, todo |-> op.todo, done |-> op.done]
  /\ op.pc \in {"idle", "run", "boot", "down"}
  /\ op.todo \in Seq(Todo)
  /\ op.pc \in {"idle", "down"} => op.todo = <<>>
  /\ op.pc = "boot" =>
       \A i \in DOMAIN op.todo : \E n \in TypeNames :
         op.todo[i] = <<"types", [oid |-> 0, name |-> n]>>
IsCreatingTable == \E n \in TableNames, o \in Oids, c \in Nat : CreatingTable(n, o, c)
IsCreatingIndex ==
  \E n \in IndexNames, x \in Oids, o \in Oids, p \in Nat : CreatingIndex(n, x, o, p)
IsCounting == \E n \in TableNames, t \in TableRec : t.name = n /\ Counting(n, t)

LEMMA OpFitsIs ==
  OpFits <=> OpShape /\ (op.pc = "run" => IsCreatingTable \/ IsCreatingIndex \/ IsCounting)
BY DEF OpFits, OpShape, IsCreatingTable, IsCreatingIndex, IsCounting

LEMMA IdleFits ==
  ASSUME op' = Idle
  PROVE  OpFits'
<1>1. OpShape'
  BY DEF OpShape, Idle
<1>2. op'.pc # "run"
  BY DEF Idle
<1> QED BY <1>1, <1>2 DEF OpShape, OpFits

LEMMA OpStays ==
  ASSUME OpFits, Kept4, op' = op, mem' = mem, acked' = acked
  PROVE  OpFits'
<1>0. OpShape' <=> OpShape
  BY DEF OpShape
<1>c. \A o : ColumnsOf(o)' = ColumnsOf(o)
  BY DEF ColumnsOf
<1>1. ASSUME IsCreatingTable PROVE IsCreatingTable'
  <2>1. PICK n \in TableNames, o \in Oids, c \in Nat : CreatingTable(n, o, c)
    BY <1>1 DEF IsCreatingTable
  <2>2. TableSaved(n, o) => TableSaved(n, o)'
    BY StaysSaved
  <2>3. ColumnsSaved(o) => ColumnsSaved(o)'
    BY <1>c, ColumnsStaySaved
  <2>4. CreatingTable(n, o, c)'
    BY <1>c, <2>1, <2>2, <2>3 DEF CreatingTable, TableAhead, ColumnsAhead
  <2> QED BY <2>4 DEF IsCreatingTable
<1>2. ASSUME IsCreatingIndex PROVE IsCreatingIndex'
  <2>1. PICK n \in IndexNames, x \in Oids, o \in Oids, p \in Nat : CreatingIndex(n, x, o, p)
    BY <1>2 DEF IsCreatingIndex
  <2>2. IndexSaved(n, x, o) => IndexSaved(n, x, o)'
    BY StaysSaved
  <2>3. CreatingIndex(n, x, o, p)'
    BY <2>1, <2>2 DEF CreatingIndex
  <2> QED BY <2>3 DEF IsCreatingIndex
<1>3. ASSUME IsCounting PROVE IsCounting'
  <2>1. PICK n \in TableNames, t \in TableRec : t.name = n /\ Counting(n, t)
    BY <1>3 DEF IsCounting
  <2>2. CountSaved(n, t.pages) => CountSaved(n, t.pages)'
    BY StaysSaved
  <2>3. Counting(n, t)'
    BY <2>1, <2>2 DEF Counting
  <2> QED BY <2>1, <2>3 DEF IsCounting
<1>4. OpShape /\ (op.pc = "run" => IsCreatingTable \/ IsCreatingIndex \/ IsCounting)
  BY OpFitsIs
<1>5. OpShape' /\ (op'.pc = "run" => IsCreatingTable' \/ IsCreatingIndex' \/ IsCounting')
  BY <1>0, <1>1, <1>2, <1>3, <1>4
<1> QED BY <1>5 DEF OpFits, OpShape, IsCreatingTable, IsCreatingIndex, IsCounting

LEMMA FlushStep ==
  ASSUME Inv, NEW f \in Files, NEW p \in 1 .. Len(pool[f]), FlushPage(f, p)
  PROVE  Inv'
<1>1. PagesFit' /\ Kept4
  BY FlushPages DEF Inv, Kept4
<1>2. mem' = mem /\ pool' = pool /\ op' = op /\ acked' = acked
  BY DEF FlushPage
<1>3. MapsFit(mem)' /\ RecordsFit'
  BY <1>2 DEF Inv, RecordsFit
<1>4. Anchored'
  BY <1>1, <1>2, StaysSaved DEF Inv, Anchored
<1>5. NoGap'
  BY <1>1, <1>2, StaysSaved DEF Inv, NoGap
<1>6. \A a \in acked : Saved(a)'
  <2>1. \A o : ColumnsOf(o)' = ColumnsOf(o)
    BY <1>2 DEF ColumnsOf
  <2> QED BY <1>1, <2>1, SavedStays DEF Inv
<1>7. OpFits'
  BY <1>1, <1>2, OpStays DEF Inv
<1> QED BY <1>1, <1>2, <1>3, <1>4, <1>5, <1>6, <1>7 DEF Inv

LEMMA ListFits ==
  ASSUME NEW m, ColumnsAgree(m), NEW o
  PROVE  /\ ListOf(m.columnsByTableOid, o) \in Seq(ColumnRec)
         /\ \A i \in DOMAIN ListOf(m.columnsByTableOid, o) :
              /\ ListOf(m.columnsByTableOid, o)[i].table = o
              /\ ListOf(m.columnsByTableOid, o)[i].position = i - 1
<1>1. CASE o \in DOMAIN m.columnsByTableOid
  BY <1>1 DEF ColumnsAgree, ListOf
<1>2. CASE o \notin DOMAIN m.columnsByTableOid
  <2>1. ListOf(m.columnsByTableOid, o) = <<>>
    BY <1>2 DEF ListOf
  <2> QED BY <2>1
<1> QED BY <1>1, <1>2

\* Two gapless lists of the same columns are equal.
LEMMA SameLists ==
  ASSUME NEW a \in Seq(ColumnRec), NEW b \in Seq(ColumnRec),
         \A i \in DOMAIN a : a[i].position = i - 1 /\ a[i] \in ToSet(b),
         \A i \in DOMAIN b : b[i].position = i - 1 /\ b[i] \in ToSet(a)
  PROVE  a = b
<1>1. /\ Len(a) \in Nat /\ DOMAIN a = 1 .. Len(a)
      /\ Len(b) \in Nat /\ DOMAIN b = 1 .. Len(b)
  OBVIOUS
<1>2. ASSUME NEW i \in DOMAIN a PROVE i \in DOMAIN b /\ b[i] = a[i]
  <2>1. PICK j \in DOMAIN b : b[j] = a[i]
    BY DEF ToSet
  <2>2. i - 1 = j - 1
    BY <2>1
  <2> QED BY <1>1, <2>1, <2>2
<1>3. ASSUME NEW i \in DOMAIN b PROVE i \in DOMAIN a
  <2>1. PICK j \in DOMAIN a : a[j] = b[i]
    BY DEF ToSet
  <2>2. i - 1 = j - 1
    BY <2>1
  <2> QED BY <1>1, <2>1, <2>2
<1>4. DOMAIN a = DOMAIN b
  BY <1>2, <1>3
<1>5. Len(a) = Len(b)
  <2>1. CASE Len(a) < Len(b)
    <3>1. Len(b) \in DOMAIN b /\ Len(b) \notin DOMAIN a
      BY <1>1, <2>1
    <3> QED BY <1>4, <3>1
  <2>2. CASE Len(b) < Len(a)
    <3>1. Len(a) \in DOMAIN a /\ Len(a) \notin DOMAIN b
      BY <1>1, <2>2
    <3> QED BY <1>4, <3>1
  <2>3. Len(a) \in Nat /\ Len(b) \in Nat
    BY <1>1
  <2> QED BY ONLY <2>1, <2>2, <2>3
<1> QED BY <1>1, <1>2, <1>5

\* A restart finds the same columns of a table whose columns are all in the file.
LEMMA LoadSaved ==
  ASSUME Inv, NEW L, L = loadFromDisk, NEW o, ColumnsSaved(o)
  PROVE  ListOf(L.columnsByTableOid, o) = ColumnsOf(o)
<1>0. ColumnsAgree(mem) /\ PagesFit /\ MapsFit(mem) /\ RecordsFit /\ Anchored /\ NoGap
  BY DEF Inv, MapsFit, Agree
<1>1. /\ MapsFit(L) /\ Known(file, L)
      /\ \A p \in DOMAIN L.columnsByTableOid : \A i \in DOMAIN L.columnsByTableOid[p] :
           In(L.columnsByTableOid[p][i], file["columns"])
  BY <1>0, LoadFits
<1>2. ColumnsAgree(L)
  BY <1>1 DEF MapsFit, Agree
<1>3. PICK a, b : a = ColumnsOf(o) /\ b = ListOf(L.columnsByTableOid, o)
  OBVIOUS
<1>4. /\ a \in Seq(ColumnRec) /\ b \in Seq(ColumnRec)
      /\ \A i \in DOMAIN a : a[i].table = o /\ a[i].position = i - 1
      /\ \A i \in DOMAIN b : b[i].table = o /\ b[i].position = i - 1
  <2>1. a \in Seq(ColumnRec) /\ \A i \in DOMAIN a : a[i].table = o /\ a[i].position = i - 1
    <3>1. a = ListOf(mem.columnsByTableOid, o)
      BY <1>3 DEF ColumnsOf
    <3>2. PICK m : m = mem
      OBVIOUS
    <3>3. ColumnsAgree(m) /\ a = ListOf(m.columnsByTableOid, o)
      BY <1>0, <3>1, <3>2
    <3> QED BY <3>3, ListFits
  <2>2. b \in Seq(ColumnRec) /\ \A i \in DOMAIN b : b[i].table = o /\ b[i].position = i - 1
    BY <1>2, <1>3, ListFits
  <2> QED BY <1>3, <2>1, <2>2
<1>5. ASSUME NEW i \in DOMAIN a PROVE a[i] \in ToSet(b)
  <2>1. In(a[i], file["columns"])
    BY <1>3 DEF ColumnsSaved
  <2>2. ColumnKnown(a[i], L)
    BY <1>1, <2>1, KnownIn
  <2> QED BY <1>3, <1>4, <2>2 DEF ColumnKnown
<1>6. ASSUME NEW i \in DOMAIN b PROVE b[i] \in ToSet(a)
  <2>1. o \in DOMAIN L.columnsByTableOid /\ b = L.columnsByTableOid[o]
    BY <1>3, <1>6 DEF ListOf
  <2>2. In(b[i], file["columns"])
    BY <1>1, <2>1
  <2>3. Known(file, mem)
    BY <1>0, FileKnown
  <2>4. ColumnKnown(b[i], mem)
    BY <2>2, <2>3, KnownIn
  <2> QED BY <1>3, <1>4, <2>4 DEF ColumnKnown, ColumnsOf
<1>7. a = b
  BY <1>4, <1>5, <1>6, SameLists
<1> QED BY <1>3, <1>7

\* ensureBuiltinTypesPresent appends types only.
LEMMA MissingTypesAre ==
  ASSUME NEW m, NEW s, s = MissingTypes(m)
  PROVE  /\ s \in Seq(Todo)
         /\ \A i \in DOMAIN s : \E n \in TypeNames : s[i] = <<"types", [oid |-> 0, name |-> n]>>
<1> DEFINE B == {<<"types", [oid |-> 0, name |-> n]>> : n \in TypeNames}
<1>1. ASSUME NEW n \in TypeNames PROVE IfMissing(m, n) \in Seq(B)
  BY DEF IfMissing
<1>2. IfMissing(m, "INT64") \in Seq(B) /\ IfMissing(m, "VARCHAR") \in Seq(B)
  BY <1>1 DEF TypeNames
<1>3. B \subseteq Todo
  BY DEF Todo
<1>4. s \in Seq(B)
  <2> HIDE DEF B
  <2> QED BY <1>2, ConcatProperties DEF MissingTypes
<1>5. Len(s) \in Nat /\ DOMAIN s = 1 .. Len(s) /\ \A i \in DOMAIN s : s[i] \in B
  <2> HIDE DEF B
  <2> QED BY <1>4
<1>6. s \in Seq(Todo)
  <2> HIDE DEF B
  <2> QED BY <1>3, <1>4, <1>5
<1> QED BY <1>5, <1>6

LEMMA BootFits ==
  ASSUME NEW m, op' = Boot(m)
  PROVE  OpFits'
<1>1. PICK s : s = MissingTypes(m)
  OBVIOUS
<1>2. /\ s \in Seq(Todo)
      /\ \A i \in DOMAIN s : \E n \in TypeNames : s[i] = <<"types", [oid |-> 0, name |-> n]>>
  BY <1>1, MissingTypesAre
<1>3. op'.pc = "boot" /\ op'.todo = s /\ op'.done = <<>>
      /\ op' = [pc |-> op'.pc, todo |-> op'.todo, done |-> op'.done]
  BY <1>1 DEF Boot
<1>4. OpShape'
  BY <1>2, <1>3 DEF OpShape
<1> QED BY <1>3, <1>4 DEF OpShape, OpFits

LEMMA RestartStep ==
  ASSUME Inv, Restart
  PROVE  Inv'
<1>1. pool' = file /\ file' = file /\ acked' = acked /\ op' = Boot(mem') /\ mem' = loadFromDisk
  BY DEF Restart
<1>2. PagesFit /\ MapsFit(mem) /\ RecordsFit /\ Anchored /\ NoGap
  BY DEF Inv
<1>3. PICK L : L = loadFromDisk
  OBVIOUS
<1>4. /\ MapsFit(L) /\ Known(file, L)
      /\ \A o \in DOMAIN L.columnsByTableOid \cup DOMAIN L.indexesByTableOid : HasTable(o)
  BY <1>2, <1>3, LoadFits
<1>5. mem' = L
  BY <1>1, <1>3
<1>6. PagesFit'
  <2>1. DOMAIN file = Files
    BY <1>2 DEF PagesFit
  <2>2. ASSUME NEW f \in Files PROVE file[f] \in Seq(Seq(Rec[f])) /\ Behind(file[f], file[f])
    <3>1. file[f] \in Seq(Seq(Rec[f]))
      BY <1>2 DEF PagesFit
    <3>2. PICK g : g = file[f]
      OBVIOUS
    <3>3. Len(g) \in Nat /\ \A p \in 1 .. Len(g) : Len(g[p]) \in Nat
      BY <3>1, <3>2, PageIs
    <3>4. Behind(g, g)
      BY <3>3 DEF Behind
    <3> QED BY <3>1, <3>2, <3>4
  <2> QED BY <1>1, <2>1, <2>2 DEF PagesFit
<1>7. RecordsFit'
  <2>1. \A f \in Files : InOrder(f, file[f])
    BY <1>2, FileKnown
  <2> QED BY <1>1, <1>4, <1>5, <2>1 DEF RecordsFit
<1>8. Anchored'
  <2>1. \A o : HasTable(o)' <=> HasTable(o)
    BY <1>1 DEF HasTable
  <2> QED BY <1>4, <1>5, <2>1 DEF Anchored
<1>9. NoGap'
  <2>1. "columns" \in Files
    BY RecIs
  <2>2. \A p \in DOMAIN file["columns"] : \A i \in DOMAIN file["columns"][p] :
          Preceded(file["columns"], file["columns"][p][i])
    BY <1>2, <2>1, FileBehind DEF NoGap
  <2> QED BY <1>1, <2>2 DEF NoGap
<1>10. \A a \in acked' : Saved(a)'
  <2>1. Kept4
    BY <1>1 DEF Kept4, Keeps
  <2>2. ASSUME NEW a \in acked PROVE Saved(a)'
    <3>1. Saved(a)
      BY DEF Inv
    <3>2. ASSUME a[1] = "table" PROVE ColumnsOf(a[3])' = ColumnsOf(a[3])
      <4>1. ColumnsSaved(a[3])
        BY <3>1, <3>2 DEF Saved
      <4>2. ListOf(L.columnsByTableOid, a[3]) = ColumnsOf(a[3])
        BY <1>3, <4>1, LoadSaved
      <4> QED BY <1>5, <4>2 DEF ColumnsOf
    <3> QED BY <2>1, <3>1, <3>2, SavedStays
  <2> QED BY <1>1, <2>2
<1>11. OpFits'
  BY <1>1, BootFits
<1> QED BY <1>4, <1>5, <1>6, <1>7, <1>8, <1>9, <1>10, <1>11 DEF Inv

\* An operation that is through with its records has saved what it returns.
LEMMA DoneSaved ==
  ASSUME OpFits, op.pc = "run", op.todo = <<>>
  PROVE  Saved(op.done)
<1>1. IsCreatingTable \/ IsCreatingIndex \/ IsCounting
  BY OpFitsIs
<1>2. Len(op.todo) = 0
  OBVIOUS
<1>3. CASE IsCreatingTable
  <2>1. PICK n \in TableNames, o \in Oids, c \in Nat : CreatingTable(n, o, c)
    BY <1>3 DEF IsCreatingTable
  <2>2. /\ op.done = <<"table", n, o, c>>
        /\ TableSaved(n, o) /\ ColumnsSaved(o) /\ 0 + Len(ColumnsOf(o)) = c
    <3>1. 0 # c + 1
      OBVIOUS
    <3> QED BY <1>2, <2>1, <3>1 DEF CreatingTable, TableAhead, ColumnsAhead
  <2>3. Len(ColumnsOf(o)) = c
    BY <2>2
  <2> QED BY <2>2, <2>3 DEF Saved
<1>4. CASE IsCreatingIndex
  <2>1. PICK n \in IndexNames, x \in Oids, o \in Oids, p \in Nat : CreatingIndex(n, x, o, p)
    BY <1>4 DEF IsCreatingIndex
  <2>2. op.done = <<"index", n, x, o>> /\ IndexSaved(n, x, o)
    BY <1>2, <2>1 DEF CreatingIndex
  <2> QED BY <2>2 DEF Saved
<1>5. CASE IsCounting
  <2>1. PICK n \in TableNames, t \in TableRec : t.name = n /\ Counting(n, t)
    BY <1>5 DEF IsCounting
  <2>2. op.done = <<"count", n, t.oid, t.pages>> /\ CountSaved(n, t.pages) /\ t.pages \in Nat
    BY <1>2, <2>1 DEF Counting, TableRec
  <2> QED BY <2>2 DEF Saved
<1> QED BY <1>1, <1>3, <1>4, <1>5

LEMMA ReturnStep ==
  ASSUME Inv, Return
  PROVE  Inv'
<1>1. /\ pool' = pool /\ file' = file /\ op' = Idle /\ op.todo = <<>>
      /\ acked' = acked \cup (IF op.pc = "run" THEN {op.done} ELSE {})
      /\ mem' = IF op.pc = "boot" THEN recomputeNextOids(mem) ELSE mem
  BY DEF Return
<1>2. PagesFit /\ MapsFit(mem) /\ RecordsFit /\ Anchored /\ NoGap /\ OpFits
  BY DEF Inv
<1>3. /\ mem'.tablesByName = mem.tablesByName
      /\ mem'.columnsByTableOid = mem.columnsByTableOid
      /\ mem'.indexesByName = mem.indexesByName
      /\ mem'.indexesByTableOid = mem.indexesByTableOid
      /\ MapsFit(mem')
  <2>1. CASE op.pc = "boot"
    <3>1. PICK k : k = recomputeNextOids(mem)
      OBVIOUS
    <3>2. PICK m : m = mem
      OBVIOUS
    <3>3. IsRecord(m) /\ Agree(m) /\ Linked(m) /\ m.next \in [Files -> Oids] /\ Below(m, m.next)
      BY <1>2, <3>2 DEF MapsFit
    <3>4. k = recomputeNextOids(m)
      BY <3>1, <3>2
    <3>5. MapsFit(k)
      BY <3>3, <3>4, RecomputeFits
    <3>6. /\ k.tablesByName = m.tablesByName /\ k.columnsByTableOid = m.columnsByTableOid
          /\ k.indexesByName = m.indexesByName /\ k.indexesByTableOid = m.indexesByTableOid
      BY <3>3, <3>4, RecomputeIs
    <3> QED BY <1>1, <2>1, <3>1, <3>2, <3>5, <3>6
  <2>2. CASE op.pc # "boot"
    BY <1>1, <1>2, <2>2
  <2> QED BY <2>1, <2>2
<1>4. PagesFit'
  BY <1>1, <1>2 DEF PagesFit
<1>5. RecordsFit'
  BY <1>1, <1>2, <1>3 DEF RecordsFit, Known, TableKnown, ColumnKnown, IndexKnown
<1>6. Anchored'
  BY <1>1, <1>2, <1>3 DEF Anchored, HasTable
<1>7. NoGap'
  BY <1>1, <1>2 DEF NoGap
<1>8. \A a \in acked' : Saved(a)'
  <2>1. Kept4
    BY <1>1 DEF Kept4, Keeps
  <2>2. \A o : ColumnsOf(o)' = ColumnsOf(o)
    BY <1>3 DEF ColumnsOf
  <2>3. ASSUME NEW a, Saved(a) PROVE Saved(a)'
    BY <2>1, <2>2, <2>3, SavedStays
  <2>4. ASSUME NEW a \in acked' PROVE Saved(a)
    <3>1. a \in acked \/ (op.pc = "run" /\ a = op.done)
      BY <1>1
    <3> QED BY <1>1, <1>2, <3>1, DoneSaved DEF Inv
  <2> QED BY <2>3, <2>4
<1>9. OpFits'
  BY <1>1, IdleFits
<1> QED BY <1>3, <1>4, <1>5, <1>6, <1>7, <1>8, <1>9 DEF Inv

\* An operation starts: all that changes is that it runs.
LEMMA StartKeeps ==
  ASSUME Inv, UNCHANGED <<mem, file, pool, acked>>, OpFits'
  PROVE  Inv'
<1>1. mem' = mem /\ file' = file /\ pool' = pool /\ acked' = acked
  OBVIOUS
<1>2. PagesFit'
  BY <1>1 DEF Inv, PagesFit
<1>3. MapsFit(mem)' /\ RecordsFit'
  BY <1>1 DEF Inv, RecordsFit
<1>4. Anchored'
  BY <1>1 DEF Inv, Anchored, HasTable
<1>5. NoGap'
  BY <1>1 DEF Inv, NoGap
<1>6. \A a \in acked' : Saved(a)'
  <2>1. Kept4
    BY <1>1 DEF Kept4, Keeps
  <2>2. \A o : ColumnsOf(o)' = ColumnsOf(o)
    BY <1>1 DEF ColumnsOf
  <2>3. ASSUME NEW a \in acked PROVE Saved(a)'
    <3>1. Saved(a)
      BY DEF Inv
    <3> QED BY <2>1, <2>2, <3>1, SavedStays
  <2> QED BY <1>1, <2>3
<1> QED BY <1>1, <1>2, <1>3, <1>4, <1>5, <1>6 DEF Inv

LEMMA RunningIs ==
  ASSUME NEW todo \in Seq(Todo), NEW done, op' = Running(todo, done),
         IsCreatingTable' \/ IsCreatingIndex' \/ IsCounting'
  PROVE  OpFits'
<1>1. /\ op'.pc = "run" /\ op'.todo = todo /\ op'.done = done
      /\ op' = [pc |-> op'.pc, todo |-> op'.todo, done |-> op'.done]
  BY DEF Running
<1>2. OpShape'
  BY <1>1 DEF OpShape
<1> QED BY <1>2 DEF OpFits, OpShape, IsCreatingTable, IsCreatingIndex, IsCounting

LEMMA TableOf ==
  ASSUME Inv, NEW n \in DOMAIN mem.tablesByName
  PROVE  /\ mem.tablesByName[n] \in TableRec /\ mem.tablesByName[n].name = n
         /\ mem.tablesByName[n].oid \in DOMAIN mem.tablesByOid
         /\ mem.tablesByOid[mem.tablesByName[n].oid] = mem.tablesByName[n]
BY DEF Inv, MapsFit, Agree, TablesAgree

LEMMA NextIs ==
  ASSUME Inv, NEW f \in Files
  PROVE  mem.next[f] \in Oids
BY DEF Inv, MapsFit

LEMMA CreateTableStep ==
  ASSUME Inv, NEW n \in TableNames, NEW c \in 1 .. MaxColumns, CreateTable(n, c)
  PROVE  Inv'
<1>1. UNCHANGED <<mem, file, pool, acked>> /\ n \notin DOMAIN mem.tablesByName
  BY DEF CreateTable
<1>2. PICK o : o = mem.next["tables"]
  OBVIOUS
<1>3. o \in Oids /\ c \in Nat
  BY <1>2, NextIs, BoundsAssumption, RecIs
<1>4. PICK head, cols, todo :
        /\ head = <<"tables", [oid |-> 0, name |-> n, pages |-> 0]>>
        /\ cols = [i \in 1 .. c |-> NewColumn(o, i - 1)]
        /\ todo = <<head>> \o cols
  OBVIOUS
<1>5. op' = Running(todo, <<"table", n, o, c>>)
  BY <1>2, <1>4 DEF CreateTable, NewColumn
<1>6. head \in Todo
  BY <1>4 DEF Todo
<1>7. cols \in Seq(Todo) /\ Len(cols) = c
  <2>1. ASSUME NEW i \in 1 .. c PROVE NewColumn(o, i - 1) \in Todo
    <3>1. i - 1 \in Nat
      BY <1>3
    <3> QED BY <1>3, <3>1 DEF NewColumn, Todo
  <2> QED BY <1>3, <1>4, <2>1
<1>8. /\ todo \in Seq(Todo) /\ Len(todo) = c + 1 /\ todo[1] = head
      /\ \A i \in 1 .. c : todo[i + 1] = NewColumn(o, i - 1)
  <2>1. <<head>> \in Seq(Todo) /\ Len(<<head>>) = 1 /\ <<head>>[1] = head
    BY <1>6
  <2>2. /\ todo \in Seq(Todo) /\ Len(todo) = 1 + c
        /\ \A i \in 1 .. 1 + c : todo[i] = IF i <= 1 THEN <<head>>[i] ELSE cols[i - 1]
    BY ONLY <1>4, <1>7, <2>1, ConcatProperties
  <2>3. todo[1] = head
    BY <1>3, <2>1, <2>2
  <2>4. ASSUME NEW i \in 1 .. c PROVE todo[i + 1] = NewColumn(o, i - 1)
    <3>1. i + 1 \in 1 .. 1 + c /\ ~(i + 1 <= 1) /\ i + 1 - 1 = i
      BY <1>3
    <3>2. todo[i + 1] = cols[i]
      BY <2>2, <3>1
    <3> QED BY <1>4, <3>2
  <2> QED BY <1>3, <2>2, <2>3, <2>4
<1>9. CreatingTable(n, o, c)'
  <2>1. op'.todo = todo /\ op'.done = <<"table", n, o, c>>
    BY <1>5 DEF Running
  <2> QED BY <1>1, <1>2, <1>4, <1>8, <2>1 DEF CreatingTable, TableAhead, ColumnsAhead
<1>10. IsCreatingTable'
  BY <1>3, <1>9 DEF IsCreatingTable
<1>11. OpFits'
  BY <1>5, <1>8, <1>10, RunningIs
<1> QED BY <1>1, <1>11, StartKeeps

LEMMA CreateIndexStep ==
  ASSUME Inv, NEW n \in IndexNames, NEW t \in TableNames, NEW p \in 0 .. MaxColumns - 1,
         CreateIndex(n, t, p)
  PROVE  Inv'
<1>1. /\ UNCHANGED <<mem, file, pool, acked>> /\ n \notin DOMAIN mem.indexesByName
      /\ t \in DOMAIN mem.tablesByName
  BY DEF CreateIndex
<1>2. PICK o, x : o = mem.tablesByName[t].oid /\ x = mem.next["indexes"]
  OBVIOUS
<1>3. o \in Oids /\ x \in Oids /\ p \in Nat
  <2>1. o \in Oids
    BY <1>1, <1>2, TableOf DEF TableRec
  <2>2. x \in Oids
    BY <1>2, NextIs, RecIs
  <2> QED BY <2>1, <2>2, BoundsAssumption
<1>4. PICK todo :
        todo = << <<"indexes", [oid |-> 0, name |-> n, table |-> o, position |-> p]>> >>
  OBVIOUS
<1>5. op' = Running(todo, <<"index", n, x, o>>)
  BY <1>2, <1>4 DEF CreateIndex
<1>6. todo \in Seq(Todo)
  <2>1. <<"indexes", [oid |-> 0, name |-> n, table |-> o, position |-> p]>> \in Todo
    BY <1>3 DEF Todo
  <2> QED BY <1>4, <2>1
<1>7. o \in DOMAIN mem.columnsByTableOid
  <2>1. \E c \in ToSet(ListOf(mem.columnsByTableOid, o)) : c.position = p
    BY <1>2 DEF CreateIndex
  <2>2. ToSet(<<>>) = {}
    BY DEF ToSet
  <2> QED BY <2>1, <2>2 DEF ListOf
<1>8. CreatingIndex(n, x, o, p)'
  <2>1. op'.todo = todo /\ op'.done = <<"index", n, x, o>>
    BY <1>5 DEF Running
  <2> QED BY <1>1, <1>2, <1>4, <1>7, <2>1 DEF CreatingIndex
<1>9. IsCreatingIndex'
  BY <1>3, <1>8 DEF IsCreatingIndex
<1>10. OpFits'
  BY <1>5, <1>6, <1>9, RunningIs
<1> QED BY <1>1, <1>10, StartKeeps

LEMMA UpdatePagesCountStep ==
  ASSUME Inv, NEW n \in TableNames, UpdatePagesCount(n)
  PROVE  Inv'
<1>1. UNCHANGED <<mem, file, pool, acked>> /\ n \in DOMAIN mem.tablesByName
  BY DEF UpdatePagesCount
<1>2. PICK t, u : t = mem.tablesByName[n] /\ u = [t EXCEPT !.pages = @ + 1]
  OBVIOUS
<1>3. t \in TableRec /\ t.name = n
  BY <1>1, <1>2, TableOf
<1>4. u \in TableRec /\ u.name = n /\ u.oid = t.oid /\ u.pages = t.pages + 1 /\ t.pages < u.pages
  BY <1>2, <1>3 DEF TableRec
<1>5. PICK todo : todo = << <<"tables", u>> >>
  OBVIOUS
<1>6. op' = Running(todo, <<"count", n, u.oid, u.pages>>)
  <2>1. op' = Running(<< <<"tables", [t EXCEPT !.pages = @ + 1]>> >>,
                      <<"count", n, t.oid, t.pages + 1>>)
    BY <1>2 DEF UpdatePagesCount
  <2> QED BY <1>2, <1>4, <1>5, <2>1
<1>7. todo \in Seq(Todo)
  <2>1. <<"tables", u>> \in Todo
    BY <1>4 DEF Todo, TableRec, Oids
  <2> QED BY <1>5, <2>1
<1>8. Counting(n, u)'
  <2>1. op'.todo = todo /\ op'.done = <<"count", n, u.oid, u.pages>>
    BY <1>6 DEF Running
  <2> QED BY <1>1, <1>2, <1>4, <1>5, <2>1 DEF Counting
<1>9. IsCounting'
  BY <1>4, <1>8 DEF IsCounting
<1>10. OpFits'
  BY <1>6, <1>7, <1>9, RunningIs
<1> QED BY <1>1, <1>10, StartKeeps

-----------------------------------------------------------------------------
(* The next record gets its oid, enters the maps and is appended. *)

SameMaps(m, k) ==
  /\ m.typesByName = k.typesByName
  /\ m.tablesByOid = k.tablesByOid /\ m.tablesByName = k.tablesByName
  /\ m.columnsByTableOid = k.columnsByTableOid
  /\ m.indexesByName = k.indexesByName /\ m.indexesByTableOid = k.indexesByTableOid

\* m is the maps once the oid is given out, before the record enters them.
Counts(m, f, b) ==
  /\ m.next \in [Files -> Oids]
  /\ m.next[f] = IF b THEN mem.next[f] + 1 ELSE mem.next[f]
  /\ \A h \in Files : h # f => m.next[h] = mem.next[h]
Entering(m, f, b) == SameMaps(m, mem) /\ IsRecord(m) /\ Counts(m, f, b) /\ Kept(mem', m, f)

LEMMA Enters ==
  ASSUME Inv, NEW f \in Files, NEW d, NEW b \in BOOLEAN,
         mem' = Index([mem EXCEPT !.next[f] = IF b THEN @ + 1 ELSE @], f, d)
  PROVE  \E m : mem' = Index(m, f, d) /\ Entering(m, f, b)
<1>1. IsRecord(mem) /\ mem.next \in [Files -> Oids]
  BY DEF Inv, MapsFit
<1>2. PICK nx : nx = [mem.next EXCEPT ![f] = IF b THEN @ + 1 ELSE @]
  OBVIOUS
<1>3. PICK m : m = [mem EXCEPT !.next[f] = IF b THEN @ + 1 ELSE @]
  OBVIOUS
<1>4. m = [mem EXCEPT !.next = nx]
  BY <1>2, <1>3
<1>5. IsRecord(m) /\ SameMaps(m, mem) /\ m.next = nx
  BY <1>1, <1>4 DEF IsRecord, Maps, SameMaps
<1>6. /\ nx \in [Files -> Oids]
      /\ nx[f] = IF b THEN mem.next[f] + 1 ELSE mem.next[f]
      /\ \A h \in Files : h # f => nx[h] = mem.next[h]
  BY <1>1, <1>2 DEF Oids
<1>7. mem' = Index(m, f, d)
  BY <1>3
<1>8. Kept(mem', m, f)
  BY <1>5, <1>7, IndexKeeps
<1> QED BY <1>5, <1>6, <1>7, <1>8 DEF Entering, Counts

LEMMA SameAgree ==
  ASSUME NEW m, NEW k, SameMaps(m, k), Agree(k)
  PROVE  Agree(m)
BY DEF SameMaps, Agree, TypesAgree, TablesAgree, ColumnsAgree, IndexesAgree

LEMMA OtherAgree ==
  ASSUME NEW m, NEW k, NEW f \in Files, Agree(m), Kept(k, m, f)
  PROVE  /\ f # "types" => TypesAgree(k)
         /\ f # "tables" => TablesAgree(k)
         /\ f # "columns" => ColumnsAgree(k)
         /\ f # "indexes" => IndexesAgree(k)
<1>1. ASSUME f # "types" PROVE TypesAgree(k)
  BY <1>1 DEF Kept, Agree, TypesAgree
<1>2. ASSUME f # "tables" PROVE TablesAgree(k)
  BY <1>2 DEF Kept, Agree, TablesAgree
<1>3. ASSUME f # "columns" PROVE ColumnsAgree(k)
  BY <1>3 DEF Kept, Agree, ColumnsAgree
<1>4. ASSUME f # "indexes" PROVE IndexesAgree(k)
  BY <1>4 DEF Kept, Agree, IndexesAgree
<1> QED BY <1>1, <1>2, <1>3, <1>4

LEMMA OtherDefinitions ==
  ASSUME NEW m, NEW k, NEW f \in Files, NEW h \in Files, h # f,
         Kept(k, m, f), NEW l, SameMaps(m, l)
  PROVE  DefinitionsOf(k, h) = DefinitionsOf(l, h)
<1>1. CASE h = "types"
  <2>1. k.typesByName = l.typesByName
    BY <1>1 DEF Kept, SameMaps
  <2> QED BY <1>1, <2>1 DEF DefinitionsOf
<1>2. CASE h = "tables"
  <2>1. k.tablesByOid = l.tablesByOid
    BY <1>2 DEF Kept, SameMaps
  <2> QED BY <1>2, <2>1 DEF DefinitionsOf
<1>3. CASE h = "columns"
  <2>1. k.columnsByTableOid = l.columnsByTableOid
    BY <1>3 DEF Kept, SameMaps
  <2> QED BY <1>3, <2>1 DEF DefinitionsOf
<1>4. CASE h = "indexes"
  <2>1. k.indexesByName = l.indexesByName
    BY <1>4 DEF Kept, SameMaps
  <2> QED BY <1>4, <2>1 DEF DefinitionsOf
<1> QED BY <1>1, <1>2, <1>3, <1>4 DEF Files

LEMMA EntersFit ==
  ASSUME Inv, NEW f \in Files, NEW d, NEW b \in BOOLEAN, NEW m, Entering(m, f, b),
         Agree(mem'), Linked(mem'), d.oid < m.next[f],
         \A e \in DefinitionsOf(mem', f) : e \in DefinitionsOf(mem, f) \/ e = d
  PROVE  MapsFit(mem')
<1>1. mem.next \in [Files -> Oids] /\ Below(mem, mem.next) /\ Agree(mem)
  BY DEF Inv, MapsFit
<1>2. /\ IsRecord(mem') /\ mem'.next = m.next /\ m.next \in [Files -> Oids]
      /\ \A h \in Files : m.next[h] = mem.next[h] \/ m.next[h] = mem.next[h] + 1
      /\ \A h \in Files : h # f => m.next[h] = mem.next[h]
  BY DEF Entering, Counts, Kept
<1>3. ASSUME NEW h \in Files, NEW e \in DefinitionsOf(mem', h) PROVE e.oid < m.next[h]
  <2>1. CASE h = f /\ e = d
    BY <2>1
  <2>2. CASE e \in DefinitionsOf(mem, h)
    <3>1. e.oid < mem.next[h] /\ e.oid \in Oids
      BY <1>1, <2>2, OidsAre DEF Below
    <3>2. mem.next[h] \in Nat /\ e.oid \in Nat
      BY <1>1, <3>1 DEF Oids
    <3> QED BY <1>2, <3>1, <3>2
  <2>3. CASE h # f
    <3>1. DefinitionsOf(mem', h) = DefinitionsOf(mem, h)
      BY <2>3, OtherDefinitions DEF Entering
    <3> QED BY <2>2, <3>1
  <2> QED BY <2>1, <2>2, <2>3
<1>4. Below(mem', mem'.next)
  BY <1>2, <1>3 DEF Below
<1> QED BY <1>2, <1>4 DEF MapsFit

\* The pages once the record d of file f is appended, or is not.
LEMMA Appended ==
  ASSUME Inv, NEW f \in Files, NEW d \in Rec[f], AppendDone(f, d) \/ AppendFails(f, d)
  PROVE  /\ PagesFit' /\ Kept4
         /\ \A h \in Files : h # f => pool'[h] = pool[h]
         /\ \A e : In(e, pool'[f]) => In(e, pool[f]) \/ e = d
         /\ (\A e : In(e, pool[f]) => Follows(f, e, d)) =>
              \A h \in Files : InOrder(h, pool'[h])
         /\ AppendDone(f, d) => In(d, file'[f])
<1>0. PagesFit /\ \A h \in Files : InOrder(h, pool[h])
  BY DEF Inv, RecordsFit
<1>1. /\ PagesFit'
      /\ \A h \in Files : h # f => pool'[h] = pool[h]
      /\ \A h \in Files : Keeps(file[h], file'[h])
      /\ pool'[f] = pool[f] \/ Grows(pool[f], pool'[f], d)
      /\ AppendDone(f, d) => In(d, file'[f])
  BY <1>0, AppendPages
<1>2. PICK R, P, Q : R = Rec[f] /\ P = pool[f] /\ Q = pool'[f]
  OBVIOUS
<1>3. P \in Seq(Seq(R)) /\ d \in R
  BY <1>0, <1>2 DEF PagesFit
<1>4. Q = P \/ Grows(P, Q, d)
  BY <1>1, <1>2
<1>5. \A e : In(e, Q) => In(e, P) \/ e = d
  <2>1. CASE Q = P
    BY <2>1
  <2>2. CASE Grows(P, Q, d)
    BY <1>3, <2>2, GrowsIn
  <2> QED BY <1>4, <2>1, <2>2
<1>6. ASSUME \A e : In(e, P) => Follows(f, e, d) PROVE InOrder(f, Q)
  <2>1. InOrder(f, P)
    BY <1>0, <1>2
  <2>2. CASE Q = P
    BY <2>1, <2>2
  <2>3. CASE Grows(P, Q, d)
    BY <1>3, <1>6, <2>1, <2>3, GrowsInOrder
  <2> QED BY <1>4, <2>2, <2>3
<1>7. ASSUME \A e : In(e, pool[f]) => Follows(f, e, d)
      PROVE  \A h \in Files : InOrder(h, pool'[h])
  <2>1. InOrder(f, pool'[f])
    BY <1>2, <1>6, <1>7
  <2> QED BY <1>0, <1>1, <2>1
<1>8. \A e : In(e, pool'[f]) => In(e, pool[f]) \/ e = d
  BY <1>2, <1>5
<1> QED BY <1>1, <1>7, <1>8 DEF Kept4

KnownTo(f, d, m) ==
  /\ f = "tables" => TableKnown(d, m)
  /\ f = "columns" => ColumnKnown(d, m)
  /\ f = "indexes" => IndexKnown(d, m)
AllFollowed(f, d) == \A e : In(e, pool[f]) => Follows(f, e, d)
AckedColumnsStay ==
  \A a \in acked : a[1] = "table" => ColumnsOf(a[3])' = ColumnsOf(a[3])

\* What is left to show of a record that enters the maps and is appended.
LEMMA AppendedFits ==
  ASSUME Inv, NEW f \in Files, NEW d \in Rec[f], AppendDone(f, d) \/ AppendFails(f, d),
         acked' = acked, MapsFit(mem'), Known(pool, mem'), KnownTo(f, d, mem'),
         AllFollowed(f, d), Anchored', f = "columns" => Preceded(file["columns"], d),
         AckedColumnsStay, OpFits'
  PROVE  Inv'
<1>1. /\ PagesFit' /\ Kept4
      /\ \A h \in Files : h # f => pool'[h] = pool[h]
      /\ \A e : In(e, pool'[f]) => In(e, pool[f]) \/ e = d
      /\ AllFollowed(f, d) => \A h \in Files : InOrder(h, pool'[h])
  <2>1. PagesFit' /\ Kept4
    BY Appended
  <2>2. \A h \in Files : h # f => pool'[h] = pool[h]
    BY Appended
  <2>3. \A e : In(e, pool'[f]) => In(e, pool[f]) \/ e = d
    BY Appended
  <2>4. AllFollowed(f, d) => \A h \in Files : InOrder(h, pool'[h])
    BY Appended DEF AllFollowed
  <2> QED BY <2>1, <2>2, <2>3, <2>4
<1>2. ASSUME NEW h \in Files, NEW e, In(e, pool'[h])
      PROVE  In(e, pool[h]) \/ (h = f /\ e = d)
  BY <1>1, <1>2
<1>3. Known(pool', mem')
  <2>1. /\ \A e : In(e, pool["tables"]) => TableKnown(e, mem')
        /\ \A e : In(e, pool["columns"]) => ColumnKnown(e, mem')
        /\ \A e : In(e, pool["indexes"]) => IndexKnown(e, mem')
    BY KnownIn
  <2>2. ASSUME NEW e, In(e, pool'["tables"]) PROVE TableKnown(e, mem')
    BY <1>2, <2>1, <2>2, RecIs DEF KnownTo
  <2>3. ASSUME NEW e, In(e, pool'["columns"]) PROVE ColumnKnown(e, mem')
    BY <1>2, <2>1, <2>3, RecIs DEF KnownTo
  <2>4. ASSUME NEW e, In(e, pool'["indexes"]) PROVE IndexKnown(e, mem')
    BY <1>2, <2>1, <2>4, RecIs DEF KnownTo
  <2> QED BY <2>2, <2>3, <2>4, KnownIn
<1>4. RecordsFit'
  BY <1>1, <1>3 DEF RecordsFit
<1>5. NoGap'
  <2>1. ASSUME NEW p \in DOMAIN pool'["columns"], NEW i \in DOMAIN pool'["columns"][p]
        PROVE  Preceded(file'["columns"], pool'["columns"][p][i])
    <3>1. PICK e : e = pool'["columns"][p][i]
      OBVIOUS
    <3>2. In(e, pool'["columns"])
      BY <3>1 DEF In
    <3>3. In(e, pool["columns"]) \/ (f = "columns" /\ e = d)
      BY <1>2, <3>2, RecIs
    <3>4. NoGap
      BY DEF Inv
    <3>5. Preceded(file["columns"], e)
      BY <3>3, <3>4, NoGapIn
    <3> QED BY <1>1, <3>1, <3>5, StaysSaved
  <2> QED BY <2>1 DEF NoGap
<1>6. \A a \in acked' : Saved(a)'
  <2>1. ASSUME NEW a \in acked PROVE Saved(a)'
    <3>1. Saved(a)
      BY DEF Inv
    <3>2. a[1] = "table" => ColumnsOf(a[3])' = ColumnsOf(a[3])
      BY DEF AckedColumnsStay
    <3> QED BY <1>1, <3>1, <3>2, SavedStays
  <2> QED BY <2>1
<1> QED BY <1>1, <1>4, <1>5, <1>6 DEF Inv

\* The record is appended, or the operation ends.
OpEnds == op' = IF op.pc = "boot" THEN [op EXCEPT !.pc = "down", !.todo = <<>>] ELSE Idle
OpGoesOn == op' = [op EXCEPT !.todo = Tail(@)]

LEMMA OpEndsFits ==
  ASSUME OpFits, OpEnds
  PROVE  OpFits'
<1>1. CASE op.pc = "boot"
  <2>1. op = [pc |-> op.pc, todo |-> op.todo, done |-> op.done]
    BY DEF OpFits
  <2>2. op' = [op EXCEPT !.pc = "down", !.todo = <<>>]
    BY <1>1 DEF OpEnds
  <2>3. /\ op'.pc = "down" /\ op'.todo = <<>> /\ op'.done = op.done
        /\ op' = [pc |-> op'.pc, todo |-> op'.todo, done |-> op'.done]
    BY <2>1, <2>2
  <2>4. OpShape'
    BY <2>3 DEF OpShape
  <2> QED BY <2>3, <2>4 DEF OpShape, OpFits
<1>2. CASE op.pc # "boot"
  BY <1>2, IdleFits DEF OpEnds
<1> QED BY <1>1, <1>2

LEMMA OpTail ==
  ASSUME OpFits, op.todo # <<>>
  PROVE  /\ Len(op.todo) \in Nat \ {0} /\ Head(op.todo) = op.todo[1]
         /\ op.pc \in {"run", "boot"}
         /\ OpGoesOn => /\ OpShape'
                        /\ op'.pc = op.pc /\ op'.done = op.done
                        /\ Len(op'.todo) = Len(op.todo) - 1
                        /\ \A i \in 1 .. Len(op.todo) - 1 : op'.todo[i] = op.todo[i + 1]
<1>1. PICK s : s = op.todo
  OBVIOUS
<1>2. /\ op = [pc |-> op.pc, todo |-> op.todo, done |-> op.done]
      /\ s \in Seq(Todo) /\ op.pc \in {"run", "boot"}
      /\ op.pc = "boot" => \A i \in DOMAIN s : \E n \in TypeNames :
                             s[i] = <<"types", [oid |-> 0, name |-> n]>>
  BY <1>1 DEF OpFits
<1>3. s # <<>>
  BY <1>1
<1>4. /\ Len(s) \in Nat \ {0} /\ Head(s) = s[1] /\ DOMAIN s = 1 .. Len(s)
      /\ Tail(s) \in Seq(Todo) /\ Len(Tail(s)) = Len(s) - 1
      /\ DOMAIN Tail(s) = 1 .. Len(s) - 1
      /\ \A i \in 1 .. Len(s) - 1 : Tail(s)[i] = s[i + 1]
  <2>1. s \in Seq(Todo)
    BY <1>2
  <2> HIDE <1>2
  <2> QED BY <1>3, <2>1
<1>5. ASSUME OpGoesOn
      PROVE  /\ OpShape'
             /\ op'.pc = op.pc /\ op'.done = op.done
             /\ Len(op'.todo) = Len(s) - 1
             /\ \A i \in 1 .. Len(s) - 1 : op'.todo[i] = s[i + 1]
  <2>1. op' = [op EXCEPT !.todo = Tail(s)]
    BY <1>1, <1>5 DEF OpGoesOn
  <2>2. /\ op'.pc = op.pc /\ op'.done = op.done /\ op'.todo = Tail(s)
        /\ op' = [pc |-> op'.pc, todo |-> op'.todo, done |-> op'.done]
    BY <1>2, <2>1
  <2>3. ASSUME op.pc = "boot", NEW i \in DOMAIN Tail(s)
        PROVE  \E n \in TypeNames : Tail(s)[i] = <<"types", [oid |-> 0, name |-> n]>>
    <3>1. Tail(s)[i] = s[i + 1] /\ i + 1 \in DOMAIN s
      BY <1>4
    <3> QED BY <1>2, <2>3, <3>1
  <2>4. OpShape'
    BY <1>2, <1>4, <2>2, <2>3 DEF OpShape
  <2> QED BY <1>4, <2>2, <2>4
<1> QED BY <1>1, <1>2, <1>4, <1>5

LEMMA ShapeFits ==
  ASSUME OpShape', op'.pc = "run" => IsCreatingTable' \/ IsCreatingIndex' \/ IsCounting'
  PROVE  OpFits'
BY DEF OpFits, OpShape, IsCreatingTable, IsCreatingIndex, IsCounting

Appends(f, b, d) ==
  /\ mem' = Index([mem EXCEPT !.next[f] = IF b THEN @ + 1 ELSE @], f, d)
  /\ \/ AppendDone(f, d) /\ OpGoesOn
     \/ AppendFails(f, d) /\ OpEnds
  /\ acked' = acked

LEMMA AppendNextIs ==
  ASSUME AppendNext, NEW f, NEW e, Head(op.todo) = <<f, e>>, NEW b \in BOOLEAN, b <=> e.oid = 0,
         NEW d, d = [e EXCEPT !.oid = IF e.oid = 0 THEN mem.next[f] ELSE @]
  PROVE  Appends(f, b, d) /\ op.todo # <<>>
<1>1. Head(op.todo)[1] = f /\ Head(op.todo)[2] = e
  OBVIOUS
<1>2. mem' = Index([mem EXCEPT !.next[f] = IF e.oid = 0 THEN @ + 1 ELSE @], f, d)
  BY <1>1 DEF AppendNext
<1>3. \/ AppendDone(f, d) /\ OpGoesOn
      \/ AppendFails(f, d) /\ OpEnds
  BY <1>1 DEF AppendNext, OpGoesOn, OpEnds
<1>4. acked' = acked /\ op.todo # <<>>
  BY DEF AppendNext
<1> QED BY <1>2, <1>3, <1>4 DEF Appends

\* A built-in type at boot.
LEMMA TypeStep ==
  ASSUME Inv, AppendNext, op.pc = "boot"
  PROVE  Inv'
<1>0. OpFits /\ op.todo # <<>> /\ MapsFit(mem) /\ Agree(mem) /\ RecordsFit /\ Anchored
  BY DEF Inv, MapsFit, AppendNext
<1>1. PICK n \in TypeNames : Head(op.todo) = <<"types", [oid |-> 0, name |-> n]>>
  <2>1. Len(op.todo) \in Nat \ {0} /\ Head(op.todo) = op.todo[1] /\ op.todo \in Seq(Todo)
    BY <1>0, OpTail DEF OpFits
  <2>2. 1 \in DOMAIN op.todo
    BY <2>1
  <2> QED BY <1>0, <2>1, <2>2 DEF OpFits
<1>2. PICK e : e = [oid |-> 0, name |-> n]
  OBVIOUS
<1>3. PICK d : d = [e EXCEPT !.oid = IF e.oid = 0 THEN mem.next["types"] ELSE @]
  OBVIOUS
<1>4. d = [oid |-> mem.next["types"], name |-> n] /\ (TRUE <=> e.oid = 0)
  BY <1>2, <1>3
<1>5. d \in TypeRec /\ d.oid = mem.next["types"] /\ mem.next["types"] \in Nat
  BY <1>4, NextIs, RecIs DEF TypeRec, Oids
<1>6. Appends("types", TRUE, d)
  <2>1. Head(op.todo) = <<"types", e>>
    BY <1>1, <1>2
  <2> QED BY <1>3, <1>4, <2>1, AppendNextIs
<1>7. PICK m : mem' = Index(m, "types", d) /\ Entering(m, "types", TRUE)
  BY <1>6, RecIs, Enters DEF Appends
<1>8. SameMaps(m, mem) /\ IsRecord(m) /\ Kept(mem', m, "types")
      /\ m.next["types"] = mem.next["types"] + 1
  BY <1>7 DEF Entering, Counts
<1>9. Agree(m)
  BY <1>0, <1>8, SameAgree
<1>10. Agree(mem')
  <2>1. TypesAgree(mem')
    BY <1>5, <1>7, <1>8, <1>9, TypePut DEF Agree
  <2>2. TablesAgree(mem') /\ ColumnsAgree(mem') /\ IndexesAgree(mem')
    BY <1>8, <1>9, OtherAgree, RecIs
  <2> QED BY <2>1, <2>2 DEF Agree
<1>11. /\ mem'.tablesByOid = mem.tablesByOid /\ mem'.tablesByName = mem.tablesByName
       /\ mem'.columnsByTableOid = mem.columnsByTableOid
       /\ mem'.indexesByName = mem.indexesByName
       /\ mem'.indexesByTableOid = mem.indexesByTableOid
  BY <1>8 DEF Kept, SameMaps
<1>12. MapsFit(mem')
  <2>1. Linked(mem')
    BY <1>0, <1>11 DEF MapsFit, Linked
  <2>2. d.oid < m.next["types"]
    BY <1>5, <1>8
  <2>3. ASSUME NEW x \in DefinitionsOf(mem', "types")
        PROVE  x \in DefinitionsOf(mem, "types") \/ x = d
    <3>1. mem'.typesByName = Put(mem.typesByName, d.name, d)
      BY <1>7, <1>8 DEF Index, indexType, IsRecord, Maps, SameMaps
    <3>2. x \in Elements(mem'.typesByName)
      BY DEF DefinitionsOf
    <3>3. x \in Elements(mem.typesByName) \/ x = d
      BY <3>1, <3>2 DEF Elements, Put
    <3> QED BY <3>3 DEF DefinitionsOf
  <2> QED BY <1>7, <1>10, <2>1, <2>2, <2>3, EntersFit, RecIs
<1>13. Known(pool, mem')
  BY <1>0, <1>11 DEF RecordsFit, Known, TableKnown, ColumnKnown, IndexKnown
<1>14. KnownTo("types", d, mem') /\ AllFollowed("types", d)
  BY DEF KnownTo, AllFollowed, Follows
<1>15. \A o : ColumnsOf(o)' = ColumnsOf(o)
  BY <1>11 DEF ColumnsOf
<1>16. AppendDone("types", d) \/ AppendFails("types", d)
  BY <1>6 DEF Appends
<1>17. d \in Rec["types"] /\ "types" \in Files
  BY <1>5, RecIs
<1>18. Anchored'
  <2>1. Kept4
    BY <1>16, <1>17, Appended
  <2> QED BY <1>0, <1>11, <2>1, StaysSaved DEF Anchored
<1>19. AckedColumnsStay
  BY <1>15 DEF AckedColumnsStay
<1>20. OpFits'
  <2>1. CASE OpGoesOn
    <3>1. OpShape' /\ op'.pc = "boot"
      BY <1>0, <2>1, OpTail
    <3> QED BY <3>1, ShapeFits
  <2>2. CASE OpEnds
    BY <1>0, <2>2, OpEndsFits
  <2> QED BY <1>6, <2>1, <2>2 DEF Appends
<1>21. acked' = acked
  BY <1>6 DEF Appends
<1> QED BY <1>12, <1>13, <1>14, <1>16, <1>17, <1>18, <1>19, <1>20, <1>21, AppendedFits

LEMMA InRec ==
  ASSUME Inv, NEW f \in Files, NEW e
  PROVE  /\ In(e, pool[f]) => e \in Rec[f]
         /\ In(e, file[f]) => e \in Rec[f]
<1>1. ASSUME NEW R, NEW P \in Seq(Seq(R)), In(e, P) PROVE e \in R
  <2>1. PICK p \in DOMAIN P : \E i \in DOMAIN P[p] : P[p][i] = e
    BY <1>1 DEF In
  <2>2. P[p] \in Seq(R)
    OBVIOUS
  <2> QED BY <2>1, <2>2
<1>2. pool[f] \in Seq(Seq(Rec[f])) /\ file[f] \in Seq(Seq(Rec[f]))
  BY DEF Inv, PagesFit
<1> QED BY <1>1, <1>2

LEMMA RecordKnown ==
  ASSUME Inv, NEW e
  PROVE  /\ In(e, pool["tables"]) => TableKnown(e, mem) /\ e \in TableRec
         /\ In(e, pool["columns"]) => ColumnKnown(e, mem) /\ e \in ColumnRec
         /\ In(e, pool["indexes"]) => IndexKnown(e, mem) /\ e \in IndexRec
         /\ In(e, file["tables"]) => TableKnown(e, mem) /\ e \in TableRec
         /\ In(e, file["columns"]) => ColumnKnown(e, mem) /\ e \in ColumnRec
         /\ In(e, file["indexes"]) => IndexKnown(e, mem) /\ e \in IndexRec
<1>1. Known(pool, mem) /\ Known(file, mem)
  BY FileKnown DEF Inv, RecordsFit
<1> QED BY <1>1, KnownIn, InRec, RecIs

LEMMA TableSavedIs ==
  ASSUME Inv, NEW n, NEW o, TableSaved(n, o)
  PROVE  /\ n \in DOMAIN mem.tablesByName /\ mem.tablesByName[n].oid = o
         /\ o \in DOMAIN mem.tablesByOid /\ mem.tablesByOid[o].name = n
<1>1. PICK d \in TableRec : d.name = n /\ d.oid = o /\ In(d, file["tables"])
  BY DEF TableSaved
<1>2. TableKnown(d, mem)
  BY <1>1, RecordKnown
<1>3. n \in DOMAIN mem.tablesByName /\ mem.tablesByName[n].oid = o
  BY <1>1, <1>2 DEF TableKnown
<1> QED BY <1>3, TableOf

\* The record of a table enters the maps, its first or one with more pages.
LEMMA TableEnters ==
  ASSUME Inv, NEW b \in BOOLEAN, NEW d \in TableRec, Appends("tables", b, d), OpFits',
         \A n \in DOMAIN mem.tablesByName : n = d.name <=> mem.tablesByName[n].oid = d.oid,
         \A n \in DOMAIN mem.tablesByName : n = d.name => mem.tablesByName[n].pages <= d.pages,
         d.oid < IF b THEN mem.next["tables"] + 1 ELSE mem.next["tables"]
  PROVE  Inv'
<1>0. Agree(mem) /\ Linked(mem) /\ Known(pool, mem) /\ Anchored
  BY DEF Inv, MapsFit, RecordsFit
<1>1. PICK m : mem' = Index(m, "tables", d) /\ Entering(m, "tables", b)
  BY RecIs, Enters DEF Appends
<1>2. SameMaps(m, mem) /\ IsRecord(m) /\ Kept(mem', m, "tables")
      /\ m.next["tables"] = IF b THEN mem.next["tables"] + 1 ELSE mem.next["tables"]
  BY <1>1 DEF Entering, Counts
<1>3. Agree(m)
  BY <1>0, <1>2, SameAgree
<1>4. m.tablesByName = mem.tablesByName /\ m.tablesByOid = mem.tablesByOid
  BY <1>2 DEF SameMaps
<1>5. /\ TablesAgree(mem')
      /\ DOMAIN mem'.tablesByName = DOMAIN mem.tablesByName \cup {d.name}
      /\ DOMAIN mem'.tablesByOid = DOMAIN mem.tablesByOid \cup {d.oid}
      /\ mem'.tablesByName[d.name] = d /\ mem'.tablesByOid[d.oid] = d
      /\ \A n \in DOMAIN mem.tablesByName : n # d.name => mem'.tablesByName[n] = mem.tablesByName[n]
      /\ \A o \in DOMAIN mem.tablesByOid : o # d.oid => mem'.tablesByOid[o] = mem.tablesByOid[o]
  <2>1. PICK k : k = mem'
    OBVIOUS
  <2>2. IsRecord(m) /\ TablesAgree(m) /\ k = Index(m, "tables", d)
    BY <1>1, <1>2, <1>3, <2>1 DEF Agree
  <2>3. \A n \in DOMAIN m.tablesByName : n = d.name <=> m.tablesByName[n].oid = d.oid
    BY <1>4
  <2>4. /\ TablesAgree(k)
        /\ DOMAIN k.tablesByName = DOMAIN m.tablesByName \cup {d.name}
        /\ DOMAIN k.tablesByOid = DOMAIN m.tablesByOid \cup {d.oid}
        /\ k.tablesByName[d.name] = d /\ k.tablesByOid[d.oid] = d
        /\ \A n \in DOMAIN m.tablesByName : n # d.name => k.tablesByName[n] = m.tablesByName[n]
        /\ \A o \in DOMAIN m.tablesByOid : o # d.oid => k.tablesByOid[o] = m.tablesByOid[o]
    BY <2>2, <2>3, TablePut
  <2> QED BY <1>4, <2>1, <2>4
<1>6. Agree(mem')
  <2>1. TypesAgree(mem') /\ ColumnsAgree(mem') /\ IndexesAgree(mem')
    BY <1>2, <1>3, OtherAgree, RecIs
  <2> QED BY <1>5, <2>1 DEF Agree
<1>7. /\ mem'.columnsByTableOid = mem.columnsByTableOid
      /\ mem'.indexesByName = mem.indexesByName
      /\ mem'.indexesByTableOid = mem.indexesByTableOid
  BY <1>2 DEF Kept, SameMaps
<1>8. MapsFit(mem')
  <2>1. Linked(mem')
    BY <1>0, <1>5, <1>7 DEF Linked
  <2>2. d.oid < m.next["tables"]
    BY <1>2
  <2>3. ASSUME NEW x \in DefinitionsOf(mem', "tables")
        PROVE  x \in DefinitionsOf(mem, "tables") \/ x = d
    <3>1. x \in Elements(mem'.tablesByOid)
      BY DEF DefinitionsOf
    <3>2. x \in Elements(mem.tablesByOid) \/ x = d
      BY <1>5, <3>1 DEF Elements
    <3> QED BY <3>2 DEF DefinitionsOf
  <2> QED BY <1>1, <1>6, <2>1, <2>2, <2>3, EntersFit, RecIs
<1>9. ASSUME NEW e, In(e, pool["tables"]) PROVE TableKnown(e, mem') /\ Follows("tables", e, d)
  <2>1. TableKnown(e, mem) /\ e \in TableRec
    BY <1>9, RecordKnown
  <2>2. PICK n, t : n = e.name /\ t = mem.tablesByName[n]
    OBVIOUS
  <2>3. n \in DOMAIN mem.tablesByName /\ t.oid = e.oid /\ t.pages >= e.pages /\ t \in TableRec
    BY <2>1, <2>2, TableOf DEF TableKnown
  <2>4. t.pages \in Nat /\ e.pages \in Nat /\ d.pages \in Nat
    BY <2>1, <2>3 DEF TableRec
  <2>5. CASE n = d.name
    <3>1. t.oid = d.oid /\ t.pages <= d.pages /\ mem'.tablesByName[n] = d
      BY <1>5, <2>2, <2>3, <2>5
    <3>2. n \in DOMAIN mem'.tablesByName
      BY <1>5, <2>3
    <3> QED BY <2>2, <2>3, <2>4, <3>1, <3>2 DEF TableKnown, Follows
  <2>6. CASE n # d.name
    <3>1. t.oid # d.oid /\ mem'.tablesByName[n] = t /\ n \in DOMAIN mem'.tablesByName
      BY <1>5, <2>2, <2>3, <2>6
    <3> QED BY <2>2, <2>3, <3>1 DEF TableKnown, Follows
  <2> QED BY <2>5, <2>6
<1>10. Known(pool, mem')
  <2>1. ASSUME NEW e PROVE /\ In(e, pool["columns"]) => ColumnKnown(e, mem')
                           /\ In(e, pool["indexes"]) => IndexKnown(e, mem')
    BY <1>7, RecordKnown DEF ColumnKnown, IndexKnown
  <2> QED BY <1>9, <2>1, KnownIn
<1>11. KnownTo("tables", d, mem') /\ AllFollowed("tables", d)
  <2>1. d.pages >= d.pages
    BY DEF TableRec
  <2>2. TableKnown(d, mem')
    BY <1>5, <2>1 DEF TableKnown
  <2> QED BY <1>9, <2>2 DEF KnownTo, AllFollowed
<1>12. AppendDone("tables", d) \/ AppendFails("tables", d)
  BY DEF Appends
<1>13. d \in Rec["tables"] /\ "tables" \in Files
  BY RecIs
<1>14. Anchored'
  <2>1. Kept4
    BY <1>12, <1>13, Appended
  <2> QED BY <1>0, <1>7, <2>1, StaysSaved DEF Anchored
<1>15. AckedColumnsStay
  BY <1>7 DEF AckedColumnsStay, ColumnsOf
<1>16. acked' = acked
  BY DEF Appends
<1> QED BY <1>8, <1>10, <1>11, <1>12, <1>13, <1>14, <1>15, <1>16, AppendedFits

LEMMA TableBelow ==
  ASSUME Inv, NEW n \in DOMAIN mem.tablesByName
  PROVE  mem.tablesByName[n].oid < mem.next["tables"]
<1>1. mem.tablesByName[n] \in DefinitionsOf(mem, "tables")
  BY TableOf DEF DefinitionsOf, Elements
<1> QED BY <1>1, RecIs DEF Inv, MapsFit, Below

LEMMA AppendsKeeps ==
  ASSUME Inv, NEW f \in Files, NEW b \in BOOLEAN, NEW d \in Rec[f], Appends(f, b, d)
  PROVE  /\ f # "columns" => mem'.columnsByTableOid = mem.columnsByTableOid
         /\ Kept4 /\ acked' = acked
         /\ AppendDone(f, d) => In(d, file'[f])
         /\ (AppendDone(f, d) /\ OpGoesOn) \/ OpEnds
<1>1. PICK m : mem' = Index(m, f, d) /\ Entering(m, f, b)
  BY Enters DEF Appends
<1>2. f # "columns" => mem'.columnsByTableOid = mem.columnsByTableOid
  BY <1>1 DEF Entering, Kept, SameMaps
<1>3. AppendDone(f, d) \/ AppendFails(f, d)
  BY DEF Appends
<1>4. Kept4 /\ (AppendDone(f, d) => In(d, file'[f]))
  BY <1>3, Appended
<1> QED BY <1>2, <1>4 DEF Appends

LEMMA TableStep ==
  ASSUME Inv, AppendNext, op.pc = "run", NEW n \in TableNames, NEW o \in Oids, NEW c \in Nat,
         op.done = <<"table", n, o, c>>, TableAhead(n, o, c)
  PROVE  Inv'
<1>0. OpFits /\ op.todo # <<>> /\ Linked(mem)
  BY DEF Inv, MapsFit, AppendNext
<1>1. /\ n \notin DOMAIN mem.tablesByName /\ o = mem.next["tables"] /\ Len(op.todo) = c + 1
      /\ op.todo[1] = <<"tables", [oid |-> 0, name |-> n, pages |-> 0]>>
      /\ \A i \in 1 .. c : op.todo[i + 1] = NewColumn(o, i - 1)
  BY DEF TableAhead
<1>2. PICK e : e = [oid |-> 0, name |-> n, pages |-> 0]
  OBVIOUS
<1>3. PICK d : d = [e EXCEPT !.oid = IF e.oid = 0 THEN mem.next["tables"] ELSE @]
  OBVIOUS
<1>4. d = [oid |-> o, name |-> n, pages |-> 0] /\ (TRUE <=> e.oid = 0)
  BY <1>1, <1>2, <1>3
<1>5. d \in TableRec /\ d.oid = o /\ d.name = n /\ o \in Nat
  BY <1>4 DEF TableRec, Oids
<1>6. Appends("tables", TRUE, d)
  <2>1. Head(op.todo) = <<"tables", e>>
    BY <1>0, <1>1, <1>2, OpTail
  <2> QED BY <1>3, <1>4, <2>1, AppendNextIs
<1>7. d \in Rec["tables"] /\ "tables" \in Files
  BY <1>5, RecIs
<1>8. /\ mem'.columnsByTableOid = mem.columnsByTableOid
      /\ Kept4 /\ acked' = acked
      /\ AppendDone("tables", d) => In(d, file'["tables"])
      /\ (AppendDone("tables", d) /\ OpGoesOn) \/ OpEnds
  BY <1>6, <1>7, AppendsKeeps
<1>9. ASSUME NEW x \in DOMAIN mem.tablesByName
      PROVE  (x = d.name <=> mem.tablesByName[x].oid = d.oid) /\ x # d.name
  <2>1. mem.tablesByName[x].oid < o /\ mem.tablesByName[x].oid \in Nat
    BY <1>1, TableBelow, TableOf DEF TableRec, Oids
  <2> QED BY <1>1, <1>5, <2>1
<1>10. d.oid < IF TRUE THEN mem.next["tables"] + 1 ELSE mem.next["tables"]
  BY <1>1, <1>5
<1>11. OpFits'
  <2>1. CASE AppendDone("tables", d) /\ OpGoesOn
    <3>1. /\ OpShape' /\ op'.pc = op.pc /\ op'.done = op.done
          /\ Len(op'.todo) = Len(op.todo) - 1
          /\ \A i \in 1 .. Len(op.todo) - 1 : op'.todo[i] = op.todo[i + 1]
      BY <1>0, <2>1, OpTail
    <3>2. TableSaved(n, o)'
      BY <1>5, <1>8, <2>1 DEF TableSaved
    <3>3. ColumnsOf(o)' = <<>>
      <4>1. ASSUME o \in DOMAIN mem.tablesByOid PROVE FALSE
        <5>1. PICK t : t = mem.tablesByOid[o]
          OBVIOUS
        <5>2. t.oid = o /\ t.name \in DOMAIN mem.tablesByName /\ mem.tablesByName[t.name] = t
          BY <4>1, <5>1 DEF Inv, MapsFit, Agree, TablesAgree
        <5>3. o < o
          BY <1>1, <5>2, TableBelow
        <5> QED BY <1>5, <5>3
      <4>2. o \notin DOMAIN mem.columnsByTableOid
        BY <1>0, <4>1 DEF Linked
      <4> QED BY <1>8, <4>2 DEF ColumnsOf, ListOf
    <3>4. ColumnsSaved(o)'
      BY <3>3 DEF ColumnsSaved
    <3>5. \A a \in acked' : a[1] = "table" => a[2] # n
      <4>1. ASSUME NEW a \in acked, a[1] = "table", a[2] = n PROVE FALSE
        <5>1. TableSaved(n, a[3])
          BY <4>1 DEF Inv, Saved
        <5> QED BY <1>1, <5>1, TableSavedIs
      <4> QED BY <1>8, <4>1
    <3>6. PICK s, t : s = op.todo /\ t = op'.todo
      OBVIOUS
    <3>7. Len(t) = c /\ \A i \in 1 .. c : t[i] = s[i + 1]
      <4>1. Len(s) = c + 1
        BY <1>1, <3>6
      <4>2. Len(s) - 1 = c
        BY <4>1
      <4>3. Len(t) = Len(s) - 1 /\ \A i \in 1 .. Len(s) - 1 : t[i] = s[i + 1]
        BY <3>1, <3>6
      <4> QED BY <4>2, <4>3
    <3>8. ASSUME NEW i \in 1 .. Len(t) PROVE t[i] = NewColumn(o, Len(<<>>) + i - 1)
      <4>1. Len(<<>>) + i - 1 = i - 1 /\ i \in 1 .. c
        BY <3>7
      <4> QED BY <1>1, <3>6, <3>7, <4>1
    <3>9. Len(t) + Len(<<>>) = c
      BY <3>7
    <3>10. ColumnsAhead(n, o, c)'
      BY <3>2, <3>3, <3>4, <3>5, <3>6, <3>8, <3>9 DEF ColumnsAhead
    <3>11. CreatingTable(n, o, c)'
      BY <3>1, <3>10 DEF CreatingTable
    <3>12. IsCreatingTable'
      BY <3>11 DEF IsCreatingTable
    <3> QED BY <3>1, <3>12, ShapeFits
  <2>2. CASE OpEnds
    BY <1>0, <2>2, OpEndsFits
  <2> QED BY <1>8, <2>1, <2>2
<1> QED BY <1>5, <1>6, <1>9, <1>10, <1>11, TableEnters

LEMMA CountStep ==
  ASSUME Inv, AppendNext, op.pc = "run", NEW t \in TableRec,
         op.done = <<"count", t.name, t.oid, t.pages>>,
         t.name \in DOMAIN mem.tablesByName, mem.tablesByName[t.name].oid = t.oid,
         mem.tablesByName[t.name].pages < t.pages, op.todo = << <<"tables", t>> >>
  PROVE  Inv'
<1>0. OpFits /\ op.todo # <<>>
  BY DEF Inv, AppendNext
<1>1. t.oid \in Nat /\ t.oid # 0 /\ t.pages \in Nat /\ t.name \in TableNames
  BY DEF TableRec, Oids
<1>2. PICK d : d = [t EXCEPT !.oid = IF t.oid = 0 THEN mem.next["tables"] ELSE @]
  OBVIOUS
<1>3. d = t /\ (FALSE <=> t.oid = 0)
  BY <1>1, <1>2 DEF TableRec
<1>4. Appends("tables", FALSE, t)
  <2>1. Head(op.todo) = <<"tables", t>>
    OBVIOUS
  <2>2. Appends("tables", FALSE, d)
    BY <1>2, <1>3, <2>1, AppendNextIs
  <2> QED BY <1>3, <2>2
<1>5. t \in Rec["tables"] /\ "tables" \in Files
  BY RecIs
<1>6. /\ Kept4 /\ (AppendDone("tables", t) => In(t, file'["tables"]))
      /\ (AppendDone("tables", t) /\ OpGoesOn) \/ OpEnds
  BY <1>4, <1>5, AppendsKeeps
<1>7. ASSUME NEW x \in DOMAIN mem.tablesByName
      PROVE  x = t.name <=> mem.tablesByName[x].oid = t.oid
  <2>1. ASSUME mem.tablesByName[x].oid = t.oid PROVE x = t.name
    <3>1. mem.tablesByName[x] = mem.tablesByOid[t.oid] /\ mem.tablesByName[x].name = x
      BY <2>1, TableOf
    <3>2. /\ mem.tablesByName[t.name] = mem.tablesByOid[t.oid]
          /\ mem.tablesByName[t.name].name = t.name
      BY TableOf
    <3> QED BY <3>1, <3>2
  <2> QED BY <2>1
<1>8. ASSUME NEW x \in DOMAIN mem.tablesByName, x = t.name
      PROVE  mem.tablesByName[x].pages <= t.pages
  <2>1. mem.tablesByName[x].pages \in Nat
    BY TableOf DEF TableRec
  <2> QED BY <1>1, <1>8, <2>1
<1>9. t.oid < mem.next["tables"]
  BY TableBelow
<1>10. OpFits'
  <2>1. CASE AppendDone("tables", t) /\ OpGoesOn
    <3>1. OpShape' /\ op'.pc = op.pc /\ op'.done = op.done
      BY <1>0, <2>1, OpTail
    <3>2. op'.todo = <<>>
      <4>1. op = [pc |-> op.pc, todo |-> op.todo, done |-> op.done]
        BY <1>0 DEF OpFits
      <4>2. op'.todo = Tail(op.todo)
        BY <2>1, <4>1 DEF OpGoesOn
      <4> QED BY <4>2
    <3>3. t.pages >= t.pages
      BY <1>1
    <3>4. CountSaved(t.name, t.pages)'
      BY <1>6, <2>1, <3>3 DEF CountSaved
    <3>5. Counting(t.name, t)'
      BY <3>1, <3>2, <3>4 DEF Counting
    <3>6. IsCounting'
      BY <1>1, <3>5 DEF IsCounting
    <3> QED BY <3>1, <3>6, ShapeFits
  <2>2. CASE OpEnds
    BY <1>0, <2>2, OpEndsFits
  <2> QED BY <1>6, <2>1, <2>2
<1>11. t.oid < IF FALSE THEN mem.next["tables"] + 1 ELSE mem.next["tables"]
  BY <1>9
<1> QED BY <1>4, <1>7, <1>8, <1>10, <1>11, TableEnters

LEMMA ColumnBelow ==
  ASSUME Inv, NEW e, ColumnKnown(e, mem)
  PROVE  e.oid \in Nat /\ e.oid < mem.next["columns"]
<1>1. e.table \in DOMAIN mem.columnsByTableOid
      /\ e \in ToSet(mem.columnsByTableOid[e.table])
  <2>1. ToSet(<<>>) = {}
    BY DEF ToSet
  <2> QED BY <2>1 DEF ColumnKnown, ListOf
<1>2. e \in DefinitionsOf(mem, "columns")
  BY <1>1 DEF DefinitionsOf, Elements
<1>3. Agree(mem) /\ Below(mem, mem.next)
  BY DEF Inv, MapsFit
<1> QED BY <1>2, <1>3, OidsAre, RecIs DEF Below, Oids

LEMMA ListIs ==
  ASSUME Inv, NEW o
  PROVE  /\ ColumnsOf(o) \in Seq(ColumnRec) /\ Len(ColumnsOf(o)) \in Nat
         /\ DOMAIN ColumnsOf(o) = 1 .. Len(ColumnsOf(o))
         /\ \A i \in DOMAIN ColumnsOf(o) :
              /\ ColumnsOf(o)[i].table = o /\ ColumnsOf(o)[i].position = i - 1
              /\ ColumnKnown(ColumnsOf(o)[i], mem)
<1>1. PICK m : m = mem
  OBVIOUS
<1>2. ColumnsAgree(m)
  BY <1>1 DEF Inv, MapsFit, Agree
<1>l. PICK list : list = ListOf(m.columnsByTableOid, o)
  OBVIOUS
<1>3. /\ list \in Seq(ColumnRec)
      /\ \A i \in DOMAIN list : list[i].table = o /\ list[i].position = i - 1
  BY <1>2, <1>l, ListFits
<1>4. list = ColumnsOf(o)
  BY <1>1, <1>l DEF ColumnsOf
<1>5. ASSUME NEW i \in DOMAIN list PROVE ColumnKnown(list[i], mem)
  BY <1>1, <1>l, <1>3 DEF ColumnKnown, ToSet
<1>6. Len(list) \in Nat /\ DOMAIN list = 1 .. Len(list)
  BY <1>3
<1> QED BY <1>3, <1>4, <1>5, <1>6

\* The next column of table o enters the maps, all earlier ones being in the file.
LEMMA ColumnEnters ==
  ASSUME Inv, NEW n, NEW o \in Oids, NEW d \in ColumnRec, Appends("columns", TRUE, d), OpFits',
         TableSaved(n, o), ColumnsSaved(o), \A a \in acked : a[1] = "table" => a[2] # n,
         d.oid = mem.next["columns"], d.table = o, d.position = Len(ColumnsOf(o))
  PROVE  Inv'
<1>0. Agree(mem) /\ Linked(mem) /\ Known(pool, mem) /\ Anchored /\ d.oid \in Nat
  BY DEF Inv, MapsFit, RecordsFit, ColumnRec, Oids
<1>1. PICK m : mem' = Index(m, "columns", d) /\ Entering(m, "columns", TRUE)
  BY RecIs, Enters DEF Appends
<1>2. SameMaps(m, mem) /\ IsRecord(m) /\ Kept(mem', m, "columns")
      /\ m.next["columns"] = mem.next["columns"] + 1
  BY <1>1 DEF Entering, Counts
<1>3. Agree(m)
  BY <1>0, <1>2, SameAgree
<1>l. PICK list : list = ColumnsOf(o)
  OBVIOUS
<1>m. /\ list \in Seq(ColumnRec) /\ Len(list) \in Nat /\ DOMAIN list = 1 .. Len(list)
      /\ \A i \in DOMAIN list : /\ list[i].table = o /\ list[i].position = i - 1
                                /\ ColumnKnown(list[i], mem)
  BY <1>l, ListIs
<1>4. /\ ColumnsAgree(mem')
      /\ DOMAIN mem'.columnsByTableOid = DOMAIN mem.columnsByTableOid \cup {o}
      /\ mem'.columnsByTableOid[o] = Append(list, d)
      /\ ListOf(mem'.columnsByTableOid, o) = Append(list, d)
      /\ \A x \in DOMAIN mem.columnsByTableOid : x # o =>
           mem'.columnsByTableOid[x] = mem.columnsByTableOid[x]
      /\ \A x : x # o => ListOf(mem'.columnsByTableOid, x) = ListOf(mem.columnsByTableOid, x)
  <2>1. PICK k : k = mem'
    OBVIOUS
  <2>c. m.columnsByTableOid = mem.columnsByTableOid
    BY <1>2 DEF SameMaps
  <2>2. /\ IsRecord(m) /\ ColumnsAgree(m) /\ k = Index(m, "columns", d)
        /\ list = ListOf(m.columnsByTableOid, d.table) /\ d.position = Len(list)
    BY <1>1, <1>2, <1>3, <1>l, <2>1, <2>c DEF Agree, ColumnsOf
  <2>3. \A i \in DOMAIN list : list[i].oid # d.oid
    <3>1. ASSUME NEW i \in DOMAIN list PROVE list[i].oid # d.oid
      <4>1. list[i].oid \in Nat /\ list[i].oid < d.oid
        BY <1>m, ColumnBelow
      <4> QED BY <1>0, <4>1
    <3> QED BY <3>1
  <2>4. /\ ColumnsAgree(k)
        /\ DOMAIN k.columnsByTableOid = DOMAIN m.columnsByTableOid \cup {d.table}
        /\ k.columnsByTableOid[d.table] = Append(list, d)
        /\ ListOf(k.columnsByTableOid, d.table) = Append(list, d)
        /\ \A x \in DOMAIN m.columnsByTableOid : x # d.table =>
             k.columnsByTableOid[x] = m.columnsByTableOid[x]
        /\ \A x : x # d.table => ListOf(k.columnsByTableOid, x) = ListOf(m.columnsByTableOid, x)
    <3>1. ColumnsAgree(k)
      BY <2>2, <2>3, ColumnPut
    <3>2. DOMAIN k.columnsByTableOid = DOMAIN m.columnsByTableOid \cup {d.table}
      BY <2>2, <2>3, ColumnPut
    <3>3. k.columnsByTableOid[d.table] = Append(list, d)
      BY <2>2, <2>3, ColumnPut
    <3>4. ListOf(k.columnsByTableOid, d.table) = Append(list, d)
      BY <2>2, <2>3, ColumnPut
    <3>5. \A x \in DOMAIN m.columnsByTableOid : x # d.table =>
            k.columnsByTableOid[x] = m.columnsByTableOid[x]
      BY <2>2, <2>3, ColumnPut
    <3>6. \A x : x # d.table => ListOf(k.columnsByTableOid, x) = ListOf(m.columnsByTableOid, x)
      BY <2>2, <2>3, ColumnPut
    <3> QED BY <3>1, <3>2, <3>3, <3>4, <3>5, <3>6
  <2> QED BY <2>1, <2>4, <2>c
<1>a. /\ Append(list, d) \in Seq(ColumnRec) /\ DOMAIN Append(list, d) = 1 .. Len(list) + 1
      /\ \A i \in 1 .. Len(list) : Append(list, d)[i] = list[i]
      /\ Append(list, d)[Len(list) + 1] = d
  BY <1>m, AppendIs
<1>5. PICK new : new = Append(list, d)
  OBVIOUS
<1>6. \A x : x \in ToSet(new) <=> x \in ToSet(list) \/ x = d
  <2>1. /\ DOMAIN new = 1 .. Len(list) + 1 /\ DOMAIN list = 1 .. Len(list) /\ Len(list) \in Nat
        /\ \A i \in 1 .. Len(list) : new[i] = list[i]
        /\ new[Len(list) + 1] = d
    BY <1>5, <1>a, <1>m
  <2>2. \A i \in DOMAIN new : i \in DOMAIN list \/ i = Len(list) + 1
    BY <2>1
  <2>3. Len(list) + 1 \in DOMAIN new /\ DOMAIN list \subseteq DOMAIN new
    BY <2>1
  <2>4. \A i \in DOMAIN list : new[i] = list[i]
    BY <2>1
  <2>5. new[Len(list) + 1] = d
    BY <2>1
  <2> QED BY ONLY <2>2, <2>3, <2>4, <2>5 DEF ToSet
<1>7. Agree(mem')
  <2>1. TypesAgree(mem') /\ TablesAgree(mem') /\ IndexesAgree(mem')
    BY <1>2, <1>3, OtherAgree, RecIs
  <2> QED BY <1>4, <2>1 DEF Agree
<1>8. /\ mem'.tablesByOid = mem.tablesByOid /\ mem'.tablesByName = mem.tablesByName
      /\ mem'.indexesByName = mem.indexesByName
      /\ mem'.indexesByTableOid = mem.indexesByTableOid
  BY <1>2 DEF Kept, SameMaps
<1>9. ASSUME NEW e PROVE ColumnKnown(e, mem') <=> ColumnKnown(e, mem) \/ e = d
  <2>1. CASE e.table = o
    <3>1. ListOf(mem'.columnsByTableOid, e.table) = new /\ ListOf(mem.columnsByTableOid, e.table) = list
      BY <1>4, <1>5, <1>l, <2>1 DEF ColumnsOf
    <3> QED BY <1>6, <3>1 DEF ColumnKnown
  <2>2. CASE e.table # o
    <3>1. ListOf(mem'.columnsByTableOid, e.table) = ListOf(mem.columnsByTableOid, e.table)
      BY <1>4, <2>2
    <3> QED BY <2>2, <3>1 DEF ColumnKnown
  <2> QED BY <2>1, <2>2
<1>10. MapsFit(mem')
  <2>1. Linked(mem')
    <3>1. o \in DOMAIN mem.tablesByOid
      BY TableSavedIs
    <3> QED BY <1>0, <1>4, <1>8, <3>1 DEF Linked
  <2>2. d.oid < m.next["columns"]
    BY <1>0, <1>2
  <2>3. ASSUME NEW x \in DefinitionsOf(mem', "columns")
        PROVE  x \in DefinitionsOf(mem, "columns") \/ x = d
    <3>1. PICK q \in DOMAIN mem'.columnsByTableOid : x \in ToSet(mem'.columnsByTableOid[q])
      BY DEF DefinitionsOf, Elements
    <3>2. CASE q # o
      <4>1. q \in DOMAIN mem.columnsByTableOid /\ x \in ToSet(mem.columnsByTableOid[q])
        BY <1>4, <3>1, <3>2
      <4> QED BY <4>1 DEF DefinitionsOf, Elements
    <3>3. CASE q = o
      <4>1. x \in ToSet(list) \/ x = d
        BY <1>4, <1>5, <1>6, <3>1, <3>3
      <4>2. ASSUME x \in ToSet(list) PROVE x \in DefinitionsOf(mem, "columns")
        <5>1. ToSet(<<>>) = {}
          BY DEF ToSet
        <5>2. o \in DOMAIN mem.columnsByTableOid /\ list = mem.columnsByTableOid[o]
          BY <1>l, <4>2, <5>1 DEF ColumnsOf, ListOf
        <5> QED BY <4>2, <5>2 DEF DefinitionsOf, Elements
      <4> QED BY <4>1, <4>2
    <3> QED BY <3>2, <3>3
  <2> QED BY <1>1, <1>7, <2>1, <2>2, <2>3, EntersFit, RecIs
<1>11. Known(pool, mem')
  <2>1. ASSUME NEW e PROVE /\ In(e, pool["tables"]) => TableKnown(e, mem')
                           /\ In(e, pool["columns"]) => ColumnKnown(e, mem')
                           /\ In(e, pool["indexes"]) => IndexKnown(e, mem')
    BY <1>8, <1>9, RecordKnown DEF TableKnown, IndexKnown
  <2> QED BY <2>1, KnownIn
<1>12. KnownTo("columns", d, mem')
  BY <1>9 DEF KnownTo
<1>13. AllFollowed("columns", d)
  <2>1. ASSUME NEW e, In(e, pool["columns"]) PROVE Follows("columns", e, d)
    <3>1. ColumnKnown(e, mem) /\ e \in ColumnRec
      BY <2>1, RecordKnown
    <3>2. e.oid # d.oid
      <4>1. e.oid \in Nat /\ e.oid < d.oid
        BY <3>1, ColumnBelow
      <4> QED BY <1>0, <4>1
    <3>3. ASSUME e.table = d.table PROVE e.position < d.position
      <4>1. PICK i \in DOMAIN list : list[i] = e
        BY <1>l, <3>1, <3>3 DEF ColumnKnown, ColumnsOf, ToSet
      <4>2. e.position = i - 1 /\ i \in 1 .. Len(list) /\ d.position = Len(list)
        BY <1>l, <1>m, <4>1
      <4> QED BY <1>m, <4>2
    <3> QED BY <3>2, <3>3 DEF Follows
  <2> QED BY <2>1 DEF AllFollowed
<1>14. Preceded(file["columns"], d)
  <2>1. ASSUME d.position > 0
        PROVE  \E e \in ColumnRec : /\ e.table = d.table /\ e.position = d.position - 1
                                    /\ In(e, file["columns"])
    <3>1. Len(list) \in DOMAIN list /\ d.position = Len(list)
      BY <1>l, <1>m, <2>1
    <3>2. PICK e : e = list[Len(list)]
      OBVIOUS
    <3>3. e \in ColumnRec /\ e.table = d.table /\ e.position = d.position - 1
      BY <1>m, <3>1, <3>2
    <3>4. In(e, file["columns"])
      BY <1>l, <3>1, <3>2 DEF ColumnsSaved
    <3> QED BY <3>3, <3>4
  <2> QED BY <2>1 DEF Preceded
<1>15. AppendDone("columns", d) \/ AppendFails("columns", d)
  BY DEF Appends
<1>16. d \in Rec["columns"] /\ "columns" \in Files
  BY RecIs
<1>17. Anchored'
  <2>1. Kept4
    BY <1>15, <1>16, Appended
  <2>2. HasTable(o)
    BY DEF TableSaved, HasTable
  <2>3. \A x : HasTable(x) => HasTable(x)'
    BY <2>1, StaysSaved
  <2> QED BY <1>0, <1>4, <1>8, <2>2, <2>3 DEF Anchored
<1>18. AckedColumnsStay
  <2>1. ASSUME NEW a \in acked, a[1] = "table" PROVE ColumnsOf(a[3])' = ColumnsOf(a[3])
    <3>1. TableSaved(a[2], a[3]) /\ a[2] # n
      BY <2>1 DEF Inv, Saved
    <3>2. a[3] # o
      BY <3>1, TableSavedIs
    <3> QED BY <1>4, <3>2 DEF ColumnsOf
  <2> QED BY <2>1 DEF AckedColumnsStay
<1>19. acked' = acked
  BY DEF Appends
<1> QED BY <1>10, <1>11, <1>12, <1>13, <1>14, <1>15, <1>16, <1>17, <1>18, <1>19, AppendedFits

LEMMA ColumnStep ==
  ASSUME Inv, AppendNext, op.pc = "run", NEW n \in TableNames, NEW o \in Oids, NEW c \in Nat,
         op.done = <<"table", n, o, c>>, ColumnsAhead(n, o, c)
  PROVE  Inv'
<1>0. OpFits /\ op.todo # <<>> /\ Agree(mem)
  BY DEF Inv, MapsFit, AppendNext
<1>l. PICK list, N : list = ColumnsOf(o) /\ N = Len(list)
  OBVIOUS
<1>m. /\ list \in Seq(ColumnRec) /\ N \in Nat /\ DOMAIN list = 1 .. N
      /\ \A i \in DOMAIN list : ColumnKnown(list[i], mem)
  BY <1>l, ListIs
<1>1. /\ TableSaved(n, o) /\ ColumnsSaved(o)
      /\ \A a \in acked : a[1] = "table" => a[2] # n
      /\ Len(op.todo) + N = c
      /\ \A i \in 1 .. Len(op.todo) : op.todo[i] = NewColumn(o, N + i - 1)
  BY <1>l DEF ColumnsAhead
<1>t. Len(op.todo) \in Nat \ {0} /\ Head(op.todo) = op.todo[1]
  BY <1>0, OpTail
<1>2. PICK e : e = [oid |-> 0, table |-> o, position |-> N]
  OBVIOUS
<1>3. PICK d : d = [e EXCEPT !.oid = IF e.oid = 0 THEN mem.next["columns"] ELSE @]
  OBVIOUS
<1>4. d = [oid |-> mem.next["columns"], table |-> o, position |-> N] /\ (TRUE <=> e.oid = 0)
  BY <1>2, <1>3
<1>5. /\ d \in ColumnRec /\ d.oid = mem.next["columns"] /\ d.table = o
      /\ d.position = Len(ColumnsOf(o))
  BY <1>4, <1>l, <1>m, NextIs, RecIs DEF ColumnRec
<1>6. Appends("columns", TRUE, d)
  <2>1. Head(op.todo) = <<"columns", e>>
    <3>1. 1 \in 1 .. Len(op.todo) /\ N + 1 - 1 = N
      BY <1>m, <1>t
    <3> QED BY <1>1, <1>2, <1>t, <3>1 DEF NewColumn
  <2> QED BY <1>3, <1>4, <2>1, AppendNextIs
<1>7. d \in Rec["columns"] /\ "columns" \in Files
  BY <1>5, RecIs
<1>8. /\ Kept4 /\ acked' = acked
      /\ AppendDone("columns", d) => In(d, file'["columns"])
      /\ (AppendDone("columns", d) /\ OpGoesOn) \/ OpEnds
  BY <1>6, <1>7, AppendsKeeps
<1>9. PICK m : mem' = Index(m, "columns", d) /\ Entering(m, "columns", TRUE)
  BY <1>6, <1>7, Enters DEF Appends
<1>10. ColumnsOf(o)' = Append(list, d)
  <2>1. PICK k : k = mem'
    OBVIOUS
  <2>2. SameMaps(m, mem) /\ IsRecord(m)
    BY <1>9 DEF Entering
  <2>3. m.columnsByTableOid = mem.columnsByTableOid /\ ColumnsAgree(m)
    BY <1>0, <2>2, SameAgree DEF SameMaps, Agree
  <2>4. /\ k = Index(m, "columns", d) /\ list = ListOf(m.columnsByTableOid, d.table)
        /\ d.position = Len(list)
    BY <1>9, <1>5, <1>l, <2>1, <2>3 DEF ColumnsOf
  <2>5. \A i \in DOMAIN list : list[i].oid # d.oid
    <3>1. ASSUME NEW i \in DOMAIN list PROVE list[i].oid # d.oid
      <4>1. list[i].oid \in Nat /\ list[i].oid < d.oid
        BY <1>5, <1>m, ColumnBelow
      <4>2. d.oid \in Nat
        BY <1>5 DEF ColumnRec, Oids
      <4> QED BY <4>1, <4>2
    <3> QED BY <3>1
  <2>6. ListOf(k.columnsByTableOid, d.table) = Append(list, d)
    BY <1>5, <2>2, <2>3, <2>4, <2>5, ColumnPut
  <2> QED BY <1>5, <2>1, <2>6 DEF ColumnsOf
<1>11. OpFits'
  <2>1. CASE AppendDone("columns", d) /\ OpGoesOn
    <3>1. PICK s, t, new : s = op.todo /\ t = op'.todo /\ new = Append(list, d)
      OBVIOUS
    <3>2. /\ OpShape' /\ op'.pc = op.pc /\ op'.done = op.done
          /\ Len(t) = Len(s) - 1
          /\ \A i \in 1 .. Len(s) - 1 : t[i] = s[i + 1]
      BY <1>0, <2>1, <3>1, OpTail
    <3>3. TableSaved(n, o)'
      BY <1>1, <1>8, StaysSaved
    <3>a. /\ Len(new) = N + 1 /\ DOMAIN new = 1 .. N + 1
          /\ \A i \in 1 .. N : new[i] = list[i]
          /\ new[N + 1] = d
      BY <1>5, <1>l, <1>m, <3>1, AppendIs
    <3>4. ASSUME NEW i \in DOMAIN new PROVE In(new[i], file'["columns"])
      <4>1. CASE i \in 1 .. N
        <5>1. In(list[i], file["columns"])
          BY <1>1, <1>l, <1>m, <4>1 DEF ColumnsSaved
        <5>2. In(list[i], file'["columns"])
          BY <1>7, <1>8, <5>1 DEF Kept4, Keeps
        <5> QED BY <3>a, <4>1, <5>2
      <4>2. CASE i = N + 1
        BY <1>8, <2>1, <3>a, <4>2
      <4> QED BY <1>m, <3>a, <4>1, <4>2
    <3>5. ColumnsSaved(o)'
      BY <1>10, <3>1, <3>4 DEF ColumnsSaved
    <3>6. \A a \in acked' : a[1] = "table" => a[2] # n
      BY <1>1, <1>8
    <3>7. Len(s) \in Nat /\ Len(s) + N = c /\ Len(s) - 1 + (N + 1) = c
      BY <1>1, <1>m, <1>t, <3>1
    <3>8. ASSUME NEW i \in 1 .. Len(t) PROVE t[i] = NewColumn(o, N + 1 + i - 1)
      <4>1. i \in 1 .. Len(s) - 1 /\ i + 1 \in 1 .. Len(s) /\ N + (i + 1) - 1 = N + 1 + i - 1
        BY <1>m, <3>2, <3>7
      <4>2. s[i + 1] = NewColumn(o, N + (i + 1) - 1)
        BY <1>1, <3>1, <4>1
      <4> QED BY <3>2, <4>1, <4>2
    <3>9. ColumnsAhead(n, o, c)'
      <4>1. Len(t) + Len(new) = c
        BY <3>2, <3>7, <3>a
      <4>2. ColumnsOf(o)' = new
        BY <1>10, <3>1
      <4>3. \A i \in 1 .. Len(t) : t[i] = NewColumn(o, Len(new) + i - 1)
        BY <3>8, <3>a
      <4> QED BY <3>1, <3>3, <3>5, <3>6, <4>1, <4>2, <4>3 DEF ColumnsAhead
    <3>10. CreatingTable(n, o, c)'
      BY <3>2, <3>9 DEF CreatingTable
    <3>11. IsCreatingTable'
      BY <3>10 DEF IsCreatingTable
    <3> QED BY <3>2, <3>11, ShapeFits
  <2>2. CASE OpEnds
    BY <1>0, <2>2, OpEndsFits
  <2> QED BY <1>8, <2>1, <2>2
<1> QED BY <1>1, <1>5, <1>6, <1>11, ColumnEnters

LEMMA IndexBelow ==
  ASSUME Inv, NEW n \in DOMAIN mem.indexesByName
  PROVE  mem.indexesByName[n].oid \in Nat /\ mem.indexesByName[n].oid < mem.next["indexes"]
<1>1. mem.indexesByName[n] \in DefinitionsOf(mem, "indexes")
  BY DEF DefinitionsOf, Elements
<1>2. Agree(mem) /\ Below(mem, mem.next)
  BY DEF Inv, MapsFit
<1> QED BY <1>1, <1>2, OidsAre, RecIs DEF Below, Oids

\* An index of a table that has columns enters the maps.
LEMMA IndexEnters ==
  ASSUME Inv, NEW d \in IndexRec, Appends("indexes", TRUE, d), OpFits',
         d.name \notin DOMAIN mem.indexesByName, d.oid = mem.next["indexes"],
         d.table \in DOMAIN mem.columnsByTableOid
  PROVE  Inv'
<1>0. Agree(mem) /\ Linked(mem) /\ Known(pool, mem) /\ Anchored /\ d.oid \in Nat
  BY DEF Inv, MapsFit, RecordsFit, IndexRec, Oids
<1>1. PICK m : mem' = Index(m, "indexes", d) /\ Entering(m, "indexes", TRUE)
  BY RecIs, Enters DEF Appends
<1>2. SameMaps(m, mem) /\ IsRecord(m) /\ Kept(mem', m, "indexes")
      /\ m.next["indexes"] = mem.next["indexes"] + 1
  BY <1>1 DEF Entering, Counts
<1>3. Agree(m)
  BY <1>0, <1>2, SameAgree
<1>o. ASSUME NEW x \in DOMAIN mem.indexesByName PROVE mem.indexesByName[x].oid # d.oid
  <2>1. mem.indexesByName[x].oid \in Nat /\ mem.indexesByName[x].oid < d.oid
    BY IndexBelow
  <2> QED BY <1>0, <2>1
<1>4. /\ IndexesAgree(mem')
      /\ DOMAIN mem'.indexesByName = DOMAIN mem.indexesByName \cup {d.name}
      /\ DOMAIN mem'.indexesByTableOid = DOMAIN mem.indexesByTableOid \cup {d.table}
      /\ mem'.indexesByName[d.name] = d
      /\ \A x \in DOMAIN mem.indexesByName : mem'.indexesByName[x] = mem.indexesByName[x]
  <2>1. PICK k : k = mem'
    OBVIOUS
  <2>c. m.indexesByName = mem.indexesByName /\ m.indexesByTableOid = mem.indexesByTableOid
    BY <1>2 DEF SameMaps
  <2>2. /\ IsRecord(m) /\ IndexesAgree(m) /\ k = Index(m, "indexes", d)
        /\ d.name \notin DOMAIN m.indexesByName
        /\ \A x \in DOMAIN m.indexesByName : m.indexesByName[x].oid # d.oid
    BY <1>1, <1>2, <1>3, <1>o, <2>1, <2>c DEF Agree
  <2>3. /\ IndexesAgree(k)
        /\ DOMAIN k.indexesByName = DOMAIN m.indexesByName \cup {d.name}
        /\ DOMAIN k.indexesByTableOid = DOMAIN m.indexesByTableOid \cup {d.table}
        /\ k.indexesByName[d.name] = d
        /\ \A x \in DOMAIN m.indexesByName : k.indexesByName[x] = m.indexesByName[x]
    BY <2>2, IndexPut
  <2> QED BY <2>1, <2>3, <2>c
<1>5. Agree(mem')
  <2>1. TypesAgree(mem') /\ TablesAgree(mem') /\ ColumnsAgree(mem')
    BY <1>2, <1>3, OtherAgree, RecIs
  <2> QED BY <1>4, <2>1 DEF Agree
<1>6. /\ mem'.tablesByOid = mem.tablesByOid /\ mem'.tablesByName = mem.tablesByName
      /\ mem'.columnsByTableOid = mem.columnsByTableOid
  BY <1>2 DEF Kept, SameMaps
<1>7. MapsFit(mem')
  <2>1. Linked(mem')
    BY <1>0, <1>4, <1>6 DEF Linked
  <2>2. d.oid < m.next["indexes"]
    BY <1>0, <1>2
  <2>3. ASSUME NEW x \in DefinitionsOf(mem', "indexes")
        PROVE  x \in DefinitionsOf(mem, "indexes") \/ x = d
    <3>1. x \in Elements(mem'.indexesByName)
      BY DEF DefinitionsOf
    <3>2. x \in Elements(mem.indexesByName) \/ x = d
      BY <1>4, <3>1 DEF Elements
    <3> QED BY <3>2 DEF DefinitionsOf
  <2> QED BY <1>1, <1>5, <2>1, <2>2, <2>3, EntersFit, RecIs
<1>8. Known(pool, mem')
  <2>1. ASSUME NEW e PROVE /\ In(e, pool["tables"]) => TableKnown(e, mem')
                           /\ In(e, pool["columns"]) => ColumnKnown(e, mem')
    BY <1>6, RecordKnown DEF TableKnown, ColumnKnown
  <2>2. ASSUME NEW e, In(e, pool["indexes"]) PROVE IndexKnown(e, mem')
    <3>1. IndexKnown(e, mem)
      BY <2>2, RecordKnown
    <3> QED BY <1>4, <3>1 DEF IndexKnown
  <2> QED BY <2>1, <2>2, KnownIn
<1>9. KnownTo("indexes", d, mem')
  BY <1>4 DEF KnownTo, IndexKnown
<1>10. AllFollowed("indexes", d)
  <2>1. ASSUME NEW e, In(e, pool["indexes"]) PROVE Follows("indexes", e, d)
    <3>1. IndexKnown(e, mem)
      BY <2>1, RecordKnown
    <3>2. e.oid # d.oid /\ e.name # d.name
      BY <1>o, <3>1 DEF IndexKnown
    <3> QED BY <3>2 DEF Follows
  <2> QED BY <2>1 DEF AllFollowed
<1>11. AppendDone("indexes", d) \/ AppendFails("indexes", d)
  BY DEF Appends
<1>12. d \in Rec["indexes"] /\ "indexes" \in Files
  BY RecIs
<1>13. Anchored'
  <2>1. Kept4
    BY <1>11, <1>12, Appended
  <2>2. \A x : HasTable(x) => HasTable(x)'
    BY <2>1, StaysSaved
  <2> QED BY <1>0, <1>4, <1>6, <2>2 DEF Anchored
<1>14. AckedColumnsStay
  BY <1>6 DEF AckedColumnsStay, ColumnsOf
<1>15. acked' = acked
  BY DEF Appends
<1> QED BY <1>7, <1>8, <1>9, <1>10, <1>11, <1>12, <1>13, <1>14, <1>15, AppendedFits

LEMMA IndexStep ==
  ASSUME Inv, AppendNext, op.pc = "run",
         NEW n \in IndexNames, NEW x \in Oids, NEW o \in Oids, NEW p \in Nat,
         op.done = <<"index", n, x, o>>, n \notin DOMAIN mem.indexesByName,
         x = mem.next["indexes"], o \in DOMAIN mem.columnsByTableOid,
         op.todo = << <<"indexes", [oid |-> 0, name |-> n, table |-> o, position |-> p]>> >>
  PROVE  Inv'
<1>0. OpFits /\ op.todo # <<>>
  BY DEF Inv, AppendNext
<1>2. PICK e : e = [oid |-> 0, name |-> n, table |-> o, position |-> p]
  OBVIOUS
<1>3. PICK d : d = [e EXCEPT !.oid = IF e.oid = 0 THEN mem.next["indexes"] ELSE @]
  OBVIOUS
<1>4. d = [oid |-> x, name |-> n, table |-> o, position |-> p] /\ (TRUE <=> e.oid = 0)
  BY <1>2, <1>3
<1>5. d \in IndexRec /\ d.oid = x /\ d.name = n /\ d.table = o
  BY <1>4 DEF IndexRec
<1>6. Appends("indexes", TRUE, d)
  <2>1. Head(op.todo) = <<"indexes", e>>
    BY <1>2
  <2> QED BY <1>3, <1>4, <2>1, AppendNextIs
<1>7. d \in Rec["indexes"] /\ "indexes" \in Files
  BY <1>5, RecIs
<1>8. /\ AppendDone("indexes", d) => In(d, file'["indexes"])
      /\ (AppendDone("indexes", d) /\ OpGoesOn) \/ OpEnds
  BY <1>6, <1>7, AppendsKeeps
<1>9. OpFits'
  <2>1. CASE AppendDone("indexes", d) /\ OpGoesOn
    <3>1. OpShape' /\ op'.pc = op.pc /\ op'.done = op.done
      BY <1>0, <2>1, OpTail
    <3>2. op'.todo = <<>>
      <4>1. op = [pc |-> op.pc, todo |-> op.todo, done |-> op.done]
        BY <1>0 DEF OpFits
      <4>2. op'.todo = Tail(op.todo)
        BY <2>1, <4>1 DEF OpGoesOn
      <4> QED BY <4>2
    <3>3. IndexSaved(n, x, o)'
      BY <1>5, <1>8, <2>1 DEF IndexSaved
    <3>4. CreatingIndex(n, x, o, p)'
      BY <3>1, <3>2, <3>3 DEF CreatingIndex
    <3>5. IsCreatingIndex'
      BY <3>4 DEF IsCreatingIndex
    <3> QED BY <3>1, <3>5, ShapeFits
  <2>2. CASE OpEnds
    BY <1>0, <2>2, OpEndsFits
  <2> QED BY <1>8, <2>1, <2>2
<1> QED BY <1>5, <1>6, <1>9, IndexEnters

LEMMA AppendNextStep ==
  ASSUME Inv, AppendNext
  PROVE  Inv'
<1>0. OpFits /\ op.todo # <<>>
  BY DEF Inv, AppendNext
<1>1. op.pc \in {"run", "boot"} /\ Len(op.todo) \in Nat \ {0}
  BY <1>0, OpTail
<1>2. CASE op.pc = "boot"
  BY <1>2, TypeStep
<1>3. CASE op.pc = "run"
  <2>1. IsCreatingTable \/ IsCreatingIndex \/ IsCounting
    BY <1>0, <1>3, OpFitsIs
  <2>2. CASE IsCreatingTable
    <3>1. PICK n \in TableNames, o \in Oids, c \in Nat : CreatingTable(n, o, c)
      BY <2>2 DEF IsCreatingTable
    <3>2. op.done = <<"table", n, o, c>> /\ (TableAhead(n, o, c) \/ ColumnsAhead(n, o, c))
      BY <3>1 DEF CreatingTable
    <3>3. CASE TableAhead(n, o, c)
      BY <1>3, <3>2, <3>3, TableStep
    <3>4. CASE ColumnsAhead(n, o, c)
      BY <1>3, <3>2, <3>4, ColumnStep
    <3> QED BY <3>2, <3>3, <3>4
  <2>3. CASE IsCreatingIndex
    <3>1. PICK n \in IndexNames, x \in Oids, o \in Oids, p \in Nat : CreatingIndex(n, x, o, p)
      BY <2>3 DEF IsCreatingIndex
    <3>2. /\ op.done = <<"index", n, x, o>> /\ n \notin DOMAIN mem.indexesByName
          /\ x = mem.next["indexes"] /\ o \in DOMAIN mem.columnsByTableOid
          /\ op.todo = << <<"indexes", [oid |-> 0, name |-> n, table |-> o, position |-> p]>> >>
      BY <1>0, <3>1 DEF CreatingIndex
    <3> QED BY <1>3, <3>2, IndexStep
  <2>4. CASE IsCounting
    <3>1. PICK n \in TableNames, t \in TableRec : t.name = n /\ Counting(n, t)
      BY <2>4 DEF IsCounting
    <3>2. /\ op.done = <<"count", t.name, t.oid, t.pages>>
          /\ t.name \in DOMAIN mem.tablesByName /\ mem.tablesByName[t.name].oid = t.oid
          /\ mem.tablesByName[t.name].pages < t.pages /\ op.todo = << <<"tables", t>> >>
      BY <1>0, <3>1 DEF Counting
    <3> QED BY <1>3, <3>2, CountStep
  <2> QED BY <2>1, <2>2, <2>3, <2>4
<1> QED BY <1>1, <1>2, <1>3

LEMMA InitFits ==
  ASSUME Init
  PROVE  Inv
<1>1. mem = EmptyMaps /\ acked = {} /\ op = Boot(EmptyMaps)
      /\ file = [f \in Files |-> <<>>] /\ pool = [f \in Files |-> <<>>]
  BY DEF Init
<1>2. PagesFit
  <2>1. Behind(<<>>, <<>>)
    BY DEF Behind
  <2> QED BY <1>1, <2>1 DEF PagesFit
<1>3. PICK m : m = EmptyMaps
  OBVIOUS
<1>4. /\ m.typesByName = Empty /\ m.tablesByOid = Empty /\ m.tablesByName = Empty
      /\ m.columnsByTableOid = Empty /\ m.indexesByName = Empty /\ m.indexesByTableOid = Empty
      /\ m.next = [f \in Files |-> 1] /\ IsRecord(m)
  BY <1>3 DEF EmptyMaps, IsRecord, Maps
<1>5. DOMAIN Empty = {} /\ Elements(Empty) = {}
  BY DEF Empty, Elements
<1>6. MapsFit(m)
  <2>1. m.next \in [Files -> Oids]
    BY <1>4 DEF Oids
  <2>2. Agree(m) /\ Linked(m)
    BY <1>4, <1>5 DEF Agree, TypesAgree, TablesAgree, ColumnsAgree, IndexesAgree, Linked
  <2>3. ASSUME NEW f \in Files PROVE DefinitionsOf(m, f) = {}
    BY <1>4, <1>5 DEF DefinitionsOf, Files
  <2>4. Below(m, m.next)
    BY <2>3 DEF Below
  <2> QED BY <1>4, <2>1, <2>2, <2>4 DEF MapsFit
<1>7. RecordsFit /\ NoGap
  <2>1. \A f \in Files : pool[f] = <<>>
    BY <1>1
  <2>2. pool["tables"] = <<>> /\ pool["columns"] = <<>> /\ pool["indexes"] = <<>>
    BY <2>1, RecIs
  <2> QED BY <2>1, <2>2 DEF RecordsFit, Known, InOrder, NoGap
<1>8. Anchored
  BY <1>1, <1>3, <1>4, <1>5 DEF Anchored
<1>9. OpFits
  <2>1. PICK s : s = MissingTypes(EmptyMaps)
    OBVIOUS
  <2>2. /\ s \in Seq(Todo)
        /\ \A i \in DOMAIN s : \E n \in TypeNames : s[i] = <<"types", [oid |-> 0, name |-> n]>>
    BY <2>1, MissingTypesAre
  <2>3. /\ op.pc = "boot" /\ op.todo = s /\ op.done = <<>>
        /\ op = [pc |-> op.pc, todo |-> op.todo, done |-> op.done]
    BY <1>1, <2>1 DEF Boot
  <2>4. OpShape
    BY <2>2, <2>3 DEF OpShape
  <2> QED BY <2>3, <2>4, OpFitsIs
<1> QED BY <1>1, <1>2, <1>3, <1>6, <1>7, <1>8, <1>9 DEF Inv

LEMMA StepFits ==
  ASSUME Inv, [Next]_vars
  PROVE  Inv'
<1>1. ASSUME NEW t \in TableNames, NEW n \in 1 .. MaxColumns, CreateTable(t, n) PROVE Inv'
  BY <1>1, CreateTableStep
<1>2. ASSUME NEW i \in IndexNames, NEW t \in TableNames, NEW p \in 0 .. MaxColumns - 1,
             CreateIndex(i, t, p)
      PROVE  Inv'
  BY <1>2, CreateIndexStep
<1>3. ASSUME NEW t \in TableNames, UpdatePagesCount(t) PROVE Inv'
  BY <1>3, UpdatePagesCountStep
<1>4. CASE AppendNext
  BY <1>4, AppendNextStep
<1>5. CASE Return
  BY <1>5, ReturnStep
<1>6. ASSUME NEW f \in Files, NEW p \in 1 .. Len(pool[f]), FlushPage(f, p) PROVE Inv'
  BY <1>6, FlushStep
<1>7. CASE Restart
  BY <1>7, RestartStep
<1>8. CASE UNCHANGED vars
  <2>1. UNCHANGED <<mem, file, pool, acked>> /\ op' = op
    BY <1>8 DEF vars
  <2>2. Kept4
    BY <2>1 DEF Kept4, Keeps
  <2>3. OpFits'
    BY <2>1, <2>2, OpStays DEF Inv
  <2> QED BY <2>1, <2>3, StartKeeps
<1> QED BY <1>1, <1>2, <1>3, <1>4, <1>5, <1>6, <1>7, <1>8 DEF Next

LEMMA AckedFits ==
  ASSUME Inv
  PROVE  AckedDefined
<1>1. ASSUME NEW a \in acked, a[1] = "table"
      PROVE  /\ a[2] \in DOMAIN mem.tablesByName
             /\ mem.tablesByName[a[2]].oid = a[3]
             /\ Len(ListOf(mem.columnsByTableOid, a[3])) = a[4]
  <2>1. TableSaved(a[2], a[3]) /\ Len(ColumnsOf(a[3])) = a[4]
    BY <1>1 DEF Inv, Saved
  <2> QED BY <2>1, TableSavedIs DEF ColumnsOf
<1>2. ASSUME NEW a \in acked, a[1] = "count"
      PROVE  /\ a[2] \in DOMAIN mem.tablesByName
             /\ mem.tablesByName[a[2]].pages >= a[4]
  <2>1. CountSaved(a[2], a[4]) /\ a[4] \in Nat
    BY <1>2 DEF Inv, Saved
  <2>2. PICK d \in TableRec : d.name = a[2] /\ d.pages >= a[4] /\ In(d, file["tables"])
    BY <2>1 DEF CountSaved
  <2>3. TableKnown(d, mem)
    BY <2>2, RecordKnown
  <2>4. /\ a[2] \in DOMAIN mem.tablesByName
        /\ mem.tablesByName[a[2]].pages >= d.pages
    BY <2>2, <2>3 DEF TableKnown
  <2>5. mem.tablesByName[a[2]].pages \in Nat /\ d.pages \in Nat
    BY <2>4, TableOf DEF TableRec
  <2> QED BY <2>1, <2>2, <2>4, <2>5
<1>3. ASSUME NEW a \in acked, a[1] = "index"
      PROVE  /\ a[2] \in DOMAIN mem.indexesByName
             /\ mem.indexesByName[a[2]].oid = a[3]
             /\ Contains(ListOf(mem.indexesByTableOid, a[4]), mem.indexesByName[a[2]])
  <2>1. IndexSaved(a[2], a[3], a[4])
    BY <1>3 DEF Inv, Saved
  <2>2. PICK d \in IndexRec : /\ d.name = a[2] /\ d.oid = a[3] /\ d.table = a[4]
                              /\ In(d, file["indexes"])
    BY <2>1 DEF IndexSaved
  <2>3. IndexKnown(d, mem)
    BY <2>2, RecordKnown
  <2>4. a[2] \in DOMAIN mem.indexesByName /\ mem.indexesByName[a[2]] = d
    BY <2>2, <2>3 DEF IndexKnown
  <2>5. /\ a[4] \in DOMAIN mem.indexesByTableOid
        /\ d \in ToSet(mem.indexesByTableOid[a[4]])
        /\ mem.indexesByTableOid[a[4]] \in Seq(IndexRec)
    BY <2>2, <2>4 DEF Inv, MapsFit, Agree, IndexesAgree
  <2>6. Contains(mem.indexesByTableOid[a[4]], d)
    BY <2>5, ContainsIsIn
  <2> QED BY <2>2, <2>4, <2>5, <2>6 DEF ListOf
<1>4. \A a \in acked : a[1] = "table" \/ a[1] = "count" \/ a[1] = "index"
  BY DEF Inv, Saved
<1> QED BY <1>1, <1>2, <1>3, <1>4 DEF AckedDefined

LEMMA WellFormedFits ==
  ASSUME Inv
  PROVE  MapsWellFormed
<1>0. TablesAgree(mem) /\ ColumnsAgree(mem) /\ Linked(mem)
  BY DEF Inv, MapsFit, Agree
<1> DEFINE S == DOMAIN mem.tablesByName
           T == DOMAIN mem.tablesByOid
<1>1. ASSUME NEW n \in S
      PROVE  /\ mem.tablesByName[n].name = n /\ mem.tablesByName[n].oid \in T
             /\ mem.tablesByOid[mem.tablesByName[n].oid] = mem.tablesByName[n]
             /\ mem.tablesByName[n].oid \in Nat
             /\ mem.tablesByName[n].oid <= mem.next["tables"]
  <2>1. mem.tablesByName[n].oid \in Nat /\ mem.next["tables"] \in Nat
    BY TableOf, NextIs, RecIs DEF TableRec, Oids
  <2> QED BY <2>1, TableOf, TableBelow
<1>2. ASSUME NEW o \in T
      PROVE  /\ mem.tablesByOid[o].oid = o /\ mem.tablesByOid[o].name \in S
             /\ mem.tablesByName[mem.tablesByOid[o].name] = mem.tablesByOid[o]
  BY <1>0 DEF TablesAgree
<1>3. Elements(mem.tablesByName) = Elements(mem.tablesByOid)
  BY <1>1, <1>2 DEF Elements
<1>4. Cardinality(S) = Cardinality(T)
  <2>2. IsFiniteSet(T)
    <3>1. ASSUME NEW o \in T PROVE o \in Nat /\ o <= mem.next["tables"]
      BY <1>1, <1>2
    <3>2. mem.next["tables"] \in Nat
      BY NextIs, RecIs DEF Oids
    <3> HIDE DEF T
    <3> QED BY <3>1, <3>2, FS_BoundedSetOfNaturals
  <2>3. IsFiniteSet(S) /\ Cardinality(S) = Cardinality(T)
    <3>2. ExistsBijection(T, S)
      <4>1. [o \in T |-> mem.tablesByOid[o].name] \in Bijection(T, S)
        <5> DEFINE h == [o \in T |-> mem.tablesByOid[o].name]
        <5>1. h \in [T -> S] /\ DOMAIN h = T
          BY <1>2
        <5>2. ASSUME NEW a \in T, NEW b \in T, h[a] = h[b] PROVE a = b
          <6>1. mem.tablesByOid[a].name = mem.tablesByOid[b].name
            BY <5>2
          <6> QED BY <1>2, <6>1
        <5>3. ASSUME NEW n \in S PROVE \E o \in T : h[o] = n
          <6>1. mem.tablesByName[n].oid \in T /\ h[mem.tablesByName[n].oid] = n
            BY <1>1
          <6> QED BY <6>1
        <5> HIDE DEF S, T, h
        <5>4. h \in Bijection(T, S)
          BY <5>1, <5>2, <5>3 DEF Bijection, Injection, Surjection, IsInjective
        <5> QED BY <5>4 DEF h
      <4> QED BY <4>1 DEF ExistsBijection
    <3> HIDE DEF S, T
    <3> QED BY <2>2, <3>2, FS_Bijection
  <2> QED BY <2>3
<1>5. MapsAgree
  BY <1>0, <1>1, <1>3, <1>4 DEF MapsAgree, Linked
<1>6. ColumnsArePrefix
  BY <1>0 DEF ColumnsArePrefix, ColumnsAgree
<1> QED BY <1>5, <1>6 DEF MapsWellFormed

-----------------------------------------------------------------------------
(* The theorems. *)

(* The inductive invariant holds: the file is behind the pool by at most what a
   failed flush left, the maps agree with each other and know every record, a
   table is in the file before its columns and indexes, and the running
   operation has saved what it goes on to acknowledge. *)
THEOREM CatalogInvariant == Spec => []Inv
<1>1. Init => Inv
  BY InitFits
<1>2. Inv /\ [Next]_vars => Inv'
  BY StepFits
<1> QED BY <1>1, <1>2, PTL DEF Spec

(* What CreateTable, CreateIndex and UpdatePagesCount acknowledged stays
   defined: after any later failed append, and after the process ends at any
   moment and starts again from the files. *)
THEOREM AckedStaysDefined == Spec => []AckedDefined
<1>1. Inv => AckedDefined
  BY AckedFits
<1> QED BY <1>1, CatalogInvariant, PTL

(* The maps always describe one set of tables, by name and by oid, each with its
   columns at positions 0, 1, ... without a gap, whatever append failed and
   whenever the process ended. *)
THEOREM MapsStayWellFormed == Spec => []MapsWellFormed
<1>1. Inv => MapsWellFormed
  BY WellFormedFits
<1> QED BY <1>1, CatalogInvariant, PTL

-----------------------------------------------------------------------------
(* A restart finds the maps as they are.  What a file contributes to the maps
   depends on its own records only, and one more record at its end is one more
   definition in the maps. *)

SamePart(m, k, f) ==
  /\ f = "types" => m.typesByName = k.typesByName
  /\ f = "tables" => m.tablesByOid = k.tablesByOid /\ m.tablesByName = k.tablesByName
  /\ f = "columns" => m.columnsByTableOid = k.columnsByTableOid
  /\ f = "indexes" => /\ m.indexesByName = k.indexesByName
                      /\ m.indexesByTableOid = k.indexesByTableOid

LEMMA IndexLocal ==
  ASSUME NEW m, IsRecord(m), NEW k, IsRecord(k), NEW f \in Files, SamePart(m, k, f), NEW d
  PROVE  SamePart(Index(m, f, d), Index(k, f, d), f)
<1>1. CASE f = "types"
  BY <1>1 DEF SamePart, IsRecord, Maps, Index, indexType
<1>2. CASE f = "tables"
  BY <1>2 DEF SamePart, IsRecord, Maps, Index, indexTable
<1>3. CASE f = "columns"
  BY <1>3 DEF SamePart, IsRecord, Maps, Index, indexColumn
<1>4. CASE f = "indexes"
  BY <1>4 DEF SamePart, IsRecord, Maps, Index, indexIndex
<1> QED BY <1>1, <1>2, <1>3, <1>4 DEF Files

LEMMA FlattenLen ==
  ASSUME NEW R, NEW P \in Seq(Seq(R))
  PROVE  FlattenSeq(P) \in Seq(R) /\ Len(FlattenSeq(P)) \in Nat
<1>1. FlattenSeq(P) \in Seq(R)
  BY FlattenPlaces
<1> QED BY <1>1

LEMMA ReplayLocal ==
  ASSUME NEW R, NEW P \in Seq(Seq(R)), NEW f \in Files,
         NEW m, IsRecord(m), NEW k, IsRecord(k), SamePart(m, k, f)
  PROVE  SamePart(Replay(m, f, P), Replay(k, f, P), f) /\ Kept(Replay(m, f, P), m, f)
<1>1. PICK s, N : s = FlattenSeq(P) /\ N = Len(s)
  OBVIOUS
<1>2. N \in Nat
  BY <1>1, FlattenLen
<1>3. PICK g : ReplaysTo(N, g, m, f, s)
  BY <1>2, ReplaysExists
<1>4. PICK h : ReplaysTo(N, h, k, f, s)
  BY <1>2, ReplaysExists
<1>5. /\ \A n \in 0 .. N : Kept(g[n], m, f)
      /\ \A n \in 0 .. N : Kept(h[n], k, f)
  BY <1>2, <1>3, <1>4, ReplayKeeps
<1> DEFINE S == {n \in 0 .. N : SamePart(g[n], h[n], f)}
<1>6. 0 \in S
  BY <1>2, <1>3, <1>4 DEF ReplaysTo
<1>7. ASSUME NEW n \in 1 .. N, n - 1 \in S PROVE n \in S
  <2>1. n \in 0 .. N /\ n - 1 \in 0 .. N /\ SamePart(g[n - 1], h[n - 1], f)
    BY <1>2, <1>7
  <2>2. IsRecord(g[n - 1]) /\ IsRecord(h[n - 1])
    BY <1>5, <2>1 DEF Kept
  <2>3. SamePart(Index(g[n - 1], f, s[n]), Index(h[n - 1], f, s[n]), f)
    BY <2>1, <2>2, IndexLocal
  <2>4. g[n] = Index(g[n - 1], f, s[n]) /\ h[n] = Index(h[n - 1], f, s[n])
    BY <1>3, <1>4 DEF ReplaysTo
  <2> QED BY <2>1, <2>3, <2>4
<1>8. \A n \in 0 .. N : n \in S
  <2> HIDE DEF S
  <2> QED BY <1>2, <1>6, <1>7, UpTo
<1>9. N \in 0 .. N
  BY <1>2
<1>10. SamePart(g[N], h[N], f) /\ Kept(g[N], m, f)
  BY <1>5, <1>8, <1>9
<1>11. Replay(m, f, P) = g[N] /\ Replay(k, f, P) = h[N]
  BY <1>1, <1>2, <1>3, <1>4, ReplayIs
<1> QED BY <1>10, <1>11

LEMMA ReplayGrows ==
  ASSUME NEW R, NEW P \in Seq(Seq(R)), NEW d \in R, NEW Q, Grows(P, Q, d), NEW m, NEW f
  PROVE  Replay(m, f, Q) = Index(Replay(m, f, P), f, d)
<1>1. PICK s, t : s = FlattenSeq(P) /\ t = FlattenSeq(Q)
  OBVIOUS
<1>2. t = Append(s, d)
  BY <1>1, FlattenAppend DEF Grows
<1>3. s \in Seq(R) /\ Len(s) \in Nat
  BY <1>1, FlattenLen
<1>4. PICK N : N = Len(s)
  OBVIOUS
<1>5. /\ Len(t) = N + 1 /\ t[N + 1] = d /\ N \in Nat
      /\ \A n \in 1 .. N : t[n] = s[n]
  BY <1>2, <1>3, <1>4, AppendIs
<1>6. PICK g : ReplaysTo(N + 1, g, m, f, t)
  <2>1. PICK M : M = N + 1
    OBVIOUS
  <2>2. M \in Nat
    BY <1>5, <2>1
  <2>3. \E g : ReplaysTo(M, g, m, f, t)
    BY <2>2, ReplaysExists
  <2> QED BY <2>1, <2>3
<1> DEFINE h == [n \in 0 .. N |-> g[n]]
<1>7. ReplaysTo(N, h, m, f, s)
  <2>1. g[0] = m /\ \A n \in 1 .. N + 1 : g[n] = Index(g[n - 1], f, t[n])
    BY <1>6 DEF ReplaysTo
  <2>2. DOMAIN h = 0 .. N /\ h[0] = m
    BY <1>5, <2>1
  <2>3. ASSUME NEW n \in 1 .. N PROVE h[n] = Index(h[n - 1], f, s[n])
    <3>1. n \in 0 .. N /\ n - 1 \in 0 .. N /\ n \in 1 .. N + 1
      BY <1>5
    <3>2. h[n] = g[n] /\ h[n - 1] = g[n - 1]
      BY <3>1
    <3> HIDE DEF h
    <3> QED BY <1>5, <2>1, <3>1, <3>2
  <2> HIDE DEF h
  <2> QED BY <2>2, <2>3 DEF ReplaysTo
<1>8. Replay(m, f, P) = h[N]
  <2> HIDE DEF h
  <2> QED BY <1>1, <1>3, <1>4, <1>7, ReplayIs
<1>9. h[N] = g[N]
  BY <1>5
<1>10. Replay(m, f, Q) = g[N + 1]
  <2>1. Len(t) \in Nat /\ ReplaysTo(Len(t), g, m, f, t)
    BY <1>5, <1>6
  <2> QED BY <1>1, <1>5, <2>1, ReplayIs
<1>11. g[N + 1] = Index(g[N], f, d)
  <2>1. N + 1 \in 1 .. N + 1 /\ N + 1 - 1 = N
    BY <1>5
  <2>2. g[N + 1] = Index(g[N + 1 - 1], f, t[N + 1])
    BY <1>6, <2>1 DEF ReplaysTo
  <2> QED BY <1>5, <2>1, <2>2
<1> HIDE DEF h
<1> QED BY <1>8, <1>9, <1>10, <1>11

\* The maps of the files F, before the next oids are computed.
LoadedMaps(F) ==
  Replay(Replay(Replay(Replay(EmptyMaps, "types", F["types"]),
                       "tables", F["tables"]),
                "columns", F["columns"]),
         "indexes", F["indexes"])

LEMMA EmptyIsRecord == IsRecord(EmptyMaps)
BY DEF IsRecord, Maps, EmptyMaps

LEMMA LoadedParts ==
  ASSUME NEW F, \A f \in Files : F[f] \in Seq(Seq(Rec[f]))
  PROVE  /\ IsRecord(LoadedMaps(F))
         /\ \A f \in Files : SamePart(LoadedMaps(F), Replay(EmptyMaps, f, F[f]), f)
<1> PICK E : E = EmptyMaps
  OBVIOUS
<1>0. IsRecord(E)
  BY EmptyIsRecord
<1>p. \A f \in Files : F[f] \in Seq(Seq(Rec[f]))
  OBVIOUS
<1>r. ASSUME NEW f \in Files, NEW m, IsRecord(m), SamePart(m, E, f)
      PROVE  SamePart(Replay(m, f, F[f]), Replay(E, f, F[f]), f) /\ Kept(Replay(m, f, F[f]), m, f)
  BY <1>0, <1>p, <1>r, ReplayLocal
<1>1. PICK a : a = Replay(E, "types", F["types"])
  OBVIOUS
<1>2. PICK b : b = Replay(a, "tables", F["tables"])
  OBVIOUS
<1>3. PICK c : c = Replay(b, "columns", F["columns"])
  OBVIOUS
<1>4. PICK x : x = Replay(c, "indexes", F["indexes"])
  OBVIOUS
<1>5. x = LoadedMaps(F)
  BY <1>1, <1>2, <1>3, <1>4 DEF LoadedMaps
<1>6. Kept(a, E, "types")
  <2>1. SamePart(E, E, "types")
    BY DEF SamePart
  <2> QED BY <1>0, <1>1, <1>r, <2>1, RecIs
<1>7. Kept(b, a, "tables") /\ SamePart(b, Replay(E, "tables", F["tables"]), "tables")
  <2>1. IsRecord(a) /\ SamePart(a, E, "tables")
    BY <1>6 DEF Kept, SamePart
  <2> QED BY <1>2, <1>r, <2>1, RecIs
<1>8. Kept(c, b, "columns") /\ SamePart(c, Replay(E, "columns", F["columns"]), "columns")
  <2>1. IsRecord(b) /\ SamePart(b, E, "columns")
    BY <1>6, <1>7 DEF Kept, SamePart
  <2> QED BY <1>3, <1>r, <2>1, RecIs
<1>9. Kept(x, c, "indexes") /\ SamePart(x, Replay(E, "indexes", F["indexes"]), "indexes")
  <2>1. IsRecord(c) /\ SamePart(c, E, "indexes")
    BY <1>6, <1>7, <1>8 DEF Kept, SamePart
  <2> QED BY <1>4, <1>r, <2>1, RecIs
<1>10. IsRecord(x)
  BY <1>9 DEF Kept
<1>11. SamePart(x, Replay(E, "types", F["types"]), "types")
  BY <1>1, <1>7, <1>8, <1>9 DEF Kept, SamePart
<1>12. SamePart(x, Replay(E, "tables", F["tables"]), "tables")
  <2>1. SamePart(x, b, "tables")
    BY <1>8, <1>9 DEF Kept, SamePart
  <2> QED BY <1>7, <2>1 DEF SamePart
<1>13. SamePart(x, Replay(E, "columns", F["columns"]), "columns")
  <2>1. SamePart(x, c, "columns")
    BY <1>9 DEF Kept, SamePart
  <2> QED BY <1>8, <2>1 DEF SamePart
<1>14. ASSUME NEW f \in Files PROVE SamePart(x, Replay(E, f, F[f]), f)
  BY <1>9, <1>11, <1>12, <1>13 DEF Files
<1> QED BY <1>5, <1>10, <1>14

LEMMA LoadIs ==
  /\ loadFromDisk = recomputeNextOids(LoadedMaps(file))
  /\ loadFromDisk' = recomputeNextOids(LoadedMaps(file'))
BY DEF loadFromDisk, LoadedMaps

LEMMA MapsEqual ==
  ASSUME NEW m, IsRecord(m), NEW k, IsRecord(k), SameMaps(m, k), m.next = k.next
  PROVE  m = k
BY DEF IsRecord, SameMaps, Maps

LEMMA SameDefinitions ==
  ASSUME NEW m, NEW k, SameMaps(m, k), NEW f \in Files
  PROVE  DefinitionsOf(m, f) = DefinitionsOf(k, f)
BY DEF SameMaps, DefinitionsOf

LEMMA RecomputeSame ==
  ASSUME NEW m, IsRecord(m), NEW k, k = recomputeNextOids(m)
  PROVE  /\ IsRecord(k) /\ SameMaps(k, m) /\ DOMAIN k.next = Files
         /\ \A f \in Files : k.next[f] = nextIdAfterMax(DefinitionsOf(m, f))
<1>1. IsRecord(k) /\ k.next = [f \in Files |-> nextIdAfterMax(DefinitionsOf(m, f))]
  BY RecomputeIs
<1>2. SameMaps(k, m)
  BY RecomputeIs DEF SameMaps
<1> QED BY <1>1, <1>2

\* The counter of f is right: one past the highest oid of the maps.
NextRight(m, f) == m.next[f] = nextIdAfterMax(DefinitionsOf(m, f))

\* Maps that have what the files F have, and the right counters, are what
\* loading F gives.
LEMMA LoadedIs ==
  ASSUME NEW F, \A f \in Files : F[f] \in Seq(Seq(Rec[f])),
         NEW m, IsRecord(m), DOMAIN m.next = Files, m.next \in [Files -> Oids],
         \A f \in Files : SamePart(m, Replay(EmptyMaps, f, F[f]), f),
         \A f \in Files : NextRight(m, f)
  PROVE  m = recomputeNextOids(LoadedMaps(F))
<1>1. PICK x : x = LoadedMaps(F)
  OBVIOUS
<1>2. IsRecord(x) /\ \A f \in Files : SamePart(x, Replay(EmptyMaps, f, F[f]), f)
  BY <1>1, LoadedParts
<1>3. SameMaps(m, x)
  <2>1. \A f \in Files : SamePart(m, x, f)
    BY <1>2 DEF SamePart
  <2> QED BY <2>1, RecIs DEF SamePart, SameMaps
<1>4. PICK k : k = recomputeNextOids(x)
  OBVIOUS
<1>5. /\ IsRecord(k) /\ SameMaps(k, x) /\ DOMAIN k.next = Files
      /\ k.next = [f \in Files |-> nextIdAfterMax(DefinitionsOf(x, f))]
  BY <1>2, <1>4, RecomputeSame, RecomputeIs
<1>6. \A f \in Files : m.next[f] = nextIdAfterMax(DefinitionsOf(x, f))
  BY <1>3, SameDefinitions DEF NextRight
<1>7. m.next = k.next
  BY <1>5, <1>6
<1>8. SameMaps(m, k)
  BY <1>3, <1>5 DEF SameMaps
<1> QED BY <1>1, <1>4, <1>5, <1>7, <1>8, MapsEqual

\* and the other way around.
LEMMA LoadHas ==
  ASSUME NEW F, \A f \in Files : F[f] \in Seq(Seq(Rec[f])),
         NEW m, m = recomputeNextOids(LoadedMaps(F))
  PROVE  /\ \A f \in Files : SamePart(m, Replay(EmptyMaps, f, F[f]), f)
         /\ \A f \in Files : NextRight(m, f)
<1>1. PICK x : x = LoadedMaps(F)
  OBVIOUS
<1>2. IsRecord(x) /\ \A f \in Files : SamePart(x, Replay(EmptyMaps, f, F[f]), f)
  BY <1>1, LoadedParts
<1>3. /\ SameMaps(m, x)
      /\ \A f \in Files : m.next[f] = nextIdAfterMax(DefinitionsOf(x, f))
  BY <1>1, <1>2, RecomputeSame
<1>4. \A f \in Files : SamePart(m, Replay(EmptyMaps, f, F[f]), f)
  BY <1>2, <1>3 DEF SamePart, SameMaps
<1>5. \A f \in Files : NextRight(m, f)
  BY <1>3, SameDefinitions DEF NextRight
<1> QED BY <1>4, <1>5

\* The counter of f after a record with a new oid, which is the highest.
LEMMA NextAfterNew ==
  ASSUME NEW m, MapsFit(m), NEW f \in Files, NEW x \in DefinitionsOf(m, f),
         m.next[f] = x.oid + 1
  PROVE  NextRight(m, f)
<1>1. Agree(m) /\ Below(m, m.next) /\ m.next \in [Files -> Oids]
  BY DEF MapsFit
<1> DEFINE S == {d.oid : d \in DefinitionsOf(m, f)} \cup {0}
<1>2. ASSUME NEW d \in DefinitionsOf(m, f) PROVE d.oid \in Nat /\ d.oid <= x.oid /\ x.oid \in Nat
  <2>1. d.oid \in Nat /\ x.oid \in Nat
    BY <1>1, OidsAre DEF Oids
  <2>2. d.oid < x.oid + 1
    BY <1>1 DEF Below
  <2> QED BY <2>1, <2>2
<1>3. S \in SUBSET (0 .. x.oid) /\ S # {} /\ x.oid \in Nat /\ x.oid \in S
  BY <1>2
<1>4. \A s \in S : s <= x.oid
  BY <1>2
<1>5. nextIdAfterMax(DefinitionsOf(m, f)) = Max(S) + 1
  BY DEF nextIdAfterMax
<1> HIDE DEF S
<1>6. Max(S) \in S /\ \A s \in S : s <= Max(S)
  BY <1>3, MaxIs
<1>7. Max(S) = x.oid
  <2>1. PICK n, a : n = Max(S) /\ a = x.oid
    OBVIOUS
  <2>2. n \in 0 .. a /\ a \in Nat /\ a <= n
    BY <1>3, <1>6, <2>1
  <2>3. n = a
    BY <2>2
  <2> QED BY <2>1, <2>3
<1> QED BY <1>5, <1>7 DEF NextRight

\* A record with an oid of its own is one of a table that exists.
LEMMA OldOidIs ==
  ASSUME Inv, op.todo # <<>>, Head(op.todo)[2].oid # 0
  PROVE  /\ Head(op.todo)[1] = "tables"
         /\ Head(op.todo)[2].oid \in DOMAIN mem.tablesByOid
<1>0. OpFits
  BY DEF Inv
<1>1. op.pc \in {"run", "boot"} /\ Len(op.todo) \in Nat \ {0} /\ Head(op.todo) = op.todo[1]
  BY <1>0, OpTail
<1>2. op.pc # "boot"
  <2>1. ASSUME op.pc = "boot" PROVE FALSE
    <3>1. op.todo \in Seq(Todo)
      BY <1>0 DEF OpFits
    <3>2. 1 \in DOMAIN op.todo
      BY <1>1, <3>1
    <3>3. PICK n \in TypeNames : op.todo[1] = <<"types", [oid |-> 0, name |-> n]>>
      BY <1>0, <2>1, <3>2 DEF OpFits
    <3> QED BY <1>1, <3>3
  <2> QED BY <2>1
<1>3. IsCreatingTable \/ IsCreatingIndex \/ IsCounting
  BY <1>0, <1>1, <1>2, OpFitsIs
<1>4. ASSUME IsCreatingTable PROVE FALSE
  <2>1. PICK n \in TableNames, o \in Oids, c \in Nat : CreatingTable(n, o, c)
    BY <1>4 DEF IsCreatingTable
  <2>2. CASE TableAhead(n, o, c)
    BY <1>1, <2>2 DEF TableAhead
  <2>3. CASE ColumnsAhead(n, o, c)
    <3>1. 1 \in 1 .. Len(op.todo)
      BY <1>1
    <3>2. PICK p : op.todo[1] = NewColumn(o, p)
      BY <2>3, <3>1 DEF ColumnsAhead
    <3> QED BY <1>1, <3>2 DEF NewColumn
  <2> QED BY <2>1, <2>2, <2>3 DEF CreatingTable
<1>5. ASSUME IsCreatingIndex PROVE FALSE
  <2>1. PICK n \in IndexNames, x \in Oids, o \in Oids, p \in Nat : CreatingIndex(n, x, o, p)
    BY <1>5 DEF IsCreatingIndex
  <2>2. op.todo = << <<"indexes", [oid |-> 0, name |-> n, table |-> o, position |-> p]>> >>
    BY <2>1 DEF CreatingIndex
  <2> QED BY <2>2
<1>6. PICK n \in TableNames, t \in TableRec : t.name = n /\ Counting(n, t)
  BY <1>3, <1>4, <1>5 DEF IsCounting
<1>7. /\ n \in DOMAIN mem.tablesByName /\ mem.tablesByName[n].oid = t.oid
      /\ op.todo = << <<"tables", t>> >>
  BY <1>6 DEF Counting
<1>8. t.oid \in DOMAIN mem.tablesByOid
  BY <1>7, TableOf
<1> QED BY <1>7, <1>8

OidOf(f, b, d) ==
  /\ b => d.oid = mem.next[f]
  /\ ~b => f = "tables" /\ d.oid \in DOMAIN mem.tablesByOid

\* The step in terms of the record that is appended.
LEMMA AppendNextHas ==
  ASSUME Inv, AppendNext
  PROVE  \E f \in Files : \E b \in BOOLEAN : \E d \in Rec[f] : Appends(f, b, d) /\ OidOf(f, b, d)
<1>0. OpFits /\ op.todo # <<>>
  BY DEF Inv, AppendNext
<1>1. PICK h : h = Head(op.todo)
  OBVIOUS
<1>2. h \in Todo
  <2>1. op.todo \in Seq(Todo)
    BY <1>0 DEF OpFits
  <2> QED BY <1>0, <1>1, <2>1
<1>3. PICK f, e : h = <<f, e>>
  BY <1>2 DEF Todo
<1>4. PICK d : d = [e EXCEPT !.oid = IF e.oid = 0 THEN mem.next[f] ELSE @]
  OBVIOUS
<1>5. PICK b \in BOOLEAN : b <=> e.oid = 0
  OBVIOUS
<1>6. Appends(f, b, d)
  BY <1>1, <1>3, <1>4, <1>5, AppendNextIs
<1>7. f \in Files /\ d \in Rec[f] /\ d.oid = IF e.oid = 0 THEN mem.next[f] ELSE e.oid
  <2>1. CASE f = "types" /\ e \in [oid : {0}, name : TypeNames]
    <3>1. mem.next["types"] \in Oids
      BY NextIs, RecIs
    <3>2. d \in TypeRec /\ d.oid = IF e.oid = 0 THEN mem.next[f] ELSE e.oid
      BY <1>4, <2>1, <3>1 DEF TypeRec
    <3> QED BY <2>1, <3>2, RecIs
  <2>2. CASE f = "tables" /\ e \in [oid : Nat, name : TableNames, pages : Nat]
    <3>1. mem.next["tables"] \in Oids
      BY NextIs, RecIs
    <3>2. d.oid = IF e.oid = 0 THEN mem.next["tables"] ELSE e.oid
      BY <1>4, <2>2
    <3>3. d.oid \in Oids
      BY <2>2, <3>1, <3>2 DEF Oids
    <3>4. d \in TableRec
      BY <1>4, <2>2, <3>3 DEF TableRec
    <3> QED BY <2>2, <3>2, <3>4, RecIs
  <2>3. CASE f = "columns" /\ e \in [oid : {0}, table : Oids, position : Nat]
    <3>1. mem.next["columns"] \in Oids
      BY NextIs, RecIs
    <3>2. d \in ColumnRec /\ d.oid = IF e.oid = 0 THEN mem.next[f] ELSE e.oid
      BY <1>4, <2>3, <3>1 DEF ColumnRec
    <3> QED BY <2>3, <3>2, RecIs
  <2>4. CASE f = "indexes" /\ e \in [oid : {0}, name : IndexNames, table : Oids, position : Nat]
    <3>1. mem.next["indexes"] \in Oids
      BY NextIs, RecIs
    <3>2. d \in IndexRec /\ d.oid = IF e.oid = 0 THEN mem.next[f] ELSE e.oid
      BY <1>4, <2>4, <3>1 DEF IndexRec
    <3> QED BY <2>4, <3>2, RecIs
  <2> QED BY <1>2, <1>3, <2>1, <2>2, <2>3, <2>4 DEF Todo
<1>8. OidOf(f, b, d)
  <2>1. CASE e.oid = 0
    BY <1>5, <1>7, <2>1 DEF OidOf
  <2>2. CASE e.oid # 0
    <3>1. Head(op.todo)[1] = f /\ Head(op.todo)[2] = e
      BY <1>1, <1>3
    <3>2. f = "tables" /\ e.oid \in DOMAIN mem.tablesByOid
      BY <1>0, <2>2, <3>1, OldOidIs
    <3> QED BY <1>5, <1>7, <2>2, <3>2 DEF OidOf
  <2> QED BY <2>1, <2>2
<1> QED BY <1>6, <1>7, <1>8

\* The file and the pool take the record in the same way.
LEMMA AppendSame ==
  ASSUME PagesFit, pool = file, NEW f \in Files, NEW d \in Rec[f]
  PROVE  /\ ~Refused(f)
         /\ AppendDone(f, d) => /\ pool' = file'
                                /\ Grows(file[f], file'[f], d)
                                /\ \A h \in Files : h # f => file'[h] = file[h]
<1>1. DOMAIN file = Files /\ file[f] \in Seq(Seq(Rec[f]))
  BY DEF PagesFit
<1>2. ~Refused(f)
  <2>1. Len(file[f]) \in Nat
    BY <1>1
  <2>2. Target(f) = Len(file[f]) \/ Target(f) = Len(file[f]) + 1
    BY DEF Target
  <2> QED BY <2>1, <2>2 DEF Refused
<1>3. ASSUME AppendDone(f, d)
      PROVE  /\ pool' = file' /\ Grows(file[f], file'[f], d)
             /\ \A h \in Files : h # f => file'[h] = file[h]
  <2>1. PICK Q : Q = WithRecord(f, d)
    OBVIOUS
  <2>2. PICK W : W = Written(file[f], Target(f), Q[Target(f)])
    OBVIOUS
  <2>3. pool' = [file EXCEPT ![f] = Q]
    BY <1>3, <2>1 DEF AppendDone
  <2>4. pool'[f] = Q
    BY <1>1, <2>3
  <2>5. file' = [file EXCEPT ![f] = W]
    BY <1>3, <2>2, <2>4 DEF AppendDone
  <2>6. Grows(pool[f], Q, d)
    BY <1>2, <2>1, <2>2, AppendTarget
  <2>7. W = Q
    BY <1>2, <2>1, <2>2, AppendTarget
  <2> QED BY <1>1, <2>3, <2>5, <2>6, <2>7
<1> QED BY <1>2, <1>3

\* The oid of the record is an oid of the maps.
LEMMA OidEnters ==
  ASSUME NEW m, IsRecord(m), NEW f \in Files, NEW d, NEW k, k = Index(m, f, d),
         f = "columns" => ColumnKnown(d, k)
  PROVE  \E x \in DefinitionsOf(k, f) : x.oid = d.oid
<1>1. CASE f = "types"
  <2>1. k.typesByName = Put(m.typesByName, d.name, d)
    BY <1>1 DEF Index, indexType, IsRecord, Maps
  <2>2. d.name \in DOMAIN k.typesByName /\ k.typesByName[d.name] = d
    BY <2>1 DEF Put
  <2>3. d \in DefinitionsOf(k, f)
    BY <1>1, <2>2 DEF DefinitionsOf, Elements
  <2> QED BY <2>3
<1>2. CASE f = "tables"
  <2>1. k.tablesByOid = Put(m.tablesByOid, d.oid, d)
    BY <1>2 DEF Index, indexTable, IsRecord, Maps
  <2>2. d.oid \in DOMAIN k.tablesByOid /\ k.tablesByOid[d.oid] = d
    BY <2>1 DEF Put
  <2>3. d \in DefinitionsOf(k, f)
    BY <1>2, <2>2 DEF DefinitionsOf, Elements
  <2> QED BY <2>3
<1>3. CASE f = "columns"
  <2>1. ToSet(<<>>) = {}
    BY DEF ToSet
  <2>2. d.table \in DOMAIN k.columnsByTableOid /\ d \in ToSet(k.columnsByTableOid[d.table])
    BY <1>3, <2>1 DEF ColumnKnown, ListOf
  <2>3. d \in DefinitionsOf(k, f)
    BY <1>3, <2>2 DEF DefinitionsOf, Elements
  <2> QED BY <2>3
<1>4. CASE f = "indexes"
  <2>1. k.indexesByName = Put(m.indexesByName, d.name, d)
    BY <1>4 DEF Index, indexIndex, IsRecord, Maps
  <2>2. d.name \in DOMAIN k.indexesByName /\ k.indexesByName[d.name] = d
    BY <2>1 DEF Put
  <2>3. d \in DefinitionsOf(k, f)
    BY <1>4, <2>2 DEF DefinitionsOf, Elements
  <2> QED BY <2>3
<1> QED BY <1>1, <1>2, <1>3, <1>4 DEF Files

\* A new count leaves the oids of the tables as they are.
LEMMA NextAfterCount ==
  ASSUME NEW m, IsRecord(m), TablesAgree(m), NEW d, d.oid \in DOMAIN m.tablesByOid,
         NEW k, k = Index(m, "tables", d)
  PROVE  nextIdAfterMax(DefinitionsOf(k, "tables")) = nextIdAfterMax(DefinitionsOf(m, "tables"))
<1>1. k.tablesByOid = Put(m.tablesByOid, d.oid, d)
  BY DEF Index, indexTable, IsRecord, Maps
<1>2. /\ DOMAIN k.tablesByOid = DOMAIN m.tablesByOid
      /\ \A o \in DOMAIN m.tablesByOid : k.tablesByOid[o].oid = o
  <2>1. /\ DOMAIN k.tablesByOid = DOMAIN m.tablesByOid \cup {d.oid}
        /\ k.tablesByOid[d.oid] = d
        /\ \A o \in DOMAIN m.tablesByOid : o # d.oid => k.tablesByOid[o] = m.tablesByOid[o]
    BY <1>1 DEF Put
  <2>2. \A o \in DOMAIN m.tablesByOid : m.tablesByOid[o].oid = o
    BY DEF TablesAgree
  <2> QED BY <2>1, <2>2
<1>3. \A o \in DOMAIN m.tablesByOid : m.tablesByOid[o].oid = o
  BY DEF TablesAgree
<1>4. {x.oid : x \in DefinitionsOf(k, "tables")} = DOMAIN m.tablesByOid
  BY <1>2 DEF DefinitionsOf, Elements
<1>5. {x.oid : x \in DefinitionsOf(m, "tables")} = DOMAIN m.tablesByOid
  BY <1>3 DEF DefinitionsOf, Elements
<1> QED BY <1>4, <1>5 DEF nextIdAfterMax

LEMMA AppendTransparent ==
  ASSUME Inv, Inv', pool = file, mem = loadFromDisk,
         NEW f \in Files, NEW b \in BOOLEAN, NEW d \in Rec[f],
         Appends(f, b, d), OidOf(f, b, d), AppendDone(f, d)
  PROVE  pool' = file' /\ mem' = loadFromDisk'
<1>1. /\ pool' = file' /\ Grows(file[f], file'[f], d)
      /\ \A h \in Files : h # f => file'[h] = file[h]
  BY AppendSame DEF Inv
<1>2. \A h \in Files : file[h] \in Seq(Seq(Rec[h]))
  BY DEF Inv, PagesFit
<1>3. \A h \in Files : file'[h] \in Seq(Seq(Rec[h]))
  BY DEF Inv, PagesFit
<1>4. /\ \A h \in Files : SamePart(mem, Replay(EmptyMaps, h, file[h]), h)
      /\ \A h \in Files : NextRight(mem, h)
  BY <1>2, LoadIs, LoadHas
<1>5. PICK m : mem' = Index(m, f, d) /\ Entering(m, f, b)
  BY Enters DEF Appends
<1>6. SameMaps(m, mem) /\ IsRecord(m) /\ Counts(m, f, b) /\ Kept(mem', m, f)
  BY <1>5 DEF Entering
<1>7. MapsFit(mem') /\ Known(pool', mem')
  BY DEF Inv, RecordsFit
<1>8. ASSUME NEW h \in Files PROVE SamePart(mem', Replay(EmptyMaps, h, file'[h]), h)
  <2>1. CASE h # f
    <3>1. SamePart(mem', mem, h)
      BY <1>6, <2>1 DEF Kept, SameMaps, SamePart
    <3>2. SamePart(mem, Replay(EmptyMaps, h, file'[h]), h)
      BY <1>1, <1>4, <2>1
    <3> QED BY <3>1, <3>2 DEF SamePart
  <2>2. CASE h = f
    <3>1. PICK r : r = Replay(EmptyMaps, f, file[f])
      OBVIOUS
    <3>2. IsRecord(r)
      <4>1. SamePart(EmptyMaps, EmptyMaps, f)
        BY DEF SamePart
      <4>2. Kept(r, EmptyMaps, f)
        BY <1>2, <3>1, <4>1, EmptyIsRecord, ReplayLocal
      <4> QED BY <4>2 DEF Kept
    <3>3. SamePart(mem, r, f)
      BY <1>4, <3>1
    <3>4. SamePart(m, r, f)
      BY <1>6, <3>3 DEF SamePart, SameMaps
    <3>5. SamePart(Index(m, f, d), Index(r, f, d), f)
      BY <1>6, <3>2, <3>4, IndexLocal
    <3>6. Replay(EmptyMaps, f, file'[f]) = Index(r, f, d)
      BY <1>1, <1>2, <3>1, ReplayGrows
    <3> QED BY <1>5, <2>2, <3>5, <3>6
  <2> QED BY <2>1, <2>2
<1>9. ASSUME NEW h \in Files PROVE NextRight(mem', h)
  <2>0. mem'.next[h] = m.next[h]
    BY <1>6 DEF Kept
  <2>1. CASE h # f
    <3>1. m.next[h] = mem.next[h]
      BY <1>6, <2>1 DEF Counts
    <3>2. DefinitionsOf(mem', h) = DefinitionsOf(mem, h)
      BY <1>6, <2>1, OtherDefinitions
    <3> QED BY <1>4, <2>0, <3>1, <3>2 DEF NextRight
  <2>2. CASE h = f /\ b
    <3>1. mem'.next[f] = d.oid + 1
      BY <1>6, <2>0, <2>2 DEF Counts, OidOf
    <3>2. ASSUME f = "columns" PROVE ColumnKnown(d, mem')
      <4>1. In(d, file'["columns"])
        BY <3>2, Appended
      <4> QED BY <1>1, <1>7, <4>1, KnownIn
    <3>3. PICK x \in DefinitionsOf(mem', f) : x.oid = d.oid
      BY <1>5, <1>6, <3>2, OidEnters
    <3>4. mem'.next[f] = x.oid + 1
      BY <3>1, <3>3
    <3> QED BY <1>7, <2>2, <3>4, NextAfterNew
  <2>3. CASE h = f /\ ~b
    <3>1. f = "tables" /\ d.oid \in DOMAIN mem.tablesByOid /\ m.next[f] = mem.next[f]
      BY <1>6, <2>3 DEF OidOf, Counts
    <3>2. d.oid \in DOMAIN m.tablesByOid /\ TablesAgree(m)
      <4>1. Agree(m)
        BY <1>6, SameAgree DEF Inv, MapsFit
      <4> QED BY <1>6, <3>1, <4>1 DEF SameMaps, Agree
    <3>3. nextIdAfterMax(DefinitionsOf(mem', "tables")) = nextIdAfterMax(DefinitionsOf(m, "tables"))
      BY <1>5, <1>6, <3>1, <3>2, NextAfterCount
    <3>4. DefinitionsOf(m, "tables") = DefinitionsOf(mem, "tables")
      BY <1>6, SameDefinitions, RecIs
    <3>5. NextRight(mem, "tables")
      BY <1>4, RecIs
    <3> QED BY <2>0, <2>3, <3>1, <3>3, <3>4, <3>5 DEF NextRight
  <2> QED BY <2>1, <2>2, <2>3
<1>10. IsRecord(mem') /\ mem'.next \in [Files -> Oids]
  BY <1>7 DEF MapsFit
<1>11. DOMAIN mem'.next = Files
  BY <1>10
<1>12. mem' = recomputeNextOids(LoadedMaps(file'))
  BY <1>3, <1>8, <1>9, <1>10, <1>11, LoadedIs
<1> QED BY <1>1, <1>12, LoadIs

\* As long as nothing failed, the pool is as the file, and the maps are what a
\* restart would load.
Transparent == faults \in Nat /\ (faults = 0 => pool = file /\ mem = loadFromDisk)

LEMMA RecomputeTwice ==
  ASSUME PagesFit, mem = loadFromDisk, NEW k, k = recomputeNextOids(mem)
  PROVE  k = mem
<1>1. PICK m : m = mem
  OBVIOUS
<1>2. \A h \in Files : file[h] \in Seq(Seq(Rec[h]))
  BY DEF PagesFit
<1>3. PICK x : x = LoadedMaps(file)
  OBVIOUS
<1>4. IsRecord(x) /\ m = recomputeNextOids(x)
  BY <1>1, <1>2, <1>3, LoadedParts, LoadIs
<1>5. /\ IsRecord(m) /\ SameMaps(m, x)
      /\ m.next = [f \in Files |-> nextIdAfterMax(DefinitionsOf(x, f))]
  BY <1>4, RecomputeSame, RecomputeIs
<1>6. k = recomputeNextOids(m)
  BY <1>1
<1>7. /\ IsRecord(k) /\ SameMaps(k, m)
      /\ k.next = [f \in Files |-> nextIdAfterMax(DefinitionsOf(m, f))]
  BY <1>5, <1>6, RecomputeSame, RecomputeIs
<1>8. \A f \in Files : DefinitionsOf(m, f) = DefinitionsOf(x, f)
  BY <1>5, SameDefinitions
<1>9. k.next = m.next
  BY <1>5, <1>7, <1>8
<1> QED BY <1>1, <1>5, <1>7, <1>9, MapsEqual

LEMMA FaultsGrow ==
  ASSUME faults \in Nat, NEW f, NEW d, AppendFails(f, d)
  PROVE  faults' \in Nat /\ (faults' = 0 => faults = 0 /\ Refused(f))
BY DEF AppendFails, Fault

LEMMA TransparentInit ==
  ASSUME Init
  PROVE  Transparent
<1>1. mem = EmptyMaps /\ file = [f \in Files |-> <<>>] /\ pool = file /\ faults = 0
  BY DEF Init
<1>2. Inv
  BY InitFits
<1>3. MapsFit(mem) /\ PagesFit
  BY <1>2 DEF Inv
<1>4. \A h \in Files : file[h] \in Seq(Seq(Rec[h])) /\ file[h] = <<>>
  BY <1>1, <1>3 DEF PagesFit
<1>5. ASSUME NEW h \in Files PROVE Replay(EmptyMaps, h, file[h]) = EmptyMaps
  <2>1. PICK s : s = FlattenSeq(<<>>)
    OBVIOUS
  <2>2. s = <<>>
    <3>1. <<>> \in Seq(Seq(Rec[h])) /\ DOMAIN <<>> = {}
      OBVIOUS
    <3>2. s \in Seq(Rec[h]) /\ Places(<<>>, Len(<<>>), s)
      BY <2>1, <3>1, FlattenPlaces
    <3>3. Len(<<>>) = 0 /\ 1 .. 0 = {}
      OBVIOUS
    <3>4. DOMAIN s = {}
      <4>1. \A a \in DOMAIN s : \E p \in 1 .. Len(<<>>) : TRUE
        BY <3>2 DEF Places
      <4> QED BY <3>3, <4>1
    <3> QED BY <3>2, <3>4
  <2>3. Len(s) = 0 /\ Len(s) \in Nat
    BY <2>2
  <2>4. PICK g : ReplaysTo(0, g, EmptyMaps, h, s)
    BY ReplaysExists
  <2>5. Replay(EmptyMaps, h, <<>>) = g[0]
    BY <2>1, <2>3, <2>4, ReplayIs
  <2> QED BY <1>4, <2>4, <2>5 DEF ReplaysTo
<1>6. ASSUME NEW h \in Files PROVE NextRight(mem, h)
  <2>1. DefinitionsOf(EmptyMaps, h) = {}
    <3>1. DOMAIN Empty = {} /\ Elements(Empty) = {}
      BY DEF Empty, Elements
    <3> QED BY <3>1 DEF EmptyMaps, DefinitionsOf, Files
  <2>2. Max({0}) = 0
    <3>1. {0} \in SUBSET (0 .. 0) /\ {0} # {} /\ 0 \in Nat
      OBVIOUS
    <3>2. Max({0}) \in {0}
      BY <3>1, MaxIs
    <3> QED BY <3>2
  <2>3. {x.oid : x \in {}} \cup {0} = {0}
    OBVIOUS
  <2>4. nextIdAfterMax({}) = 1
    BY <2>2, <2>3 DEF nextIdAfterMax
  <2>5. mem.next[h] = 1
    BY <1>1 DEF EmptyMaps
  <2> QED BY <1>1, <2>1, <2>4, <2>5 DEF NextRight
<1>7. ASSUME NEW h \in Files PROVE SamePart(mem, Replay(EmptyMaps, h, file[h]), h)
  BY <1>1, <1>5 DEF SamePart
<1>8. IsRecord(mem) /\ mem.next \in [Files -> Oids]
  BY <1>3 DEF MapsFit
<1>9. DOMAIN mem.next = Files
  BY <1>8
<1>10. mem = recomputeNextOids(LoadedMaps(file))
  BY <1>4, <1>6, <1>7, <1>8, <1>9, LoadedIs
<1> QED BY <1>1, <1>10, LoadIs DEF Transparent

LEMMA TransparentStep ==
  ASSUME Inv, Inv', Transparent, [Next]_vars
  PROVE  Transparent'
<1>0. PagesFit
  BY DEF Inv
<1>1. ASSUME UNCHANGED <<mem, file, pool, faults>> PROVE Transparent'
  BY <1>1, LoadIs DEF Transparent
<1>2. ASSUME NEW t \in TableNames, NEW n \in 1 .. MaxColumns, CreateTable(t, n) PROVE Transparent'
  BY <1>1, <1>2 DEF CreateTable
<1>3. ASSUME NEW i \in IndexNames, NEW t \in TableNames, NEW p \in 0 .. MaxColumns - 1,
             CreateIndex(i, t, p)
      PROVE  Transparent'
  BY <1>1, <1>3 DEF CreateIndex
<1>4. ASSUME NEW t \in TableNames, UpdatePagesCount(t) PROVE Transparent'
  BY <1>1, <1>4 DEF UpdatePagesCount
<1>5. CASE AppendNext
  <2>1. PICK f \in Files, b \in BOOLEAN : \E d \in Rec[f] : Appends(f, b, d) /\ OidOf(f, b, d)
    BY <1>5, AppendNextHas
  <2>2. PICK d \in Rec[f] : Appends(f, b, d) /\ OidOf(f, b, d)
    BY <2>1
  <2>3. CASE AppendDone(f, d)
    <3>1. faults' = faults
      BY <2>3 DEF AppendDone
    <3>2. ASSUME faults = 0 PROVE pool' = file' /\ mem' = loadFromDisk'
      <4>1. pool = file /\ mem = loadFromDisk
        BY <3>2 DEF Transparent
      <4> QED BY <2>2, <2>3, <4>1, AppendTransparent
    <3> QED BY <3>1, <3>2 DEF Transparent
  <2>4. CASE AppendFails(f, d)
    <3>1. faults' \in Nat /\ (faults' = 0 => faults = 0 /\ Refused(f))
      BY <2>4, FaultsGrow DEF Transparent
    <3>2. ASSUME faults = 0 PROVE ~Refused(f)
      <4>1. pool = file
        BY <3>2 DEF Transparent
      <4> QED BY <1>0, <4>1, AppendSame
    <3> QED BY <3>1, <3>2 DEF Transparent
  <2> QED BY <2>2, <2>3, <2>4 DEF Appends
<1>6. CASE Return
  <2>1. file' = file /\ pool' = pool /\ faults' = faults
        /\ mem' = IF op.pc = "boot" THEN recomputeNextOids(mem) ELSE mem
    BY <1>6 DEF Return
  <2>2. ASSUME faults = 0 PROVE pool' = file' /\ mem' = loadFromDisk'
    <3>1. pool = file /\ mem = loadFromDisk
      BY <2>2 DEF Transparent
    <3>2. recomputeNextOids(mem) = mem
      BY <1>0, <3>1, RecomputeTwice
    <3>3. mem' = mem
      BY <2>1, <3>2
    <3> QED BY <2>1, <3>1, <3>3, LoadIs
  <2> QED BY <2>1, <2>2 DEF Transparent
<1>7. ASSUME NEW f \in Files, NEW p \in 1 .. Len(pool[f]), FlushPage(f, p) PROVE Transparent'
  <2>1. faults' = faults /\ (p <= Len(file[f]) => file[f][p] # pool[f][p])
    BY <1>7 DEF FlushPage
  <2>2. ASSUME pool = file PROVE FALSE
    <3>1. Len(file[f]) \in Nat
      BY <1>0 DEF PagesFit
    <3>2. p <= Len(file[f])
      BY <2>2, <3>1
    <3> QED BY <2>1, <2>2, <3>2
  <2> QED BY <2>1, <2>2 DEF Transparent
<1>8. CASE Restart
  <2>1. pool' = file /\ file' = file /\ mem' = loadFromDisk /\ faults' = faults
    BY <1>8 DEF Restart
  <2>2. loadFromDisk' = loadFromDisk
    BY <2>1, LoadIs
  <2> QED BY <2>1, <2>2 DEF Transparent
<1>9. CASE UNCHANGED vars
  BY <1>1, <1>9 DEF vars
<1> QED BY <1>2, <1>3, <1>4, <1>5, <1>6, <1>7, <1>8, <1>9 DEF Next

(* As long as no I/O error occurred, a restart at any moment, in the middle of an
   operation too, loads exactly the maps and next oids the process had: the
   records of the four files determine them, and each is flushed with the
   definition it saves. *)
THEOREM RestartsAreTransparent == Spec => []RestartIsTransparent
<1>1. Init => Inv /\ Transparent
  BY InitFits, TransparentInit
<1>2. Inv /\ Transparent /\ [Next]_vars => (Inv /\ Transparent)'
  <2>1. ASSUME Inv, Transparent, [Next]_vars PROVE Inv' /\ Transparent'
    BY <2>1, StepFits, TransparentStep
  <2> QED BY <2>1
<1>3. Inv /\ Transparent => RestartIsTransparent
  BY DEF Transparent, RestartIsTransparent
<1> QED BY <1>1, <1>2, <1>3, PTL DEF Spec
=============================================================================
