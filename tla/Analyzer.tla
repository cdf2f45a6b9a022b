------------------------------ MODULE Analyzer ------------------------------
(***************************************************************************)
(* The semantic analyzer: a parsed statement (SqlParser) and the catalog   *)
(* give a query tree or a semantic error.  A catalog is a record of the    *)
(* tables, functions from names to sequences of <<column, type>>, and the  *)
(* names of the indexes.  A column of a query tree is its position.        *)
(***************************************************************************)
EXTENDS Integers, Sequences

Analyzed(tree) == [ok |-> TRUE, tree |-> tree]
SemanticError(message) == [ok |-> FALSE, message |-> message]

\* GetTypeByName after normalizeTypeName: a type, or "none".
typeNames(text) ==
  CASE text \in {<<"INT64">>, <<"INT">>, <<"INTEGER">>} -> "INT64"
    [] text = <<"VARCHAR">> -> "VARCHAR"
    [] OTHER -> "none"

\* catalog.GetColumn: the position of the column, 0 if there is none.
GetColumn(columns, name) ==
  IF \E i \in DOMAIN columns : columns[i][1] = name
  THEN CHOOSE i \in DOMAIN columns : columns[i][1] = name ELSE 0

-----------------------------------------------------------------------------
\* Expressions.
logicalOps == {"AND", "OR"}

Resolved(expr, type) == [ok |-> TRUE, expr |-> expr, type |-> type]

resolveColumnRef(columns, name) ==
  LET i == GetColumn(columns, name) IN
  IF i = 0 THEN SemanticError("column not found")
  ELSE Resolved(<<"position", i>>, columns[i][2])

\* The type of a literal, in a WHERE clause and in an INSERT.
LiteralType(literal) == IF literal[1] = "int64" THEN "INT64" ELSE "VARCHAR"

\* resolveBinary without the comparison of the operands' types.
CheckBinaryUntyped(op, left, right) ==
  IF op \in logicalOps
  THEN IF left.type # "BOOL" \/ right.type # "BOOL" THEN SemanticError("not boolean")
       ELSE Resolved(<<op, left.expr, right.expr>>, "BOOL")
  ELSE IF left.type = "BOOL" THEN SemanticError("boolean compared")
  ELSE Resolved(<<op, left.expr, right.expr>>, "BOOL")

CheckBinary(op, left, right) ==
  IF op \in logicalOps
  THEN IF left.type # "BOOL" \/ right.type # "BOOL" THEN SemanticError("not boolean")
       ELSE Resolved(<<op, left.expr, right.expr>>, "BOOL")
  ELSE IF left.type # right.type THEN SemanticError("type mismatch")
  ELSE IF left.type = "BOOL" THEN SemanticError("boolean compared")
  ELSE Resolved(<<op, left.expr, right.expr>>, "BOOL")

RECURSIVE resolveExpr(_, _)

resolveBinary(columns, op, l, r) ==
  LET left == resolveExpr(columns, l)
      right == resolveExpr(columns, r)
  IN  IF ~left.ok THEN left ELSE IF ~right.ok THEN right
      ELSE CheckBinary(op, left, right)

resolveExpr(columns, expr) ==
  CASE expr[1] = "column" -> resolveColumnRef(columns, expr[2])
    [] expr[1] \in {"int64", "string"} -> Resolved(expr, LiteralType(expr))
    [] OTHER -> resolveBinary(columns, expr[1], expr[2], expr[3])

-----------------------------------------------------------------------------
\* Statements.
NamesOf(columns) == {columns[i][1] : i \in DOMAIN columns}

analyzeCreateTable(cat, s) ==
  LET Type(i) == typeNames(s.columns[i][2]) IN
  CASE s.table \in DOMAIN cat.tables -> SemanticError("table exists")
    [] \E i \in DOMAIN s.columns :
         Type(i) = "none" \/ \E j \in 1 .. i - 1 : s.columns[i][1] = s.columns[j][1] ->
         SemanticError("unknown type or duplicate column")
    [] OTHER -> Analyzed([stmt |-> "createTable", table |-> s.table,
                          columns |-> [i \in DOMAIN s.columns |->
                                         <<s.columns[i][1], Type(i)>>]])

TypesMatch(columns, values) ==
  \A i \in DOMAIN columns : LiteralType(values[i]) = columns[i][2]

analyzeInsert(cat, s) ==
  CASE s.table \notin DOMAIN cat.tables -> SemanticError("table not found")
    [] Len(s.values) # Len(cat.tables[s.table]) -> SemanticError("values count")
    [] ~TypesMatch(cat.tables[s.table], s.values) -> SemanticError("type mismatch")
    [] OTHER -> Analyzed([stmt |-> "insert", table |-> s.table, values |-> s.values])

analyzeSelect(cat, s) ==
  LET columns == cat.tables[s.table]
      Tree(out, filter) == Analyzed([stmt |-> "select", table |-> s.table,
                                     columns |-> out, filter |-> filter])
      out == IF s.all THEN [i \in DOMAIN columns |-> i]
             ELSE [i \in DOMAIN s.columns |-> GetColumn(columns, s.columns[i])]
      filter == resolveExpr(columns, s.where)
  IN
  CASE s.table \notin DOMAIN cat.tables -> SemanticError("table not found")
    [] \E i \in DOMAIN s.columns : s.columns[i] \notin NamesOf(columns) ->
         SemanticError("column not found")
    [] s.where = <<>> -> Tree(out, <<>>)
    [] ~filter.ok -> filter
    [] filter.type # "BOOL" -> SemanticError("not boolean")
    [] OTHER -> Tree(out, filter.expr)

analyzeCreateIndex(cat, s) ==
  CASE s.index \in cat.indexes -> SemanticError("index exists")
    [] s.table \notin DOMAIN cat.tables -> SemanticError("table not found")
    [] s.column \notin NamesOf(cat.tables[s.table]) -> SemanticError("column not found")
    [] OTHER -> Analyzed([stmt |-> "createIndex", index |-> s.index, table |-> s.table,
                          column |-> GetColumn(cat.tables[s.table], s.column),
                          type |-> s.type])

RECURSIVE Analyze(_, _)
Analyze(cat, s) ==
  CASE s.stmt = "explain" ->
         LET inner == Analyze(cat, s.inner) IN
         IF inner.ok THEN Analyzed([stmt |-> "explain", inner |-> inner.tree]) ELSE inner
    [] s.stmt = "createTable" -> analyzeCreateTable(cat, s)
    [] s.stmt = "insert" -> analyzeInsert(cat, s)
    [] s.stmt = "select" -> analyzeSelect(cat, s)
    [] s.stmt = "createIndex" -> analyzeCreateIndex(cat, s)
=============================================================================
