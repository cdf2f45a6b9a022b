----------------------------- MODULE MCFrontEnd -----------------------------
(***************************************************************************)
(* From what the user types to the statement the server works with.  TLC   *)
(* explores sessions of the client, WHERE clauses grown symbol by symbol,  *)
(* and statements of every form.                                           *)
(***************************************************************************)
EXTENDS Cli, SqlParser, Analyzer, RowCodec, FiniteSets

CONSTANT MaxWhere  \* bound: symbols in a WHERE clause

ASSUME WidthsAgree == MaxInt64 = MaxInt

VARIABLES
  where,      \* a WHERE clause
  form        \* a statement, with its semicolons; << >> for none

vars == <<cliVars, where, form>>

\* The first half of ExecuteWithContext.
Compile(sql) ==
  LET lexed == Tokenize(sql) IN IF lexed.ok THEN Parse(lexed.tokens) ELSE lexed

-----------------------------------------------------------------------------
\* Texts.
Ident(s) == <<s>>
Spaced(symbols) == IF symbols = <<>> THEN <<>>
                   ELSE [i \in 1 .. 2 * Len(symbols) |->
                           IF i % 2 = 1 THEN " " ELSE symbols[i \div 2]]

Up(n, S) == UNION {[1 .. k -> S] : k \in 0 .. n}

MCLines == Up(2, {"a", Quote, ";", " "}) \cup [1 .. 2 -> {"<", ">", "=", "!", "-", "1"}]
           \cup {<<Quit>>, <<Quit, " ">>}

WhereSymbols == {"a", "b", "1", "9", "<", "AND", "OR", "(", ")"}

MCChars == <<"a", Quote, ";", " ">>

-----------------------------------------------------------------------------
(* What a WHERE clause means, told from its top-level operators: the last OR
   outside of parentheses if there is one, else the last AND, else the only
   comparison, else one operand; 9 is beyond the integers of the instance. *)
Invalid == <<"invalid">>

Depth(w, i) == Len(SelectSeq(SubSeq(w, 1, i), LAMBDA s : s = "("))
               - Len(SelectSeq(SubSeq(w, 1, i), LAMBDA s : s = ")"))
At(w, ops) == {i \in DOMAIN w : w[i] \in ops /\ Depth(w, i) = 0}
LastOf(S) == CHOOSE i \in S : \A j \in S : j <= i

Node(op, left, right) ==
  IF Invalid \in {left, right} THEN Invalid ELSE <<op, left, right>>

RECURSIVE Meaning(_)
Meaning(w) ==
  LET Cut(i, op) == Node(op, Meaning(SubSeq(w, 1, i - 1)),
                             Meaning(SubSeq(w, i + 1, Len(w))))
  IN
  CASE w = <<>> -> Invalid
    [] At(w, {"OR"}) # {} -> Cut(LastOf(At(w, {"OR"})), "OR")
    [] At(w, {"AND"}) # {} -> Cut(LastOf(At(w, {"AND"})), "AND")
    [] Cardinality(At(w, {"<"})) = 1 -> Cut(LastOf(At(w, {"<"})), "LT")
    [] Len(w) = 1 /\ w[1] \in {"a", "b"} -> <<"column", w>>
    [] Len(w) = 1 /\ w[1] = "1" -> <<"int64", 1>>
    [] w[1] = "(" /\ w[Len(w)] = ")" -> Meaning(SubSeq(w, 2, Len(w) - 1))
    [] OTHER -> Invalid

-----------------------------------------------------------------------------
\* Statements, and how they are written.
Columns == {Ident("a"), Ident("b")}
Table == Ident("t")
Literals == {<<"int64", n>> : n \in {-8, -1, 1, 7}}
            \cup {<<"string", str>> : str \in {<<>>, <<"a", Quote>>, <<";", " ", "a">>,
                                             <<"a", "a", "a", "a">>}}
Operators == {"EQ", "NE", "LT", "LE", "GT", "GE"}
Comparisons == {<<op, <<"column", Ident("a")>>, v>> : op \in Operators, v \in Literals}
Some == {<<"EQ", <<"column", Ident("a")>>, <<"int64", 1>>>>,
         <<"column", Ident("b")>>}
Deep == {<<op, l, r>> : op \in {"AND", "OR", "GE"}, l \in Some, r \in Some}
Deeper == {<<op, l, r>> : op \in {"AND", "OR", "LT"}, l \in Deep, r \in Deep}

Nonempty(n, S) == Up(n, S) \ {<<>>}

Simple ==
  [stmt : {"createTable"}, table : {Table},
   columns : Nonempty(2, Columns \X {<<"INT64">>, <<"VARCHAR">>, <<"INT">>, Ident("b")})]
  \cup [stmt : {"createIndex"}, index : Columns, table : {Table}, column : Columns,
        type : {"HASH", "BTREE"}]
  \cup [stmt : {"insert"}, table : {Table}, values : Nonempty(3, Literals)]
  \cup {[stmt |-> "select", all |-> cols = <<>>, columns |-> cols, table |-> Table,
         where |-> e] :
        cols \in Up(2, Columns), e \in {<<>>} \cup Comparisons \cup Some \cup Deep}
  \cup {[stmt |-> "select", all |-> TRUE, columns |-> <<>>, table |-> Table,
         where |-> e] : e \in Deeper}

RECURSIVE Doubled(_)
Doubled(value) ==
  IF value = <<>> THEN <<>>
  ELSE IF Head(value) = Quote THEN <<Quote, Quote>> \o Doubled(Tail(value))
  ELSE <<Head(value)>> \o Doubled(Tail(value))

Digit(n) == CHOOSE d \in DOMAIN DigitValue : DigitValue[d] = n

WriteLiteral(v) ==
  CASE v[1] = "string" -> <<Quote>> \o Doubled(v[2]) \o <<Quote>>
    [] v[2] < 0 -> <<"-", Digit(-v[2])>>
    [] OTHER -> <<Digit(v[2])>>

WriteOp(op) ==
  CASE op = "EQ" -> <<"=">> [] op = "NE" -> <<"<", ">">> [] op = "LT" -> <<"<">>
    [] op = "LE" -> <<"<", "=">> [] op = "GT" -> <<">">> [] op = "GE" -> <<">", "=">>
    [] OTHER -> <<" ", op, " ">>

\* How tightly an expression binds, and how tightly an operand has to.
Binds(e) == CASE e[1] = "OR" -> 0 [] e[1] = "AND" -> 1
              [] e[1] \in Operators -> 2 [] OTHER -> 3
LeftMust(e) == IF Binds(e) = 2 THEN 3 ELSE Binds(e)
RightMust(e) == Binds(e) + 1

RECURSIVE WriteExpr(_, _)
WriteExpr(e, must) ==
  CASE Binds(e) < must -> <<"(">> \o WriteExpr(e, 0) \o <<")">>
    [] e[1] = "column" -> e[2]
    [] e[1] \in {"int64", "string"} -> WriteLiteral(e)
    [] OTHER -> WriteExpr(e[2], LeftMust(e)) \o WriteOp(e[1])
                \o WriteExpr(e[3], RightMust(e))

RECURSIVE WriteList(_)
WriteList(texts) ==
  IF Len(texts) = 1 THEN texts[1] ELSE texts[1] \o <<",">> \o WriteList(Tail(texts))

RECURSIVE Write(_)
Write(s) ==
  CASE s.stmt = "createTable" ->
         <<"CREATE", " ", "TABLE", " ">> \o s.table \o <<"(">>
         \o WriteList([i \in DOMAIN s.columns |->
                         s.columns[i][1] \o <<"\n">> \o s.columns[i][2]]) \o <<")">>
    [] s.stmt = "createIndex" ->
         <<"CREATE", " ", "INDEX", " ">> \o s.index \o <<" ", "ON", " ">> \o s.table
         \o <<"(">> \o s.column \o <<")", "USING", " ", s.type>>
    [] s.stmt = "insert" ->
         <<"INSERT", " ", "INTO", " ">> \o s.table \o <<" ", "VALUES", "(">>
         \o WriteList([i \in DOMAIN s.values |-> WriteLiteral(s.values[i])]) \o <<")">>
    [] s.stmt = "select" ->
         <<"SELECT", " ">>
         \o (IF s.all THEN <<"*">> ELSE WriteList(s.columns))
         \o <<" ", "FROM", " ">> \o s.table
         \o (IF s.where = <<>> THEN <<>> ELSE <<" ", "WHERE", " ">> \o WriteExpr(s.where, 0))
    [] s.stmt = "explain" -> <<"EXPLAIN", " ">> \o Write(s.inner)

-----------------------------------------------------------------------------
Init == CliInit /\ where = <<>> /\ form = <<>>

TypeLine ==
  /\ where = <<>> /\ form = <<>>
  /\ CliNext
  /\ UNCHANGED <<where, form>>

GrowWhere ==
  /\ typed = <<>> /\ form = <<>> /\ cli = "reading"
  /\ Len(where) < MaxWhere
  /\ \E s \in WhereSymbols : where' = Append(where, s)
  /\ UNCHANGED <<cliVars, form>>

WriteStatement ==
  /\ typed = <<>> /\ where = <<>> /\ form = <<>> /\ cli = "reading"
  /\ \E s \in Simple : \E explains \in 0 .. 2 : \E semicolons \in 0 .. explains + 1 :
       form' = <<s, explains, semicolons>>
  /\ UNCHANGED <<cliVars, where>>

Next == TypeLine \/ GrowWhere \/ WriteStatement

Spec == Init /\ [][Next]_vars

-----------------------------------------------------------------------------
WhereStatement ==
  Compile(<<"SELECT", " ", "*", "FROM", " ", "t", " ", "WHERE">> \o Spaced(where))

(* The parser accepts exactly the WHERE clauses of the grammar, with AND over
   OR, both to the left, comparisons of operands only, balanced parentheses
   and integers of 64 bits, and builds the tree that says so. *)
WhereIsExact ==
  IF Meaning(where) = Invalid THEN ~WhereStatement.ok
  ELSE WhereStatement.ok /\ WhereStatement.val.where = Meaning(where)

-----------------------------------------------------------------------------
\* The catalog after CREATE TABLE t with columns a, b, t of the named types.
CatalogOf(names) ==
  LET create == [stmt |-> "createTable", table |-> Table,
                 columns |-> [i \in DOMAIN names |->
                                <<(<<Ident("a"), Ident("b"), Table>>)[i], names[i]>>]]
      none == [tables |-> <<>>, indexes |-> {}]
  IN  [tables |-> [n \in {Table} |-> Analyze(none, create).tree.columns], indexes |-> {}]

RowsOfT == {<<"int64", -1>>, <<"int64", 1>>, <<"int64", 7>>}
           \X {<<"string", <<>>>>, <<"string", <<"a", Quote>>>>}

\* No panic in expr or below, and a boolean exactly where one is expected.
RECURSIVE SafeOn(_, _)
SafeOn(expr, row) ==
  CASE expr[1] \in {"position", "int64", "string"} -> TRUE
    [] OTHER -> /\ SafeOn(expr[2], row) /\ SafeOn(expr[3], row)
                /\ eval(expr, row) # Panic
                /\ \A i \in {2, 3} :
                     (eval(expr[i], row)[1] = "bool") <=> (expr[1] \in {"AND", "OR"})

(* A WHERE clause the analyzer accepts cannot end the server or be silently
   false: on every row of the table compare's type assertions hold, and
   evalBool finds a boolean wherever it looks for one. *)
AcceptedFilterIsSafe ==
  WhereStatement.ok =>
    LET analyzed == Analyze(CatalogOf(<<<<"INT">>, <<"VARCHAR">>>>), WhereStatement.val) IN
    analyzed.ok =>
      \A row \in RowsOfT : /\ SafeOn(analyzed.tree.filter, row)
                           /\ eval(analyzed.tree.filter, row)[1] = "bool"

-----------------------------------------------------------------------------
Explained(s, n) ==
  CASE n = 0 -> s [] n = 1 -> [stmt |-> "explain", inner |-> s]
    [] n = 2 -> [stmt |-> "explain", inner |-> [stmt |-> "explain", inner |-> s]]

(* Every statement of the language, written down, is read back as itself:
   string literals with quotes and semicolons inside, negative numbers, the
   largest and the smallest integer, operators of two symbols, minimal
   parentheses, EXPLAIN of EXPLAIN, with or without its semicolons. *)
StatementsReadBack ==
  form # <<>> =>
    LET s == Explained(form[1], form[2])
        r == Compile(Write(s) \o [i \in 1 .. form[3] |-> ";"])
    IN  r.ok /\ r.val = s

(* The values of an INSERT that the analyzer accepts, for whatever column
   types, are read back from the record that serializeRow makes of them; only
   a VARCHAR of more than 255 bytes is refused. *)
RowsReadBack ==
  form # <<>> /\ form[1].stmt = "insert" =>
    \A names \in [DOMAIN form[1].values -> {<<"INT">>, <<"VARCHAR">>}] :
      LET columns == CatalogOf(names).tables[Table]
          types == [i \in DOMAIN columns |-> columns[i][2]]
          analyzed == Analyze(CatalogOf(names), form[1])
          data == serializeRow(types, analyzed.tree.values)
          back == deserializeRow(types, data.val)
      IN
      analyzed.ok =>
        IF data.ok THEN back.ok /\ back.val = form[1].values
        ELSE \E i \in DOMAIN types : types[i] = "VARCHAR"
                                    /\ Len(form[1].values[i][2]) > maxVarCharLength
=============================================================================
