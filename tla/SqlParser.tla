----------------------------- MODULE SqlParser -----------------------------
(***************************************************************************)
(* The recursive-descent parser.  Every function of the code takes and     *)
(* leaves a position in the tokens; here it maps the tokens and a position *)
(* to a result with the value and the next position, or to the position    *)
(* errorf reports.  Tokens are records with a type and a text; an          *)
(* expression is a tuple whose first element says what it is.              *)
(***************************************************************************)
EXTENDS Integers, Sequences

CONSTANT MaxInt64

ASSUME MaxInt64Assumption == MaxInt64 \in Nat

Parsed(value, p) == [ok |-> TRUE, val |-> value, pos |-> p]

\* errorf: current() stays at the last token.
Current(ts, p) == ts[IF p > Len(ts) THEN Len(ts) ELSE p]
Error(ts, p) == [ok |-> FALSE, at |-> IF p > Len(ts) THEN Len(ts) ELSE p]

\* r, and after it what the code does with its value and position.
Then(r, Continue(_, _)) == IF r.ok THEN Continue(r.val, r.pos) ELSE r

expect(ts, p, type) ==
  IF Current(ts, p).type = type THEN Parsed(Current(ts, p).text, p + 1)
                                ELSE Error(ts, p)
expectIdent(ts, p) == expect(ts, p, "IDENT")

\* match: one token further if it is of that type.
match(ts, p, type) == IF Current(ts, p).type = type THEN p + 1 ELSE p

comparisonOps == {"EQ", "NE", "LT", "LE", "GT", "GE"}

\* strconv.ParseInt: the number, and whether it has 64 bits at most.
DigitValue == [d \in {"0", "1", "7", "8", "9"} |->
                 CASE d = "0" -> 0 [] d = "1" -> 1 [] d = "7" -> 7 [] d = "8" -> 8
                   [] d = "9" -> 9]

RECURSIVE ParseInt(_)
ParseInt(text) ==
  CASE text = <<>> -> 0
    [] Head(text) = "-" -> - ParseInt(Tail(text))
    [] OTHER -> 10 * ParseInt(SubSeq(text, 1, Len(text) - 1)) + DigitValue[text[Len(text)]]

FitsInt64(n) == - MaxInt64 - 1 <= n /\ n <= MaxInt64

\* Outside WHERE the token's type is not looked at: any one is a literal.
parseLiteral(ts, p) ==
  LET token == Current(ts, p) IN
  IF token.type # "NUMBER" THEN Parsed(<<"string", token.text>>, p + 1)
  ELSE IF FitsInt64(ParseInt(token.text))
  THEN Parsed(<<"int64", ParseInt(token.text)>>, p + 1)
  ELSE Error(ts, p + 1)

RECURSIVE parseBinaryLeft(_, _, _), BinaryRest(_, _, _, _)

parseExpr(ts, p) == parseBinaryLeft(ts, p, "OR")

parsePrimary(ts, p) ==
  LET type == Current(ts, p).type IN
  CASE type = "IDENT" -> Parsed(<<"column", Current(ts, p).text>>, p + 1)
    [] type \in {"NUMBER", "STRING"} -> parseLiteral(ts, p)
    [] type = "LPAREN" ->
         Then(parseExpr(ts, p + 1), LAMBDA expr, q :
           Then(expect(ts, q, "RPAREN"), LAMBDA text, r : Parsed(expr, r)))
    [] OTHER -> Error(ts, p)

parseComparison(ts, p) ==
  Then(parsePrimary(ts, p), LAMBDA left, q :
    LET op == Current(ts, q).type IN
    IF op \notin comparisonOps THEN Parsed(left, q)
    ELSE Then(parsePrimary(ts, q + 1), LAMBDA right, r : Parsed(<<op, left, right>>, r)))

\* The operands of OR are chains of AND, those of AND are comparisons.
Operand(ts, p, op) ==
  IF op = "OR" THEN parseBinaryLeft(ts, p, "AND") ELSE parseComparison(ts, p)

parseBinaryLeft(ts, p, op) ==
  Then(Operand(ts, p, op), LAMBDA left, q : BinaryRest(ts, q, op, left))

\* The chain grows to the right.
BinaryRestRight(ts, p, op, left) ==
  IF match(ts, p, op) = p THEN Parsed(left, p)
  ELSE Then(parseBinaryLeft(ts, p + 1, op), LAMBDA right, q :
         Parsed(<<op, left, right>>, q))

BinaryRest(ts, p, op, left) ==
  IF match(ts, p, op) = p THEN Parsed(left, p)
  ELSE Then(Operand(ts, p + 1, op), LAMBDA right, q :
         BinaryRest(ts, q, op, <<op, left, right>>))

\* A column definition: an identifier may be a type name, analyzed later.
parseColumnDef(ts, p) ==
  Then(expectIdent(ts, p), LAMBDA name, q :
    IF Current(ts, q).type \in {"INT64", "VARCHAR", "IDENT"}
    THEN Parsed(<<name, Current(ts, q).text>>, q + 1)
    ELSE Error(ts, q))

ParseItem(ts, p, item) ==
  CASE item = "ident" -> expectIdent(ts, p)
    [] item = "literal" -> parseLiteral(ts, p)
    [] item = "column" -> parseColumnDef(ts, p)

RECURSIVE ListRest(_, _, _, _)

ListRest(ts, p, item, items) ==
  IF match(ts, p, "COMMA") = p THEN Parsed(items, p)
  ELSE Then(ParseItem(ts, p + 1, item), LAMBDA value, q :
         ListRest(ts, q, item, Append(items, value)))

parseCommaList(ts, p, item) ==
  Then(ParseItem(ts, p, item), LAMBDA value, q : ListRest(ts, q, item, <<value>>))

parseParenList(ts, p, item) ==
  Then(expect(ts, p, "LPAREN"), LAMBDA open, q :
    Then(parseCommaList(ts, q, item), LAMBDA items, r :
      Then(expect(ts, r, "RPAREN"), LAMBDA close, s : Parsed(items, s))))

\* Every statement takes one semicolon if there is one.
Finish(ts, p, stmt) == Parsed(stmt, match(ts, p, "SEMICOLON"))

parseCreateTable(ts, p) ==
  Then(expectIdent(ts, p + 1), LAMBDA table, q :
    Then(parseParenList(ts, q, "column"), LAMBDA columns, r :
      Finish(ts, r, [stmt |-> "createTable", table |-> table, columns |-> columns])))

parseCreateIndex(ts, p) ==
  Then(expectIdent(ts, p + 1), LAMBDA index, q1 :
  Then(expect(ts, q1, "ON"), LAMBDA on, q2 :
  Then(expectIdent(ts, q2), LAMBDA table, q3 :
  Then(expect(ts, q3, "LPAREN"), LAMBDA open, q4 :
  Then(expectIdent(ts, q4), LAMBDA column, q5 :
  Then(expect(ts, q5, "RPAREN"), LAMBDA close, q6 :
  Then(expect(ts, q6, "USING"), LAMBDA using, q7 :
    IF Current(ts, q7).type \in {"HASH", "BTREE"}
    THEN Finish(ts, q7 + 1, [stmt |-> "createIndex", index |-> index, table |-> table,
                             column |-> column, type |-> Current(ts, q7).type])
    ELSE Error(ts, q7))))))))

parseInsert(ts, p) ==
  Then(expect(ts, p + 1, "INTO"), LAMBDA into, q1 :
  Then(expectIdent(ts, q1), LAMBDA table, q2 :
  Then(expect(ts, q2, "VALUES"), LAMBDA values, q3 :
  Then(parseParenList(ts, q3, "literal"), LAMBDA literals, q4 :
    Finish(ts, q4, [stmt |-> "insert", table |-> table, values |-> literals])))))

\* WHERE is optional: << >> stands for none.
parseWhere(ts, p) ==
  IF match(ts, p, "WHERE") = p THEN Parsed(<<>>, p) ELSE parseExpr(ts, p + 1)

parseSelect(ts, p) ==
  LET all == Current(ts, p + 1).type = "ASTERISK"
      list == IF all THEN Parsed(<<>>, p + 2) ELSE parseCommaList(ts, p + 1, "ident")
  IN
  Then(list, LAMBDA columns, q1 :
  Then(expect(ts, q1, "FROM"), LAMBDA from, q2 :
  Then(expectIdent(ts, q2), LAMBDA table, q3 :
  Then(parseWhere(ts, q3), LAMBDA where, q4 :
    Finish(ts, q4, [stmt |-> "select", all |-> all, columns |-> columns,
                    table |-> table, where |-> where])))))

RECURSIVE parseStatement(_, _)

parseExplain(ts, p) ==
  Then(parseStatement(ts, p + 1), LAMBDA inner, q :
    Finish(ts, q, [stmt |-> "explain", inner |-> inner]))

parseCreate(ts, p) ==
  CASE Current(ts, p + 1).type = "TABLE" -> parseCreateTable(ts, p + 1)
    [] Current(ts, p + 1).type = "INDEX" -> parseCreateIndex(ts, p + 1)
    [] OTHER -> Error(ts, p + 1)

parseStatement(ts, p) ==
  LET type == Current(ts, p).type IN
  CASE type = "EXPLAIN" -> parseExplain(ts, p)
    [] type = "CREATE" -> parseCreate(ts, p)
    [] type = "INSERT" -> parseInsert(ts, p)
    [] type = "SELECT" -> parseSelect(ts, p)
    [] OTHER -> Error(ts, p)

\* The whole input is one statement.
Parse(tokens) ==
  Then(parseStatement(tokens, 1), LAMBDA stmt, p :
    Then(expect(tokens, p, "EOF"), LAMBDA eof, q : Parsed(stmt, q)))
=============================================================================
