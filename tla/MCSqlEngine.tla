---------------------------- MODULE MCSqlEngine ----------------------------
(***************************************************************************)
(* SqlEngine with a table of two columns, values 1 .. 2.                   *)
(***************************************************************************)
EXTENDS SqlEngine

Column(c) == [column |-> c]
Const(v) == [value |-> v]
Op(op, l, r) == [op |-> op, left |-> l, right |-> r]

\* Comparisons of a column, on either side, and a constant, ...
Equal2 == Op("=", Column("a"), Const(2))
Above1 == Op("<", Const(1), Column("a"))
Below2 == Op(">", Const(2), Column("a"))
From2 == Op("<=", Const(2), Column("a"))
UpTo2 == Op("<=", Column("a"), Const(2))
Not2 == Op("<>", Const(2), Column("a"))
B1 == Op("=", Const(1), Column("b"))
\* ... and one of two columns, which has no range.
Across == Op(">=", Column("a"), Column("b"))

\* Ranges that touch, cross, meet in one key or are on different columns, and
\* an operand without a range beside one that has one.
Touching == Op("AND", Across, Above1)
OneKey == Op("AND", From2, UpTo2)
Crossing == Op("AND", Above1, Below2)
Either == Op("OR", Not2, B1)

MCQueries ==
  {Equal2, Op("AND", Touching, OneKey), Op("AND", Crossing, B1),
   Op("AND", UpTo2, Either)}
MCPredicates ==
  MCQueries \cup {Above1, Below2, From2, UpTo2, Not2, B1, Across,
                  Touching, OneKey, Crossing, Either}

MCRows == {[a |-> 1, b |-> 2], [a |-> 2, b |-> 1]}

MCIndexes ==
  {[name |-> "h", column |-> "a", type |-> "HASH"],
   [name |-> "t", column |-> "a", type |-> "BTREE"]}
============================================================================
