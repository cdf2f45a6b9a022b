------------------------------ MODULE KeyRange ------------------------------
(***************************************************************************)
(* The key ranges of the optimizer: rangeInfo, its builders and its merge, *)
(* and the range that a B-tree's RangeSearch answers.  Keys are integers,  *)
(* standing for INT64 and, in their byte order, VARCHAR values.            *)
(***************************************************************************)
EXTENDS Integers

CONSTANT Nil    \* an absent bound, or no range at all

ASSUME NilAssumption == Nil \notin Int

Comparisons == {"=", "<>", "<", "<=", ">", ">="}

Ranges(Columns) ==
  [column : Columns, from : Int \cup {Nil}, fromInclusive : BOOLEAN,
   to : Int \cup {Nil}, toInclusive : BOOLEAN]

\* invertedOps: the operator when column and constant change sides.
invertOpNot(op) == op
invertOp(op) ==
  CASE op = "<"  -> ">"
    [] op = "<=" -> ">="
    [] op = ">"  -> "<"
    [] op = ">=" -> "<="
    [] OTHER     -> op

\* rangeBuilders, and extractSingleRange's answer for an operator without one.
Unbounded(column) ==
  [column |-> column, from |-> Nil, fromInclusive |-> FALSE,
   to |-> Nil, toInclusive |-> FALSE]

BuildRange(column, op, v) ==
  LET r == Unbounded(column) IN
  CASE op = "="  -> [r EXCEPT !.from = v, !.fromInclusive = TRUE,
                              !.to = v, !.toInclusive = TRUE]
    [] op = ">"  -> [r EXCEPT !.from = v]
    [] op = ">=" -> [r EXCEPT !.from = v, !.fromInclusive = TRUE]
    [] op = "<"  -> [r EXCEPT !.to = v]
    [] op = "<=" -> [r EXCEPT !.to = v, !.toInclusive = TRUE]
    [] OTHER     -> Nil

\* mergeFrom and mergeTo: the tighter of two bounds.
mergeFrom(l, r) ==
  IF l.from = Nil THEN <<r.from, r.fromInclusive>>
  ELSE IF r.from = Nil \/ l.from > r.from THEN <<l.from, l.fromInclusive>>
  ELSE IF l.from < r.from THEN <<r.from, r.fromInclusive>>
  ELSE <<l.from, l.fromInclusive /\ r.fromInclusive>>

mergeTo(l, r) ==
  IF l.to = Nil THEN <<r.to, r.toInclusive>>
  ELSE IF r.to = Nil \/ l.to < r.to THEN <<l.to, l.toInclusive>>
  ELSE IF l.to > r.to THEN <<r.to, r.toInclusive>>
  ELSE <<l.to, l.toInclusive /\ r.toInclusive>>

\* mergeRanges: Nil when the bounds cross.
mergeRanges(l, r) ==
  LET from == mergeFrom(l, r)
      to == mergeTo(l, r)
  IN  IF from[1] # Nil /\ to[1] # Nil /\ from[1] > to[1] THEN Nil
      ELSE [column |-> l.column, from |-> from[1], fromInclusive |-> from[2],
            to |-> to[1], toInclusive |-> to[2]]

\* mergeAndRanges: the range of an AND from the ranges of its operands.
mergeAndRanges(l, r) ==
  IF l = Nil THEN r
  ELSE IF r = Nil THEN l
  ELSE IF l.column # r.column THEN Nil
  ELSE mergeRanges(l, r)

\* The keys RangeSearch returns the TIDs of.
AboveFrom(r, k) == r.from # Nil => r.from < k \/ (r.fromInclusive /\ r.from = k)
BelowTo(r, k) == r.to # Nil => k < r.to \/ (r.toInclusive /\ r.to = k)
InRange(r, k) == AboveFrom(r, k) /\ BelowTo(r, k)

\* evalBinary of the filter, for a comparison.
Compare(op, x, y) ==
  CASE op = "="  -> x = y
    [] op = "<>" -> x # y
    [] op = "<"  -> x < y
    [] op = "<=" -> x <= y
    [] op = ">"  -> x > y
    [] op = ">=" -> x >= y
==============================================================================
