--------------------------- MODULE SqlEngineProofs ---------------------------
(***************************************************************************)
(* The SQL engine answers correctly, for every table, every set of indexes *)
(* and every WHERE clause: the range of a plan covers the clause           *)
(* (PlanCovers); and with one writing session and any number of readers an *)
(* index agrees with its table (IndexAgrees) and a SELECT returns exactly  *)
(* the rows it owes (SelectExact).                                         *)
(***************************************************************************)
EXTENDS SqlEngine, SetFacts, TLAPS

-----------------------------------------------------------------------------
(* The optimizer's ranges are right for all keys: a comparison's range has
   exactly the keys that satisfy it, the merge of two ranges is their
   intersection, and so the range of an AND has every row the AND accepts. *)

(* invertOp turns a comparison with the constant on the left into the same
   comparison with the column on the left. *)
THEOREM InvertMirrors ==
  ASSUME NEW op \in Comparisons, NEW x \in Int, NEW y \in Int
  PROVE  Compare(invertOp(op), y, x) <=> Compare(op, x, y)
BY DEF Comparisons, Compare, invertOp

(* The range built for an operator holds exactly the keys for which the filter
   accepts the comparison; there is none for <>. *)
THEOREM BuildIsExact ==
  ASSUME NEW column, NEW op \in Comparisons, NEW v \in Int, NEW k \in Int
  PROVE  IF op = "<>" THEN BuildRange(column, op, v) = Nil
         ELSE InRange(BuildRange(column, op, v), k) <=> Compare(op, k, v)
<1> DEFINE B == BuildRange(column, op, v)
<1>1. CASE op = "<>"
  BY <1>1 DEF BuildRange
<1>2. CASE op = "="
  <2>1. B.from = v /\ B.to = v /\ B.fromInclusive = TRUE /\ B.toInclusive = TRUE
    BY <1>2 DEF BuildRange, Unbounded
  <2> QED BY <1>2, <2>1, NilAssumption DEF InRange, AboveFrom, BelowTo, Compare
<1>3. CASE op = "<"
  <2>1. B.from = Nil /\ B.to = v /\ B.toInclusive = FALSE
    BY <1>3 DEF BuildRange, Unbounded
  <2> QED BY <1>3, <2>1, NilAssumption DEF InRange, AboveFrom, BelowTo, Compare
<1>4. CASE op = "<="
  <2>1. B.from = Nil /\ B.to = v /\ B.toInclusive = TRUE
    BY <1>4 DEF BuildRange, Unbounded
  <2> QED BY <1>4, <2>1, NilAssumption DEF InRange, AboveFrom, BelowTo, Compare
<1>5. CASE op = ">"
  <2>1. B.to = Nil /\ B.from = v /\ B.fromInclusive = FALSE
    BY <1>5 DEF BuildRange, Unbounded
  <2> QED BY <1>5, <2>1, NilAssumption DEF InRange, AboveFrom, BelowTo, Compare
<1>6. CASE op = ">="
  <2>1. B.to = Nil /\ B.from = v /\ B.fromInclusive = TRUE
    BY <1>6 DEF BuildRange, Unbounded
  <2> QED BY <1>6, <2>1, NilAssumption DEF InRange, AboveFrom, BelowTo, Compare
<1> QED BY <1>1, <1>2, <1>3, <1>4, <1>5, <1>6 DEF Comparisons

\* Both bounds of the merge, apart from each other.
LEMMA MergeFromAbove ==
  ASSUME NEW Cols, NEW l \in Ranges(Cols), NEW r \in Ranges(Cols),
         NEW k \in Int
  PROVE  /\ mergeFrom(l, r)[1] \in Int \cup {Nil}
         /\ mergeFrom(l, r)[2] \in BOOLEAN
         /\ (mergeFrom(l, r)[1] # Nil =>
               \/ mergeFrom(l, r)[1] < k
               \/ mergeFrom(l, r)[2] /\ mergeFrom(l, r)[1] = k)
            <=> AboveFrom(l, k) /\ AboveFrom(r, k)
BY NilAssumption DEF Ranges, mergeFrom, AboveFrom

LEMMA MergeToBelow ==
  ASSUME NEW Cols, NEW l \in Ranges(Cols), NEW r \in Ranges(Cols),
         NEW k \in Int
  PROVE  /\ mergeTo(l, r)[1] \in Int \cup {Nil}
         /\ mergeTo(l, r)[2] \in BOOLEAN
         /\ (mergeTo(l, r)[1] # Nil =>
               \/ k < mergeTo(l, r)[1]
               \/ mergeTo(l, r)[2] /\ mergeTo(l, r)[1] = k)
            <=> BelowTo(l, k) /\ BelowTo(r, k)
BY NilAssumption DEF Ranges, mergeTo, BelowTo

(* mergeRanges is the intersection: a key is in the merged range exactly when
   it is in both, and where the merge gives up because the bounds cross, no
   key is in both. *)
THEOREM MergeIsIntersection ==
  ASSUME NEW Cols, NEW l \in Ranges(Cols), NEW r \in Ranges(Cols),
         NEW k \in Int, Nil \notin Ranges(Cols)
  PROVE  IF mergeRanges(l, r) = Nil THEN ~(InRange(l, k) /\ InRange(r, k))
         ELSE InRange(mergeRanges(l, r), k) <=> InRange(l, k) /\ InRange(r, k)
<1> DEFINE f == mergeFrom(l, r)
           t == mergeTo(l, r)
           m == [column |-> l.column, from |-> f[1], fromInclusive |-> f[2],
                 to |-> t[1], toInclusive |-> t[2]]
<1>1. /\ f[1] \in Int \cup {Nil}
      /\ f[2] \in BOOLEAN
      /\ (f[1] # Nil => f[1] < k \/ (f[2] /\ f[1] = k))
         <=> AboveFrom(l, k) /\ AboveFrom(r, k)
  BY MergeFromAbove
<1>2. /\ t[1] \in Int \cup {Nil}
      /\ t[2] \in BOOLEAN
      /\ (t[1] # Nil => k < t[1] \/ (t[2] /\ t[1] = k))
         <=> BelowTo(l, k) /\ BelowTo(r, k)
  BY MergeToBelow
<1>3. CASE f[1] # Nil /\ t[1] # Nil /\ f[1] > t[1]
  <2>1. mergeRanges(l, r) = Nil
    BY <1>3 DEF mergeRanges
  <2>2. ~(InRange(l, k) /\ InRange(r, k))
    <3> HIDE DEF f, t
    <3> QED BY <1>1, <1>2, <1>3 DEF InRange
  <2> QED BY <2>1, <2>2
<1>4. CASE ~(f[1] # Nil /\ t[1] # Nil /\ f[1] > t[1])
  <2>1. mergeRanges(l, r) = m
    BY <1>4 DEF mergeRanges
  <2>2. InRange(m, k) <=> InRange(l, k) /\ InRange(r, k)
    <3> HIDE DEF f, t
    <3> QED BY <1>1, <1>2 DEF InRange, AboveFrom, BelowTo
  <2>3. m \in Ranges(Cols)
    <3> HIDE DEF f, t
    <3> QED BY <1>1, <1>2 DEF Ranges
  <2> QED BY <2>1, <2>2, <2>3
<1> QED BY <1>3, <1>4

(* The step from the operands of an AND to the AND: a row that lies in the
   range of each operand that has one lies in the merged range, whichever
   columns the operands are about. *)
THEOREM MergeAndCovers ==
  ASSUME NEW Cols, NEW row \in [Cols -> Int], Nil \notin Ranges(Cols),
         NEW l \in Ranges(Cols) \cup {Nil}, NEW r \in Ranges(Cols) \cup {Nil},
         l # Nil => InRange(l, row[l.column]),
         r # Nil => InRange(r, row[r.column]),
         mergeAndRanges(l, r) # Nil
  PROVE  InRange(mergeAndRanges(l, r), row[mergeAndRanges(l, r).column])
<1>1. CASE l = Nil \/ r = Nil
  BY <1>1 DEF mergeAndRanges
<1>2. CASE l # Nil /\ r # Nil
  <2>1. /\ l \in Ranges(Cols)
        /\ r \in Ranges(Cols)
        /\ l.column = r.column
        /\ mergeAndRanges(l, r) = mergeRanges(l, r)
        /\ row[l.column] \in Int
    BY <1>2 DEF mergeAndRanges, Ranges
  <2>2. mergeRanges(l, r).column = l.column
    BY <2>1 DEF mergeRanges
  <2>3. InRange(mergeRanges(l, r), row[l.column])
    BY <1>2, <2>1, MergeIsIntersection
  <2> QED BY <2>1, <2>2, <2>3
<1> QED BY <1>1, <1>2

-----------------------------------------------------------------------------
(* evalBool and extractRange are defined by recursion on the clause.  Both
   recursions have a solution: their common shape is solved step by step on
   ever larger sets of clauses that have their operands with them. *)

\* What evalBool (of a row) and extractRange say of p, from f of its operands.
Body(what, row, f, p) ==
  IF what = "holds"
  THEN CASE p.op = "AND" -> f[p.left] /\ f[p.right]
         [] p.op = "OR"  -> f[p.left] \/ f[p.right]
         [] OTHER        -> Compare(p.op, eval(p.left, row), eval(p.right, row))
  ELSE CASE p.op = "AND" -> mergeAndRanges(f[p.left], f[p.right])
         [] p.op = "OR"  -> Nil
         [] OTHER        -> extractSingleRange(p)

Closed(D) ==
  /\ D \in SUBSET Predicates
  /\ \A p \in D : p.op \in Connectives => {p.left, p.right} \subseteq D

Solves(what, row, D, f) == Closed(D) /\ f = [p \in D |-> Body(what, row, f, p)]

\* Body looks at its function only at the operands of a connective.
LEMMA BodyIsLocal ==
  ASSUME NEW what, NEW row, NEW f, NEW g, NEW p,
         p.op \in Connectives => f[p.left] = g[p.left] /\ f[p.right] = g[p.right]
  PROVE  Body(what, row, f, p) = Body(what, row, g, p)
BY DEF Body, Connectives

\* Two solutions agree where both are defined.
LEMMA SolutionsAgree ==
  ASSUME NEW what, NEW row, NEW D, NEW E, NEW f, NEW g,
         Solves(what, row, D, f), Solves(what, row, E, g)
  PROVE  \A p \in D \cap E : f[p] = g[p]
<1> DEFINE S == {p \in D \cap E : f[p] # g[p]}
<1> SUFFICES ASSUME S # {} PROVE FALSE
  OBVIOUS
<1>1. S \in SUBSET Predicates
  BY DEF Solves, Closed
<1>2. PICK p \in S : p.op \in Connectives => {p.left, p.right} \cap S = {}
  BY <1>1, FiniteTreesAssumption
<1>3. p \in D /\ p \in E /\ f[p] # g[p]
  OBVIOUS
<1>4. p.op \in Connectives => p.left \in D \cap E /\ p.right \in D \cap E
  BY <1>3 DEF Solves, Closed
<1>5. p.op \in Connectives => f[p.left] = g[p.left] /\ f[p.right] = g[p.right]
  BY <1>2, <1>4
<1>6. Body(what, row, f, p) = Body(what, row, g, p)
  BY <1>5, BodyIsLocal
<1>7. f[p] = Body(what, row, f, p) /\ g[p] = Body(what, row, g, p)
  BY <1>3 DEF Solves
<1> QED BY <1>3, <1>6, <1>7

LEMMA SolutionExists ==
  ASSUME NEW what, NEW row
  PROVE  \E f : f = [p \in Predicates |-> Body(what, row, f, p)]
<1> DEFINE Sol(D, f) == Solves(what, row, D, f)
           G == {p \in Predicates : \E D \in SUBSET Predicates : \E f : Sol(D, f) /\ p \in D}
           Val(p) == CHOOSE v : \E D \in SUBSET Predicates :
                                  \E f : Sol(D, f) /\ p \in D /\ v = f[p]
           s == [p \in G |-> Val(p)]
<1>1. ASSUME NEW D \in SUBSET Predicates, NEW f, Sol(D, f), NEW p \in D
      PROVE  p \in G /\ s[p] = f[p]
  <2>1. p \in G
    BY <1>1
  <2>2. \E v : \E E \in SUBSET Predicates :
                 \E g : Sol(E, g) /\ p \in E /\ v = g[p]
    BY <1>1
  <2>3. PICK E \in SUBSET Predicates : \E g : Sol(E, g) /\ p \in E /\ Val(p) = g[p]
    <3> HIDE DEF Sol
    <3> QED BY <2>2
  <2>4. PICK g : Sol(E, g) /\ p \in E /\ Val(p) = g[p]
    BY <2>3
  <2>5. f[p] = g[p]
    BY <1>1, <2>4, SolutionsAgree
  <2> QED BY <2>1, <2>4, <2>5
<1>2. ASSUME NEW p \in G
      PROVE  /\ p.op \in Connectives => p.left \in G /\ p.right \in G
             /\ s[p] = Body(what, row, s, p)
  <2>1. PICK D \in SUBSET Predicates : \E f : Sol(D, f) /\ p \in D
    BY <1>2
  <2>2. PICK f : Sol(D, f) /\ p \in D
    BY <2>1
  <2>3. p.op \in Connectives => p.left \in D /\ p.right \in D
    BY <2>2 DEF Solves, Closed
  <2>4. \A q \in D : q \in G /\ s[q] = f[q]
    <3> HIDE DEF G, s, Sol
    <3> QED BY <1>1, <2>2
  <2>5. f[p] = Body(what, row, f, p)
    BY <2>2 DEF Solves
  <2>6. Body(what, row, f, p) = Body(what, row, s, p)
    <3>1. p.op \in Connectives => f[p.left] = s[p.left] /\ f[p.right] = s[p.right]
      BY <2>3, <2>4
    <3> HIDE DEF s
    <3> QED BY <3>1, BodyIsLocal
  <2> QED BY <2>2, <2>3, <2>4, <2>5, <2>6
<1>3. G \in SUBSET Predicates /\ DOMAIN s = G /\ s = [p \in G |-> s[p]]
  OBVIOUS
<1> HIDE DEF G, s
<1>4. ASSUME Predicates \ G # {} PROVE FALSE
  <2>1. PICK p \in Predicates \ G :
          p.op \in Connectives => {p.left, p.right} \cap (Predicates \ G) = {}
    BY <1>4, FiniteTreesAssumption
  <2>2. p.op \in Connectives => p.left \in G /\ p.right \in G
    BY <2>1, PredicatesAssumption
  <2> DEFINE D == G \cup {p}
             h == [q \in D |-> IF q \in G THEN s[q] ELSE Body(what, row, s, p)]
  <2>3. D \in SUBSET Predicates /\ p \in D
    BY <1>3
  <2>4. Closed(D)
    BY <1>2, <2>2, <2>3 DEF Closed
  <2>5. \A q \in G : h[q] = s[q]
    OBVIOUS
  <2>6. h[p] = Body(what, row, s, p)
    BY <2>1
  <2>7. \A q \in D : q.op \in Connectives => q.left \in G /\ q.right \in G
    BY <1>2, <2>2
  <2>8. ASSUME NEW q \in D PROVE h[q] = Body(what, row, h, q)
    <3>1. q.op \in Connectives => s[q.left] = h[q.left] /\ s[q.right] = h[q.right]
      BY <2>5, <2>7
    <3>2. Body(what, row, s, q) = Body(what, row, h, q)
      <4> HIDE DEF h
      <4> QED BY <3>1, BodyIsLocal
    <3>3. h[q] = Body(what, row, s, q)
      BY <1>2, <2>5, <2>6
    <3> QED BY <3>2, <3>3
  <2>9. h = [q \in D |-> h[q]]
    OBVIOUS
  <2>10. h = [q \in D |-> Body(what, row, h, q)]
    <3> HIDE DEF h, D
    <3> QED BY <2>8, <2>9
  <2>11. Sol(D, h)
    BY <2>4, <2>10 DEF Solves
  <2>12. p \in G
    <3> HIDE DEF h, D, Sol
    <3> QED BY <2>3, <2>11, <1>1
  <2> QED BY <2>1, <2>12
<1>5. G = Predicates
  BY <1>3, <1>4
<1>6. s = [p \in Predicates |-> Body(what, row, s, p)]
  <2>1. \A p \in Predicates : s[p] = Body(what, row, s, p)
    BY <1>2, <1>5
  <2> QED BY <1>3, <1>5, <2>1
<1> QED BY <1>6

\* What evalBool says of a clause, in terms of its operands.
LEMMA EvalBoolUnfolds ==
  ASSUME NEW row, NEW p \in Predicates
  PROVE  evalBool(p, row) =
           CASE p.op = "AND" -> evalBool(p.left, row) /\ evalBool(p.right, row)
             [] p.op = "OR"  -> evalBool(p.left, row) \/ evalBool(p.right, row)
             [] OTHER        -> Compare(p.op, eval(p.left, row), eval(p.right, row))
<1> DEFINE g == CHOOSE f : f = [q \in Predicates |-> Body("holds", row, f, q)]
<1>1. g = [q \in Predicates |-> Body("holds", row, g, q)]
  BY SolutionExists
<1>2. \A q : evalBool(q, row) = g[q]
  BY DEF evalBool, Body
<1> HIDE DEF g
<1>3. g[p] = Body("holds", row, g, p)
  BY <1>1
<1> QED BY <1>2, <1>3 DEF Body

\* And what extractRange says.
LEMMA ExtractRangeUnfolds ==
  ASSUME NEW p \in Predicates
  PROVE  extractRange(p) =
           CASE p.op = "AND" -> mergeAndRanges(extractRange(p.left), extractRange(p.right))
             [] p.op = "OR"  -> Nil
             [] OTHER        -> extractSingleRange(p)
<1> DEFINE g == CHOOSE f : f = [q \in Predicates |-> Body("range", Nil, f, q)]
<1>1. g = [q \in Predicates |-> Body("range", Nil, g, q)]
  BY SolutionExists
<1>2. \A q : extractRange(q) = g[q]
  BY DEF extractRange, Body
<1> HIDE DEF g
<1>3. g[p] = Body("range", Nil, g, p)
  BY <1>1
<1> QED BY <1>2, <1>3 DEF Body

-----------------------------------------------------------------------------
(* The optimizer's range of a clause holds the key of every row that the
   clause accepts. *)

LEMMA BuildIsRange ==
  ASSUME NEW c \in Columns, NEW op \in Comparisons, NEW v \in Int
  PROVE  /\ BuildRange(c, op, v) \in Ranges(Columns) \cup {Nil}
         /\ BuildRange(c, op, v) # Nil => BuildRange(c, op, v).column = c
         /\ BuildRange(c, op, v) = Nil <=> op = "<>"
<1> DEFINE B == BuildRange(c, op, v)
<1>1. B \in Ranges(Columns) \cup {Nil}
  BY DEF BuildRange, Unbounded, Ranges, Comparisons
<1>2. op # "<>" => B \in Ranges(Columns) /\ B.column = c
  BY DEF BuildRange, Unbounded, Ranges, Comparisons
<1>3. op = "<>" => B = Nil
  BY DEF BuildRange
<1> HIDE DEF B
<1> QED BY <1>1, <1>2, <1>3, NilRangeAssumption DEF B

\* A comparison of a column with a constant: its range is exact.
LEMMA SingleRangeIsExact ==
  ASSUME NEW p \in Predicates, p.op \in Comparisons,
         NEW row \in [Columns -> Int]
  PROVE  LET r == extractSingleRange(p) IN
         /\ r \in Ranges(Columns) \cup {Nil}
         /\ r # Nil =>
              InRange(r, row[r.column]) <=>
                Compare(p.op, eval(p.left, row), eval(p.right, row))
<1> DEFINE r == extractSingleRange(p)
<1>0. \A e \in {p.left, p.right} :
        /\ IsColumn(e) => ~IsConst(e) /\ e.column \in Columns
        /\ ~IsColumn(e) => IsConst(e) /\ e.value \in Int
  BY PredicatesAssumption
<1>1. CASE IsColumn(p.left) /\ IsConst(p.right)
  <2>0. ~IsConst(p.left)
    BY <1>0, <1>1
  <2>1. r = BuildRange(p.left.column, p.op, p.right.value)
    BY <1>1, <2>0 DEF extractSingleRange
  <2>2. p.left.column \in Columns /\ p.right.value \in Int /\ row[p.left.column] \in Int
    BY <1>0, <1>1
  <2>3. eval(p.left, row) = row[p.left.column] /\ eval(p.right, row) = p.right.value
    BY <1>0, <1>1 DEF eval
  <2> HIDE DEF r
  <2>4. /\ r \in Ranges(Columns) \cup {Nil}
        /\ r # Nil => r.column = p.left.column /\ p.op # "<>"
    BY <2>1, <2>2, BuildIsRange
  <2>5. p.op # "<>" => (InRange(r, row[p.left.column]) <=>
                          Compare(p.op, row[p.left.column], p.right.value))
    BY <2>1, <2>2, BuildIsExact
  <2> QED BY <2>3, <2>4, <2>5 DEF r
<1>2. CASE IsConst(p.left) /\ IsColumn(p.right)
  <2>1. ~IsColumn(p.left) /\ ~IsConst(p.right)
    BY <1>0, <1>2
  <2>2. r = BuildRange(p.right.column, invertOp(p.op), p.left.value)
    BY <1>2, <2>1 DEF extractSingleRange
  <2>3. /\ p.right.column \in Columns
        /\ p.left.value \in Int
        /\ row[p.right.column] \in Int
    BY <1>0, <1>2, <2>1
  <2>4. eval(p.right, row) = row[p.right.column] /\ eval(p.left, row) = p.left.value
    BY <1>0, <1>2, <2>1 DEF eval
  <2>5. invertOp(p.op) \in Comparisons
    BY DEF invertOp, Comparisons
  <2> HIDE DEF r
  <2>6. /\ r \in Ranges(Columns) \cup {Nil}
        /\ r # Nil => r.column = p.right.column /\ invertOp(p.op) # "<>"
    BY <2>2, <2>3, <2>5, BuildIsRange
  <2>7. invertOp(p.op) # "<>" =>
          (InRange(r, row[p.right.column]) <=>
             Compare(invertOp(p.op), row[p.right.column], p.left.value))
    BY <2>2, <2>3, <2>5, BuildIsExact
  <2>8. Compare(invertOp(p.op), row[p.right.column], p.left.value)
          <=> Compare(p.op, p.left.value, row[p.right.column])
    BY <2>3, InvertMirrors
  <2> QED BY <2>4, <2>6, <2>7, <2>8 DEF r
<1>3. CASE ~(IsColumn(p.left) /\ IsConst(p.right)) /\ ~(IsConst(p.left) /\ IsColumn(p.right))
  BY <1>3 DEF extractSingleRange
<1> QED BY <1>1, <1>2, <1>3

LEMMA MergeIsRange ==
  ASSUME NEW l \in Ranges(Columns) \cup {Nil}, NEW r \in Ranges(Columns) \cup {Nil}
  PROVE  mergeAndRanges(l, r) \in Ranges(Columns) \cup {Nil}
<1>1. CASE l = Nil \/ r = Nil
  BY <1>1 DEF mergeAndRanges
<1>2. CASE l # Nil /\ r # Nil
  <2>1. l \in Ranges(Columns) /\ r \in Ranges(Columns)
    BY <1>2
  <2>2. /\ mergeFrom(l, r)[1] \in Int \cup {Nil}
        /\ mergeFrom(l, r)[2] \in BOOLEAN
        /\ mergeTo(l, r)[1] \in Int \cup {Nil}
        /\ mergeTo(l, r)[2] \in BOOLEAN
    <3>1. 0 \in Int
      OBVIOUS
    <3> QED BY <2>1, <3>1, MergeFromAbove, MergeToBelow
  <2>3. l.column \in Columns
    BY <2>1 DEF Ranges
  <2>4. mergeRanges(l, r) \in Ranges(Columns) \cup {Nil}
    BY <2>2, <2>3 DEF mergeRanges, Ranges
  <2> QED BY <1>2, <2>4 DEF mergeAndRanges
<1> QED BY <1>1, <1>2

THEOREM RangeCovers ==
  ASSUME NEW p \in Predicates, NEW row \in [Columns -> Int]
  PROVE  /\ extractRange(p) \in Ranges(Columns) \cup {Nil}
         /\ extractRange(p) # Nil /\ evalBool(p, row) =>
              InRange(extractRange(p), row[extractRange(p).column])
<1> DEFINE Good(q) ==
             /\ extractRange(q) \in Ranges(Columns) \cup {Nil}
             /\ extractRange(q) # Nil /\ evalBool(q, row) =>
                  InRange(extractRange(q), row[extractRange(q).column])
           S == {q \in Predicates : ~Good(q)}
<1> SUFFICES ASSUME S # {} PROVE FALSE
  OBVIOUS
<1>1. PICK q \in S : q.op \in Connectives => {q.left, q.right} \cap S = {}
  BY FiniteTreesAssumption
<1>2. q \in Predicates /\ ~Good(q)
  OBVIOUS
<1>3. q.op \in Connectives => Good(q.left) /\ Good(q.right)
  BY <1>1, <1>2, PredicatesAssumption
<1> HIDE DEF S
<1>4. CASE q.op = "AND"
  <2> DEFINE l == extractRange(q.left)
             r == extractRange(q.right)
  <2>1. extractRange(q) = mergeAndRanges(l, r)
    BY <1>2, <1>4, ExtractRangeUnfolds
  <2>2. evalBool(q, row) <=> evalBool(q.left, row) /\ evalBool(q.right, row)
    BY <1>2, <1>4, EvalBoolUnfolds
  <2>3. /\ l \in Ranges(Columns) \cup {Nil}
        /\ r \in Ranges(Columns) \cup {Nil}
        /\ l # Nil /\ evalBool(q.left, row) => InRange(l, row[l.column])
        /\ r # Nil /\ evalBool(q.right, row) => InRange(r, row[r.column])
    BY <1>3, <1>4 DEF Connectives
  <2> HIDE DEF l, r
  <2>4. mergeAndRanges(l, r) \in Ranges(Columns) \cup {Nil}
    BY <2>3, MergeIsRange
  <2>5. ASSUME evalBool(q, row), mergeAndRanges(l, r) # Nil
        PROVE  InRange(mergeAndRanges(l, r), row[mergeAndRanges(l, r).column])
    BY <2>2, <2>3, <2>5, MergeAndCovers, NilRangeAssumption
  <2> QED BY <1>2, <2>1, <2>4, <2>5
<1>5. CASE q.op = "OR"
  <2>1. extractRange(q) = Nil
    BY <1>2, <1>5, ExtractRangeUnfolds
  <2> QED BY <1>2, <2>1
<1>6. CASE q.op \in Comparisons
  <2>1. q.op # "AND" /\ q.op # "OR"
    BY <1>6 DEF Comparisons
  <2>2. extractRange(q) = extractSingleRange(q)
    BY <1>2, <2>1, ExtractRangeUnfolds
  <2>3. evalBool(q, row) = Compare(q.op, eval(q.left, row), eval(q.right, row))
    BY <1>2, <2>1, EvalBoolUnfolds
  <2>4. /\ extractSingleRange(q) \in Ranges(Columns) \cup {Nil}
        /\ extractSingleRange(q) # Nil =>
             InRange(extractSingleRange(q), row[extractSingleRange(q).column]) <=>
               Compare(q.op, eval(q.left, row), eval(q.right, row))
    BY <1>2, <1>6, SingleRangeIsExact
  <2> QED BY <1>2, <2>2, <2>3, <2>4
<1> QED BY <1>2, <1>4, <1>5, <1>6, PredicatesAssumption DEF Connectives

-----------------------------------------------------------------------------
(* The inductive invariant. *)

OneWriter == \A s, t \in Writers : s = t

Tids == Nat \X Nat
Names == {i.name : i \in Indexes}
Entry == [key : Int, tid : Tids]
Plans == [type : {"SEQ", "HASH", "BTREE"}, index : Indexes \cup {Nil},
          range : Ranges(Columns) \cup {Nil}]

InsertPcs == {"insert", "list", "entries"}
CreatePcs == {"create", "scan", "build"}
SelectPcs == {"optimize", "open", "next"}

Session ==
  [pc : {"idle"} \cup InsertPcs \cup CreatePcs \cup SelectPcs, pages : Nat,
   row : Rows \cup {Nil}, tid : Tids \cup {Nil}, todo : Seq(Indexes),
   index : Indexes \cup {Nil}, pred : Predicates \cup {Nil},
   plan : Plans \cup {Nil}, tids : Seq(Tids), out : Seq(Tids),
   due : SUBSET Tids]

TypeOK ==
  /\ heap \in Seq(Seq(Rows))
  /\ pages \in Nat
  /\ indexes \in Seq(Indexes)
  /\ entries \in [Names -> Seq(Entry)]
  /\ sess \in [Sessions -> Session]
  /\ acked \in SUBSET Tids
  /\ built \in SUBSET Indexes
  /\ skipped \in BOOLEAN
  /\ damaged \in SUBSET Indexes

\* A TID leads to a row.
IsStored(tid) ==
  tid \in Tids /\ tid[1] \in DOMAIN heap /\ tid[2] \in DOMAIN heap[tid[1]]

\* The rows that an index has an entry for.
Indexed(i) == {entries[i.name][n].tid : n \in DOMAIN entries[i.name]}

HeapCounted ==
  /\ Len(heap) = pages
  /\ \A tid \in acked : IsStored(tid)

\* Only a registered index has entries or has been acknowledged.
Registered ==
  /\ IsInjective(indexes)
  /\ \A i \in Indexes :
       i \notin ToSet(indexes) => entries[i.name] = <<>> /\ i \notin built

EntryFits(i, e) == IsStored(e.tid) /\ RowAt(e.tid)[i.column] = e.key

EntriesFit(i) ==
  LET es == entries[i.name] IN
  /\ \A n \in DOMAIN es : EntryFits(i, es[n])
  /\ \A m, n \in DOMAIN es : es[m].tid = es[n].tid => m = n

Complete(i) == i \in built \ damaged => skipped \/ acked \subseteq Indexed(i)

\* The row of an INSERT has been stored, and is in the indexes it is done with.
RowStored(st) == IsStored(st.tid) /\ RowAt(st.tid) = st.row

Inserting(st) ==
  /\ st.pc \in InsertPcs => st.row \in Rows
  /\ st.pc = "insert" => st.pages = pages
  /\ st.pc = "list" => RowStored(st) /\ \A i \in Indexes : st.tid \notin Indexed(i)
  /\ st.pc = "entries" =>
       /\ RowStored(st)
       /\ IsInjective(st.todo)
       /\ ToSet(st.todo) \subseteq ToSet(indexes)
       /\ \A i \in ToSet(st.todo) : st.tid \notin Indexed(i)
       /\ \A i \in ToSet(indexes) \ ToSet(st.todo) : st.tid \in Indexed(i)

Creating(st) ==
  /\ st.pc \in CreatePcs => st.index \in Indexes /\ st.index \notin built
  /\ st.pc \in {"create", "scan"} => st.pages = pages
  /\ st.pc \in {"scan", "build"} => st.index \in ToSet(indexes)
  /\ st.pc = "scan" => entries[st.index.name] = <<>>
  /\ st.pc = "build" =>
       /\ IsInjective(st.tids)
       /\ \A tid \in ToSet(st.tids) : IsStored(tid) /\ tid \notin Indexed(st.index)
       /\ skipped \/ acked \subseteq Indexed(st.index) \cup ToSet(st.tids)

Accepts(st, tid) == st.pred # Nil => evalBool(st.pred, RowAt(tid))

PlanFits(st) ==
  /\ st.plan \in Plans
  /\ st.plan.type # "SEQ" =>
       /\ st.plan.index \in Indexes
       /\ st.plan.range \in Ranges(Columns)
       /\ st.pred \in Predicates
       /\ \A row \in Rows : evalBool(st.pred, row) =>
                              InRange(st.plan.range, row[st.plan.index.column])
       /\ st.due # {} => st.plan.index \in built

Selecting(st) ==
  /\ st.pc \in SelectPcs =>
       /\ st.due \subseteq acked
       /\ \A tid \in st.due : tid[1] <= st.pages
       /\ st.pages <= pages
  /\ st.pc \in {"optimize", "open"} => st.out = <<>>
  /\ st.pc = "open" => PlanFits(st)
  /\ st.pc = "next" =>
       /\ IsInjective(st.tids) /\ IsInjective(st.out)
       /\ ToSet(st.tids) \cap ToSet(st.out) = {}
       /\ \A tid \in ToSet(st.tids) \cup ToSet(st.out) : IsStored(tid)
       /\ \A tid \in ToSet(st.out) : Accepts(st, tid)
       /\ skipped \/ \A tid \in st.due :
                       Accepts(st, tid) => tid \in ToSet(st.tids) \cup ToSet(st.out)

SessionFits(s, st) ==
  /\ st.pc \in InsertPcs \cup CreatePcs => s \in Writers
  /\ Inserting(st)
  /\ Creating(st)
  /\ Selecting(st)

Inv ==
  /\ TypeOK
  /\ HeapCounted
  /\ Registered
  /\ \A i \in Indexes : EntriesFit(i) /\ Complete(i)
  /\ \A s \in Sessions : SessionFits(s, sess[s])

-----------------------------------------------------------------------------
(* The optimizer's plan. *)

LEMMA FindIndexFits ==
  ASSUME indexes \in Seq(Indexes), NEW c, NEW type
  PROVE  /\ FindIndex(c, type) \in Indexes \cup {Nil}
         /\ FindIndex(c, type) # Nil => FindIndex(c, type).column = c
<1> DEFINE found == {n \in DOMAIN indexes :
                       indexes[n].type = type /\ indexes[n].column = c}
<1>1. CASE found = {}
  BY <1>1 DEF FindIndex
<1>2. CASE found # {}
  <2>1. found \in SUBSET Nat
    OBVIOUS
  <2>2. Min(found) \in found
    <3> HIDE DEF found
    <3> QED BY <1>2, <2>1, MinIsLeast
  <2>3. Min(found) \in DOMAIN indexes /\ indexes[Min(found)].column = c
    BY <2>2
  <2>4. FindIndex(c, type) = indexes[Min(found)]
    BY <1>2 DEF FindIndex
  <2> HIDE DEF found
  <2> QED BY <2>3, <2>4
<1> QED BY <1>1, <1>2

\* An equality's range is its clause's.
LEMMA EqualityIsRange ==
  ASSUME NEW p \in Predicates
  PROVE  extractEquality(p) # Nil => extractEquality(p) = extractRange(p)
BY ExtractRangeUnfolds DEF extractEquality

ScanFits(p, plan) ==
  /\ plan.type \in {"HASH", "BTREE"}
  /\ plan.index \in Indexes
  /\ plan.range = extractRange(p)
  /\ plan.range # Nil
  /\ plan.index.column = plan.range.column
  /\ plan = Scan(plan.type, plan.index, plan.range)

LEMMA ChosenScanFits ==
  ASSUME indexes \in Seq(Indexes), NEW p \in Predicates \cup {Nil}
  PROVE  \/ chooseBestScan(p) = SeqScan
         \/ p \in Predicates /\ ScanFits(p, chooseBestScan(p))
<1>1. ASSUME p \in Predicates, tryHashScan(p) # Nil PROVE ScanFits(p, tryHashScan(p))
  <2> DEFINE eq == extractEquality(p)
             i == FindIndex(eq.column, "HASH")
  <2>1. eq # Nil /\ i # Nil /\ tryHashScan(p) = Scan("HASH", i, eq)
    BY <1>1 DEF tryHashScan
  <2>2. eq = extractRange(p)
    BY <1>1, <2>1, EqualityIsRange
  <2>3. i \in Indexes /\ i.column = eq.column
    <3> HIDE DEF eq
    <3> QED BY <2>1, FindIndexFits
  <2> HIDE DEF eq, i
  <2> QED BY <2>1, <2>2, <2>3 DEF ScanFits, Scan
<1>2. ASSUME p \in Predicates, tryBTreeScan(p) # Nil PROVE ScanFits(p, tryBTreeScan(p))
  <2> DEFINE r == extractRange(p)
             i == FindIndex(r.column, "BTREE")
  <2>1. r # Nil /\ i # Nil /\ tryBTreeScan(p) = Scan("BTREE", i, r)
    BY <1>2 DEF tryBTreeScan
  <2>2. i \in Indexes /\ i.column = r.column
    <3> HIDE DEF r
    <3> QED BY <2>1, FindIndexFits
  <2> HIDE DEF i
  <2> QED BY <2>1, <2>2 DEF ScanFits, Scan
<1>3. CASE p = Nil
  BY <1>3 DEF chooseBestScan
<1>4. CASE p # Nil /\ tryHashScan(p) # Nil
  <2>1. p \in Predicates /\ chooseBestScan(p) = tryHashScan(p)
    BY <1>4 DEF chooseBestScan
  <2> QED BY <1>1, <1>4, <2>1
<1>5. CASE p # Nil /\ tryHashScan(p) = Nil /\ tryBTreeScan(p) # Nil
  <2>1. p \in Predicates /\ chooseBestScan(p) = tryBTreeScan(p)
    BY <1>5 DEF chooseBestScan
  <2> QED BY <1>2, <1>5, <2>1
<1>6. CASE p # Nil /\ tryHashScan(p) = Nil /\ tryBTreeScan(p) = Nil
  BY <1>6 DEF chooseBestScan
<1> QED BY <1>3, <1>4, <1>5, <1>6

LEMMA ScanCovers ==
  ASSUME NEW p \in Predicates, NEW plan, ScanFits(p, plan)
  PROVE  /\ plan \in Plans
         /\ plan.range \in Ranges(Columns)
         /\ \A row \in Rows : evalBool(p, row) => InRange(plan.range, row[plan.index.column])
<1>1. plan.range \in Ranges(Columns)
  <2>1. \A row \in [Columns -> Int] : extractRange(p) \in Ranges(Columns) \cup {Nil}
    BY RangeCovers
  <2>2. [c \in Columns |-> 0] \in [Columns -> Int]
    OBVIOUS
  <2> QED BY <2>1, <2>2 DEF ScanFits
<1>2. plan \in Plans
  BY <1>1 DEF ScanFits, Scan, Plans
<1>3. ASSUME NEW row \in Rows, evalBool(p, row)
      PROVE  InRange(plan.range, row[plan.index.column])
  BY <1>3, RowsAssumption, RangeCovers DEF ScanFits
<1> QED BY <1>1, <1>2, <1>3

-----------------------------------------------------------------------------
(* PlanCovers needs little of the state: what the optimizer made of the clause
   stays what it is, whatever the other sessions do. *)

Planned(st) ==
  /\ DOMAIN st = DOMAIN Idle
  /\ st.pc = "create" => st.index \in Indexes
  /\ st.pc = "optimize" => st.pred \in Predicates \cup {Nil}
  /\ st.pc = "open" =>
       st.plan = SeqScan \/ (st.pred \in Predicates /\ ScanFits(st.pred, st.plan))

PlanInv ==
  /\ indexes \in Seq(Indexes)
  /\ DOMAIN sess = Sessions
  /\ \A s \in Sessions : Planned(sess[s])

LEMMA PlannedStep ==
  ASSUME PlanInv, NEW s \in Sessions, NEW st, Planned(st), Become(s, st),
         indexes' \in Seq(Indexes)
  PROVE  PlanInv'
<1>1. DOMAIN sess' = Sessions
  BY DEF PlanInv, Become
<1>2. \A t \in Sessions : sess'[t] = IF t = s THEN st ELSE sess[t]
  BY DEF PlanInv, Become
<1>3. \A t \in Sessions : Planned(sess[t])'
  <2> SUFFICES ASSUME NEW t \in Sessions PROVE Planned(sess'[t])
    BY DEF Planned, SeqScan, Scan, ScanFits
  <2> QED BY <1>2 DEF PlanInv
<1> QED BY <1>1, <1>3 DEF PlanInv

LEMMA IdleIsPlanned == Planned(Idle)
BY DEF Planned, Idle

\* A step that leaves pc at a point where nothing is planned.
LEMMA UnplannedStep ==
  ASSUME NEW st, DOMAIN st = DOMAIN Idle, st.pc \notin {"create", "optimize", "open"}
  PROVE  Planned(st)
BY DEF Planned

\* The indexes that are registered are those some CREATE INDEX asked for.
LEMMA IndexesStep ==
  ASSUME PlanInv, NEW s \in Sessions, RegisterIndex(s)
  PROVE  indexes' \in Seq(Indexes)
<1>1. sess[s].index \in Indexes
  BY DEF RegisterIndex, At, PlanInv, Planned
<1> QED BY <1>1 DEF RegisterIndex, PlanInv

LEMMA PlanInvStep == PlanInv /\ [Next]_vars => PlanInv'
<1> SUFFICES ASSUME PlanInv, [Next]_vars PROVE PlanInv'
  OBVIOUS
<1>1. CASE UNCHANGED vars
  BY <1>1 DEF vars, PlanInv, Planned, SeqScan, Scan, ScanFits
<1>2. ASSUME NEW s \in Sessions, NEW row \in Rows, Insert(s, row) PROVE PlanInv'
  <2>1. PICK st : st = [Idle EXCEPT !.pc = "insert", !.row = row, !.pages = pages]
    OBVIOUS
  <2>2. Planned(st)
    BY <2>1 DEF Planned, Idle
  <2> QED BY <1>2, <2>1, <2>2, PlannedStep DEF Insert, PlanInv
<1>3. ASSUME NEW s \in Sessions, NEW i \in Indexes, CreateIndex(s, i) PROVE PlanInv'
  <2>1. PICK st : st = [Idle EXCEPT !.pc = "create", !.index = i, !.pages = pages]
    OBVIOUS
  <2>2. Planned(st)
    BY <2>1 DEF Planned, Idle
  <2> QED BY <1>3, <2>1, <2>2, PlannedStep DEF CreateIndex, PlanInv
<1>4. ASSUME NEW s \in Sessions, NEW p \in Queries \cup {Nil}, Select(s, p) PROVE PlanInv'
  <2>1. PICK st : st = [Idle EXCEPT !.pc = "optimize", !.pred = p, !.pages = pages,
                                    !.due = acked]
    OBVIOUS
  <2>2. Planned(st)
    BY <2>1, PredicatesAssumption DEF Planned, Idle
  <2> QED BY <1>4, <2>1, <2>2, PlannedStep DEF Select, PlanInv
<1>5. ASSUME NEW s \in Sessions, Optimize(s) PROVE PlanInv'
  <2> DEFINE plan == chooseBestScan(sess[s].pred)
  <2>0. PICK d : d = IF plan.type = "SEQ" \/ plan.index \in built THEN sess[s].due ELSE {}
    OBVIOUS
  <2>1. PICK st : st = [sess[s] EXCEPT !.pc = "open", !.plan = plan, !.due = d]
    OBVIOUS
  <2>2. DOMAIN sess[s] = DOMAIN Idle /\ sess[s].pred \in Predicates \cup {Nil}
    BY <1>5 DEF Optimize, At, PlanInv, Planned
  <2>3. \/ plan = SeqScan
        \/ sess[s].pred \in Predicates /\ ScanFits(sess[s].pred, plan)
    BY <2>2, ChosenScanFits DEF PlanInv
  <2> HIDE DEF plan
  <2>4. DOMAIN st = DOMAIN Idle /\ st.pc = "open" /\ st.plan = plan /\ st.pred = sess[s].pred
    BY <2>1, <2>2 DEF Idle
  <2>5. Planned(st)
    BY <2>3, <2>4 DEF Planned
  <2>6. Become(s, st) /\ indexes' = indexes
    BY <1>5, <2>0, <2>1 DEF Optimize, plan
  <2> QED BY <2>5, <2>6, PlannedStep DEF PlanInv
<1>6. ASSUME NEW s \in Sessions,
             \/ Fails(s) \/ InsertRow(s) \/ ListIndexes(s) \/ InsertEntry(s)
             \/ InsertEntryFails(s) \/ BuildEntryFails(s) \/ InsertDone(s) \/ RegisterIndex(s) \/ ScanForIndex(s) \/ BuildEntry(s)
             \/ IndexDone(s) \/ Open(s) \/ NextRow(s) \/ SelectDone(s)
      PROVE  PlanInv'
  <2>1. indexes' \in Seq(Indexes)
    <3>1. CASE RegisterIndex(s)
      BY <3>1, IndexesStep
    <3>2. CASE ~RegisterIndex(s)
      BY <1>6, <3>2 DEF Fails, InsertRow, ListIndexes, InsertEntry, InsertDone,
            InsertEntryFails, BuildEntryFails, ScanForIndex, BuildEntry, IndexDone, Open, NextRow, SelectDone, PlanInv
    <3> QED BY <3>1, <3>2
  <2>2. DOMAIN sess[s] = DOMAIN Idle
    BY DEF PlanInv, Planned
  <2>3. \E st : Become(s, st) /\ Planned(st)
    <3>1. CASE \/ Fails(s) \/ InsertEntryFails(s) \/ BuildEntryFails(s)
               \/ InsertDone(s) \/ IndexDone(s) \/ SelectDone(s)
      BY <3>1, IdleIsPlanned DEF Fails, InsertEntryFails, BuildEntryFails,
            InsertDone, IndexDone, SelectDone
    <3>2. CASE InsertRow(s)
      <4>1. CASE Become(s, Idle)
        BY <4>1, IdleIsPlanned
      <4>2. CASE ~Become(s, Idle)
        <5> DEFINE p == TargetPage(sess[s].pages)
        <5>1. PICK tid : tid = <<p, Len(heap'[p])>>
          OBVIOUS
        <5>2. PICK st : st = [sess[s] EXCEPT !.pc = "list", !.tid = tid]
          OBVIOUS
        <5>3. Become(s, st)
          BY <3>2, <4>2, <5>1, <5>2 DEF InsertRow
        <5>4. DOMAIN st = DOMAIN Idle /\ st.pc = "list"
          BY <2>2, <5>2 DEF Idle
        <5> QED BY <5>3, <5>4, UnplannedStep
      <4> QED BY <4>1, <4>2
    <3>3. CASE ListIndexes(s)
      <4>1. PICK st : st = [sess[s] EXCEPT !.pc = "entries", !.todo = indexes]
        OBVIOUS
      <4>2. DOMAIN st = DOMAIN Idle /\ st.pc = "entries"
        BY <2>2, <4>1 DEF Idle
      <4> QED BY <3>3, <4>1, <4>2, UnplannedStep DEF ListIndexes
    <3>4. CASE InsertEntry(s)
      <4>1. PICK st : st = [sess[s] EXCEPT !.todo = Tail(@)]
        OBVIOUS
      <4>2. DOMAIN st = DOMAIN Idle /\ st.pc = "entries"
        BY <2>2, <3>4, <4>1 DEF Idle, InsertEntry, At
      <4> QED BY <3>4, <4>1, <4>2, UnplannedStep DEF InsertEntry
    <3>5. CASE RegisterIndex(s)
      <4>1. CASE Become(s, Idle)
        BY <4>1, IdleIsPlanned
      <4>2. CASE ~Become(s, Idle)
        <5>1. PICK st : st = [sess[s] EXCEPT !.pc = "scan"]
          OBVIOUS
        <5>2. DOMAIN st = DOMAIN Idle /\ st.pc = "scan"
          BY <2>2, <5>1 DEF Idle
        <5>3. Become(s, st)
          BY <3>5, <4>2, <5>1 DEF RegisterIndex
        <5> QED BY <5>2, <5>3, UnplannedStep
      <4> QED BY <4>1, <4>2
    <3>6. ASSUME NEW pc \in {"build", "next"}, ScanTids(s, pc)
          PROVE  \E st : Become(s, st) /\ Planned(st)
      <4>1. PICK tids : Become(s, [sess[s] EXCEPT !.pc = pc, !.tids = tids])
        BY <3>6 DEF ScanTids
      <4>2. PICK st : st = [sess[s] EXCEPT !.pc = pc, !.tids = tids]
        OBVIOUS
      <4>3. DOMAIN st = DOMAIN Idle /\ st.pc = pc
        BY <2>2, <4>2 DEF Idle
      <4> QED BY <4>1, <4>2, <4>3, UnplannedStep
    <3>7. CASE ScanForIndex(s)
      BY <3>6, <3>7 DEF ScanForIndex
    <3>8. CASE BuildEntry(s)
      <4>1. PICK st : st = [sess[s] EXCEPT !.tids = Tail(@)]
        OBVIOUS
      <4>2. DOMAIN st = DOMAIN Idle /\ st.pc = "build"
        BY <2>2, <3>8, <4>1 DEF Idle, BuildEntry, At
      <4> QED BY <3>8, <4>1, <4>2, UnplannedStep DEF BuildEntry
    <3>9. CASE Open(s)
      <4>1. CASE ScanTids(s, "next")
        BY <3>6, <4>1
      <4>2. CASE ~ScanTids(s, "next")
        <5>1. PICK tids, due :
                Become(s, [sess[s] EXCEPT !.pc = "next", !.tids = tids, !.due = due])
          BY <3>9, <4>2 DEF Open
        <5>2. PICK st : st = [sess[s] EXCEPT !.pc = "next", !.tids = tids, !.due = due]
          OBVIOUS
        <5>3. DOMAIN st = DOMAIN Idle /\ st.pc = "next"
          BY <2>2, <5>2 DEF Idle
        <5> QED BY <5>1, <5>2, <5>3, UnplannedStep
      <4> QED BY <4>1, <4>2
    <3>10. CASE NextRow(s)
      <4> DEFINE tid == Head(sess[s].tids)
      <4>1. PICK st : st = IF Passes(s, tid)
                           THEN [sess[s] EXCEPT !.tids = Tail(@), !.out = Append(@, tid)]
                           ELSE [sess[s] EXCEPT !.tids = Tail(@)]
        OBVIOUS
      <4>2. DOMAIN st = DOMAIN Idle /\ st.pc = "next"
        BY <2>2, <3>10, <4>1 DEF Idle, NextRow, At
      <4> QED BY <3>10, <4>1, <4>2, UnplannedStep DEF NextRow
    <3> QED BY <1>6, <3>1, <3>2, <3>3, <3>4, <3>5, <3>7, <3>8, <3>9, <3>10
  <2> QED BY <2>1, <2>3, PlannedStep
<1> QED BY <1>1, <1>2, <1>3, <1>4, <1>5, <1>6 DEF Next, Step

LEMMA PlanInvInit == Init => PlanInv
<1> SUFFICES ASSUME Init PROVE PlanInv
  OBVIOUS
<1>1. \A s \in Sessions : sess[s] = Idle
  BY DEF Init
<1> QED BY <1>1, IdleIsPlanned DEF Init, PlanInv

LEMMA PlanInvCovers == PlanInv => PlanCovers
<1> SUFFICES ASSUME PlanInv, NEW s \in Sessions, At(s, "open"),
                    sess[s].plan.type # "SEQ", NEW row \in Rows,
                    evalBool(sess[s].pred, row)
             PROVE  InRange(sess[s].plan.range, row[sess[s].plan.index.column])
  BY DEF PlanCovers
<1>1. sess[s].pred \in Predicates /\ ScanFits(sess[s].pred, sess[s].plan)
  BY DEF PlanInv, Planned, At, SeqScan, Scan
<1> QED BY <1>1, ScanCovers

(* Whatever the clause, the indexes and the order in which they were created,
   and whatever other sessions do between planning and opening a scan, the
   range that an index scan asks for holds the key of every row the WHERE
   clause accepts. *)
THEOREM PlansCover == Spec => []PlanCovers
<1>1. Spec => []PlanInv
  BY PlanInvInit, PlanInvStep, PTL DEF Spec
<1> QED BY <1>1, PlanInvCovers, PTL

-----------------------------------------------------------------------------
(* What a step leaves alone. *)

\* Nothing that a statement has seen is taken back.
Growth ==
  /\ \A tid \in Tids : IsStored(tid) => IsStored(tid)' /\ RowAt(tid)' = RowAt(tid)
  /\ pages <= pages'
  /\ acked \subseteq acked'
  /\ built \subseteq built'
  /\ skipped => skipped'

LEMMA GrowthOfSame ==
  ASSUME TypeOK, UNCHANGED <<heap, pages>>, acked \subseteq acked', built \subseteq built',
         skipped => skipped'
  PROVE  Growth
<1>1. pages <= pages'
  BY DEF TypeOK
<1> QED BY <1>1 DEF Growth, IsStored, RowAt

LEMMA PlanFitsGrows ==
  ASSUME NEW st, PlanFits(st), Growth
  PROVE  PlanFits(st)'
BY DEF PlanFits, Growth

LEMMA SelectingGrows ==
  ASSUME NEW st \in Session, Selecting(st), HeapCounted, TypeOK, TypeOK', Growth
  PROVE  Selecting(st)'
<1>1. st.due \in SUBSET Tids /\ st.pages \in Nat /\ pages \in Nat /\ pages' \in Nat
  BY DEF Session, TypeOK
<1>2. CASE st.pc \notin SelectPcs
  BY <1>2 DEF Selecting, SelectPcs
<1>3. CASE st.pc \in SelectPcs
  <2>1. /\ st.due \subseteq acked'
        /\ \A tid \in st.due : tid[1] <= st.pages
        /\ st.pages <= pages'
    BY <1>1, <1>3 DEF Selecting, Growth
  <2>2. st.pc = "open" => PlanFits(st)'
    BY PlanFitsGrows DEF Selecting
  <2>3. ASSUME st.pc = "next"
        PROVE  /\ \A tid \in ToSet(st.tids) \cup ToSet(st.out) : IsStored(tid)'
               /\ \A tid \in ToSet(st.out) : Accepts(st, tid)'
               /\ skipped' \/ \A tid \in st.due :
                    Accepts(st, tid)' => tid \in ToSet(st.tids) \cup ToSet(st.out)
    <3>1. \A tid : IsStored(tid) => (Accepts(st, tid)' <=> Accepts(st, tid)) /\ IsStored(tid)'
      BY DEF Growth, Accepts, IsStored
    <3>2. \A tid \in ToSet(st.tids) \cup ToSet(st.out) : IsStored(tid)
      BY <2>3 DEF Selecting
    <3>3. \A tid \in st.due : IsStored(tid)
      BY <1>3 DEF Selecting, HeapCounted
    <3>4. skipped \/ \A tid \in st.due :
                    Accepts(st, tid) => tid \in ToSet(st.tids) \cup ToSet(st.out)
      BY <2>3 DEF Selecting
    <3>5. \A tid \in ToSet(st.out) : Accepts(st, tid)
      BY <2>3 DEF Selecting
    <3>6. skipped => skipped'
      BY DEF Growth
    <3> QED BY <3>1, <3>2, <3>3, <3>4, <3>5, <3>6
  <2>4. st.pc = "next" => /\ IsInjective(st.tids) /\ IsInjective(st.out)
                          /\ ToSet(st.tids) \cap ToSet(st.out) = {}
    BY DEF Selecting
  <2>5. st.pc \in {"optimize", "open"} => st.out = <<>>
    BY DEF Selecting
  <2> QED BY <2>1, <2>2, <2>3, <2>4, <2>5 DEF Selecting
<1> QED BY <1>2, <1>3

\* A session that is not writing is not concerned.
LEMMA NotWriting ==
  ASSUME NEW st, st.pc \notin InsertPcs \cup CreatePcs
  PROVE  Inserting(st) /\ Creating(st)
BY DEF Inserting, Creating, InsertPcs, CreatePcs

LEMMA NotWritingLater ==
  ASSUME NEW st, st.pc \notin InsertPcs \cup CreatePcs
  PROVE  Inserting(st)' /\ Creating(st)'
BY DEF Inserting, Creating, InsertPcs, CreatePcs

LEMMA NotSelectingLater ==
  ASSUME NEW st, st.pc \notin SelectPcs
  PROVE  Selecting(st)'
BY DEF Selecting, SelectPcs

\* Where only skipped (and sessions) may change, writers lose nothing.
LEMMA WritingUnchanged ==
  ASSUME NEW st, Inserting(st), Creating(st),
         UNCHANGED <<heap, pages, indexes, entries, acked, built, damaged>>,
         skipped => skipped'
  PROVE  Inserting(st)' /\ Creating(st)'
<1>1. \A i : Indexed(i)' = Indexed(i)
  BY DEF Indexed
<1>2. \A tid : (IsStored(tid)' <=> IsStored(tid)) /\ RowAt(tid)' = RowAt(tid)
  BY DEF IsStored, RowAt
<1>3. Inserting(st)'
  BY <1>1, <1>2 DEF Inserting, RowStored
<1>4. Creating(st)'
  BY <1>1, <1>2 DEF Creating
<1> QED BY <1>3, <1>4

\* One session moves to st, and st fits: then all sessions fit.
LEMMA SessionsFit ==
  ASSUME Inv, TypeOK', Growth, NEW s \in Sessions, NEW st \in Session,
         Become(s, st), SessionFits(s, st)',
         \/ OneWriter /\ s \in Writers
         \/ UNCHANGED <<heap, pages, indexes, entries, acked, built, damaged>>
  PROVE  \A t \in Sessions : SessionFits(t, sess[t])'
<1>1. \A t \in Sessions : sess'[t] = IF t = s THEN st ELSE sess[t]
  BY DEF Inv, TypeOK, Become
<1>2. SUFFICES ASSUME NEW t \in Sessions, t # s, NEW x, x = sess[t]
               PROVE  SessionFits(t, x)'
  <2>1. \A t \in Sessions : \A x : x = sess'[t] => SessionFits(t, x)'
    BY <1>1, <1>2
  <2>2. ASSUME NEW t \in Sessions PROVE SessionFits(t, sess[t])'
    <3>1. PICK x : x = sess'[t]
      OBVIOUS
    <3>2. SessionFits(t, x)'
      BY <2>1, <3>1
    <3> QED BY <3>1, <3>2 DEF SessionFits, Inserting, Creating, Selecting,
                  RowStored, Accepts, PlanFits
  <2> QED BY <2>2
<1>3. x \in Session /\ SessionFits(t, x)
  BY <1>2 DEF Inv, TypeOK
<1>4. Selecting(x)'
  BY <1>3, SelectingGrows DEF Inv, SessionFits
<1>5. Inserting(x)' /\ Creating(x)'
  <2>1. CASE OneWriter /\ s \in Writers
    <3>1. x.pc \notin InsertPcs \cup CreatePcs
      BY <1>2, <1>3, <2>1 DEF SessionFits, OneWriter
    <3> QED BY <3>1, NotWritingLater
  <2>2. CASE UNCHANGED <<heap, pages, indexes, entries, acked, built, damaged>>
    BY <1>3, <2>2, WritingUnchanged DEF SessionFits, Growth
  <2> QED BY <2>1, <2>2
<1> QED BY <1>3, <1>4, <1>5 DEF SessionFits

\* What Inv says of the tables, without the sessions.
TablesFit ==
  /\ HeapCounted
  /\ Registered
  /\ \A i \in Indexes : EntriesFit(i) /\ Complete(i)

LEMMA TablesUnchanged ==
  ASSUME TablesFit, UNCHANGED <<heap, pages, indexes, entries, acked, built, damaged>>,
         skipped => skipped'
  PROVE  TablesFit'
<1>1. \A i : Indexed(i)' = Indexed(i)
  BY DEF Indexed
<1>2. \A tid : (IsStored(tid)' <=> IsStored(tid)) /\ RowAt(tid)' = RowAt(tid)
  BY DEF IsStored, RowAt
<1>3. HeapCounted'
  BY <1>2 DEF TablesFit, HeapCounted
<1>4. Registered'
  BY DEF TablesFit, Registered
<1>5. \A i \in Indexes : Complete(i)'
  BY <1>1 DEF TablesFit, Complete
<1>6. \A i, e : EntryFits(i, e)' <=> EntryFits(i, e)
  BY <1>2 DEF EntryFits
<1>7. \A i \in Indexes : EntriesFit(i)'
  BY <1>6 DEF TablesFit, EntriesFit
<1> QED BY <1>3, <1>4, <1>5, <1>7 DEF TablesFit

LEMMA BecomeType ==
  ASSUME TypeOK, NEW s \in Sessions, NEW st \in Session, Become(s, st)
  PROVE  sess' \in [Sessions -> Session]
BY DEF TypeOK, Become

\* A step that changes nothing but a session, or passes over a page.
LEMMA QuietStep ==
  ASSUME Inv, UNCHANGED <<heap, pages, indexes, entries, acked, built, damaged>>,
         skipped' \in BOOLEAN, skipped => skipped',
         NEW s \in Sessions, NEW st \in Session, Become(s, st), SessionFits(s, st)'
  PROVE  Inv'
<1>1. TypeOK /\ TablesFit
  BY DEF Inv, TablesFit
<1>2. sess' \in [Sessions -> Session]
  BY <1>1, BecomeType
<1>3. TypeOK'
  BY <1>1, <1>2 DEF TypeOK
<1>4. TablesFit'
  BY <1>1, TablesUnchanged
<1>5. Growth
  BY <1>1, GrowthOfSame
<1>6. \A t \in Sessions : SessionFits(t, sess[t])'
  BY <1>3, <1>5, SessionsFit
<1> QED BY <1>3, <1>4, <1>6 DEF Inv, TablesFit

LEMMA IdleFits ==
  ASSUME NEW s
  PROVE  Idle \in Session /\ SessionFits(s, Idle)'
<1>1. Idle.pc = "idle"
  BY DEF Idle
<1>2. Inserting(Idle)'
  BY <1>1 DEF Inserting, InsertPcs
<1>3. Creating(Idle)'
  BY <1>1 DEF Creating, CreatePcs
<1>4. Selecting(Idle)'
  BY <1>1 DEF Selecting, SelectPcs
<1>5. <<>> \in Seq(Indexes) /\ <<>> \in Seq(Tids) /\ 0 \in Nat
  OBVIOUS
<1>6. Idle \in Session
  BY <1>5 DEF Session, Idle
<1>7. Idle.pc \notin InsertPcs \cup CreatePcs
  BY <1>1 DEF InsertPcs, CreatePcs
<1> QED BY <1>2, <1>3, <1>4, <1>6, <1>7 DEF SessionFits

LEMMA InvInit == Init => Inv
<1> SUFFICES ASSUME Init PROVE Inv
  OBVIOUS
<1>1. \A s \in Sessions : sess[s] = Idle
  BY DEF Init
<1>2. TypeOK
  <2>1. Idle \in Session
    BY IdleFits
  <2>2. sess \in [Sessions -> Session]
    BY <2>1 DEF Init
  <2>3. entries \in [Names -> Seq(Entry)]
    BY DEF Init, Names
  <2>4. heap \in Seq(Seq(Rows)) /\ indexes \in Seq(Indexes) /\ pages \in Nat
    BY DEF Init
  <2> QED BY <2>2, <2>3, <2>4 DEF Init, TypeOK
<1>3. TablesFit
  <2>1. \A i \in Indexes : entries[i.name] = <<>>
    BY DEF Init
  <2>2. DOMAIN <<>> = {}
    OBVIOUS
  <2>3. HeapCounted /\ Registered
    BY <2>1, <2>2 DEF Init, HeapCounted, Registered, IsInjective
  <2>4. \A i \in Indexes : EntriesFit(i) /\ Complete(i)
    BY <2>1, <2>2 DEF Init, EntriesFit, Complete
  <2> QED BY <2>3, <2>4 DEF TablesFit
<1>4. ASSUME NEW s \in Sessions PROVE SessionFits(s, sess[s])
  <2>1. sess[s].pc = "idle"
    BY <1>1 DEF Idle
  <2> QED BY <2>1 DEF SessionFits, Inserting, Creating, Selecting, InsertPcs, CreatePcs,
                SelectPcs
<1> QED BY <1>2, <1>3, <1>4 DEF Inv, TablesFit

-----------------------------------------------------------------------------
(* The steps that change nothing but their session. *)

LEMMA EndStep ==
  ASSUME Inv, NEW s \in Sessions, Fails(s) \/ SelectDone(s)
  PROVE  Inv'
<1>1. /\ UNCHANGED <<heap, pages, indexes, entries, acked, built, skipped, damaged>>
      /\ Become(s, Idle)
  BY DEF Fails, SelectDone
<1>2. skipped' \in BOOLEAN /\ (skipped => skipped')
  BY <1>1 DEF Inv, TypeOK
<1>3. Idle \in Session /\ SessionFits(s, Idle)'
  BY IdleFits
<1> QED BY <1>1, <1>2, <1>3, QuietStep

LEMMA InsertStep ==
  ASSUME Inv, NEW s \in Sessions, NEW row \in Rows, Insert(s, row)
  PROVE  Inv'
<1>1. PICK st : st = [Idle EXCEPT !.pc = "insert", !.row = row, !.pages = pages]
  OBVIOUS
<1>2. /\ UNCHANGED <<heap, pages, indexes, entries, acked, built, skipped, damaged>>
      /\ Become(s, st)
      /\ s \in Writers
  BY <1>1 DEF Insert
<1>3. skipped' \in BOOLEAN /\ (skipped => skipped') /\ pages \in Nat
  BY <1>2 DEF Inv, TypeOK
<1>4. st \in Session
  BY <1>1, <1>3, IdleFits DEF Session, InsertPcs
<1>5. st.pc = "insert" /\ st.row = row /\ st.pages = pages
  BY <1>1 DEF Idle
<1>6. SessionFits(s, st)'
  BY <1>2, <1>5 DEF SessionFits, Inserting, Creating, Selecting, CreatePcs, SelectPcs
<1> QED BY <1>2, <1>3, <1>4, <1>6, QuietStep

LEMMA CreateIndexStep ==
  ASSUME Inv, NEW s \in Sessions, NEW i \in Indexes, CreateIndex(s, i)
  PROVE  Inv'
<1>1. PICK st : st = [Idle EXCEPT !.pc = "create", !.index = i, !.pages = pages]
  OBVIOUS
<1>2. /\ UNCHANGED <<heap, pages, indexes, entries, acked, built, skipped, damaged>>
      /\ Become(s, st)
      /\ s \in Writers
      /\ ~Contains(indexes, i)
  BY <1>1 DEF CreateIndex
<1>3. skipped' \in BOOLEAN /\ (skipped => skipped') /\ pages \in Nat
  BY <1>2 DEF Inv, TypeOK
<1>4. st \in Session
  BY <1>1, <1>3, IdleFits DEF Session, CreatePcs
<1>5. st.pc = "create" /\ st.index = i /\ st.pages = pages
  BY <1>1 DEF Idle
<1>6. i \notin built
  BY <1>2, ContainsIsIn DEF Inv, TypeOK, Registered
<1>7. SessionFits(s, st)'
  BY <1>2, <1>5, <1>6 DEF SessionFits, Inserting, Creating, Selecting, InsertPcs, SelectPcs
<1> QED BY <1>2, <1>3, <1>4, <1>7, QuietStep

LEMMA SelectStep ==
  ASSUME Inv, NEW s \in Sessions, NEW p \in Queries \cup {Nil}, Select(s, p)
  PROVE  Inv'
<1>1. PICK st : st = [Idle EXCEPT !.pc = "optimize", !.pred = p, !.pages = pages,
                                  !.due = acked]
  OBVIOUS
<1>2. /\ UNCHANGED <<heap, pages, indexes, entries, acked, built, skipped, damaged>>
      /\ Become(s, st)
  BY <1>1 DEF Select
<1>3. /\ skipped' \in BOOLEAN /\ (skipped => skipped')
      /\ pages \in Nat /\ acked \in SUBSET Tids /\ heap \in Seq(Seq(Rows))
      /\ p \in Predicates \cup {Nil}
  BY <1>2, PredicatesAssumption DEF Inv, TypeOK
<1>4. st \in Session
  BY <1>1, <1>3, IdleFits DEF Session, SelectPcs
<1>5. st.pc = "optimize" /\ st.due = acked /\ st.pages = pages /\ st.out = <<>>
  BY <1>1 DEF Idle
<1>6. \A tid \in acked : tid[1] <= pages
  BY <1>3 DEF Inv, HeapCounted, IsStored, Tids
<1>7. pages <= pages
  BY <1>3
<1>8. Selecting(st)'
  BY <1>2, <1>5, <1>6, <1>7 DEF Selecting
<1>9. SessionFits(s, st)'
  BY <1>5, <1>8 DEF SessionFits, Inserting, Creating, InsertPcs, CreatePcs
<1> QED BY <1>2, <1>3, <1>4, <1>9, QuietStep

LEMMA ListIndexesStep ==
  ASSUME Inv, NEW s \in Sessions, ListIndexes(s)
  PROVE  Inv'
<1>1. PICK x \in Session : x = sess[s]
  BY DEF Inv, TypeOK
<1>2. PICK st : st = [x EXCEPT !.pc = "entries", !.todo = indexes]
  OBVIOUS
<1>3. /\ UNCHANGED <<heap, pages, indexes, entries, acked, built, skipped, damaged>>
      /\ Become(s, st)
      /\ x.pc = "list"
  BY <1>1, <1>2 DEF ListIndexes, At
<1>4. skipped' \in BOOLEAN /\ (skipped => skipped') /\ indexes \in Seq(Indexes)
  BY <1>3 DEF Inv, TypeOK
<1>5. st \in Session
  BY <1>2, <1>4 DEF Session, InsertPcs
<1>6. st.pc = "entries" /\ st.todo = indexes /\ st.row = x.row /\ st.tid = x.tid
  BY <1>2 DEF Session
<1>7. /\ s \in Writers /\ x.row \in Rows /\ RowStored(x)
      /\ \A i \in Indexes : x.tid \notin Indexed(i)
      /\ IsInjective(indexes)
  BY <1>1, <1>3 DEF Inv, SessionFits, Inserting, InsertPcs, CreatePcs, Registered
<1>8. ToSet(indexes) \subseteq Indexes
  BY <1>4 DEF ToSet
<1>9. Inserting(st)
  BY <1>6, <1>7, <1>8 DEF Inserting, RowStored
<1>10. Creating(st) /\ Selecting(st)
  BY <1>6 DEF Creating, Selecting, CreatePcs, SelectPcs
<1>11. SessionFits(s, st)'
  <2>1. Inserting(st)' /\ Creating(st)'
    BY <1>3, <1>4, <1>9, <1>10, WritingUnchanged
  <2>2. Selecting(st)'
    BY <1>6, NotSelectingLater DEF SelectPcs
  <2> QED BY <1>7, <2>1, <2>2 DEF SessionFits
<1> QED BY <1>3, <1>4, <1>5, <1>11, QuietStep

LEMMA TidsOfIsExact ==
  ASSUME heap \in Seq(Seq(Rows)), NEW ps \in SUBSET (1 .. Len(heap))
  PROVE  /\ TidsOf(ps) \in Seq(Tids)
         /\ IsInjective(TidsOf(ps))
         /\ \A tid : tid \in ToSet(TidsOf(ps)) <=> IsStored(tid) /\ tid[1] \in ps
<1> DEFINE f == [p \in ps |-> Len(heap[p])]
           All == UNION {{<<p, n>> : n \in DOMAIN heap[p]} : p \in ps}
<1>1. IsFiniteSet(1 .. Len(heap))
  BY FS_Interval
<1>2. IsFiniteSet(ps)
  BY <1>1, FS_Subset
<1>3. \A p \in ps : f[p] \in Nat /\ DOMAIN heap[p] = 1 .. f[p]
  OBVIOUS
<1>4. All = Pairs(ps, f)
  BY <1>3 DEF Pairs
<1>5. IsFiniteSet(All)
  <2>1. PICK g : g = f
    OBVIOUS
  <2>2. \A p \in ps : g[p] \in Nat
    BY <1>3, <2>1
  <2>3. IsFiniteSet(Pairs(ps, g))
    BY <1>2, <2>2, FinitePairs
  <2> HIDE DEF f, All
  <2> QED BY <1>4, <2>1, <2>3
<1>6. TidsOf(ps) = SetToSeq(All)
  BY DEF TidsOf
<1>7. \A tid : tid \in All <=> IsStored(tid) /\ tid[1] \in ps
  <2>1. ASSUME NEW p \in ps, NEW n \in DOMAIN heap[p]
        PROVE  IsStored(<<p, n>>)
    <3>1. p \in DOMAIN heap /\ p \in Nat /\ n \in Nat
      BY <1>3
    <3> QED BY <3>1 DEF IsStored, Tids
  <2>2. ASSUME NEW tid, IsStored(tid), tid[1] \in ps
        PROVE  tid \in All
    <3>1. tid = <<tid[1], tid[2]>>
      BY <2>2 DEF IsStored, Tids
    <3> QED BY <2>2, <3>1 DEF IsStored
  <2> QED BY <2>1, <2>2
<1>8. All \in SUBSET Tids
  BY <1>7 DEF IsStored
<1> HIDE DEF All
<1>9. /\ SetToSeq(All) \in Seq(All)
      /\ IsInjective(SetToSeq(All))
      /\ ToSet(SetToSeq(All)) = All
  BY <1>5, SetToSeqIsExact
<1>10. SetToSeq(All) \in Seq(Tids)
  BY <1>8, <1>9
<1> QED BY <1>6, <1>7, <1>9, <1>10

\* ScanTids returns every stored row of the pages the definition counted, or,
\* when it passes over a page, says so in skipped.
LEMMA ScanTidsIsExact ==
  ASSUME TypeOK, NEW s \in Sessions, NEW x \in Session, x = sess[s], NEW pc,
         x.pages <= Len(heap), ScanTids(s, pc)
  PROVE  \E tids \in Seq(Tids) :
           /\ Become(s, [x EXCEPT !.pc = pc, !.tids = tids])
           /\ IsInjective(tids)
           /\ \A tid \in ToSet(tids) : IsStored(tid)
           /\ \/ skipped' = TRUE
              \/ \A tid : IsStored(tid) /\ tid[1] <= x.pages => tid \in ToSet(tids)
           /\ skipped' \in BOOLEAN /\ (skipped => skipped')
<1> DEFINE all == 1 .. x.pages
<1>1. heap \in Seq(Seq(Rows)) /\ x.pages \in Nat /\ Len(heap) \in Nat
  BY DEF TypeOK, Session
<1>2. all \in SUBSET (1 .. Len(heap))
  BY <1>1
<1>3. CASE Become(s, [x EXCEPT !.pc = pc, !.tids = TidsOf(all)]) /\ UNCHANGED skipped
  <2>1. /\ TidsOf(all) \in Seq(Tids)
        /\ IsInjective(TidsOf(all))
        /\ \A tid : tid \in ToSet(TidsOf(all)) <=> IsStored(tid) /\ tid[1] \in all
    BY <1>1, <1>2, TidsOfIsExact
  <2>2. \A tid : IsStored(tid) /\ tid[1] <= x.pages => tid[1] \in all
    BY <1>1 DEF IsStored, Tids
  <2>3. skipped' \in BOOLEAN /\ (skipped => skipped')
    BY <1>3 DEF TypeOK
  <2> HIDE DEF all
  <2>4. PICK tids \in Seq(Tids) : tids = TidsOf(all)
    BY <2>1
  <2> QED BY <1>3, <2>1, <2>2, <2>3, <2>4
<1>4. CASE /\ skipped' = TRUE
           /\ \E p \in all : Become(s, [x EXCEPT !.pc = pc, !.tids = TidsOf(all \ {p})])
  <2>1. PICK p \in all : Become(s, [x EXCEPT !.pc = pc, !.tids = TidsOf(all \ {p})])
    BY <1>4
  <2>2. all \ {p} \in SUBSET (1 .. Len(heap))
    BY <1>2
  <2>3. /\ TidsOf(all \ {p}) \in Seq(Tids)
        /\ IsInjective(TidsOf(all \ {p}))
        /\ \A tid : tid \in ToSet(TidsOf(all \ {p})) <=> IsStored(tid) /\ tid[1] \in all \ {p}
    BY <1>1, <2>2, TidsOfIsExact
  <2> HIDE DEF all
  <2>4. PICK tids \in Seq(Tids) : tids = TidsOf(all \ {p})
    BY <2>3
  <2> QED BY <1>4, <2>1, <2>3, <2>4
<1> QED BY <1>3, <1>4 DEF ScanTids

LEMMA ScanForIndexStep ==
  ASSUME Inv, NEW s \in Sessions, ScanForIndex(s)
  PROVE  Inv'
<1>1. PICK x \in Session : x = sess[s]
  BY DEF Inv, TypeOK
<1>2. /\ UNCHANGED <<heap, pages, indexes, entries, acked, built, damaged>>
      /\ x.pc = "scan"
      /\ ScanTids(s, "build")
  BY <1>1 DEF ScanForIndex, At
<1>3. SessionFits(s, x) /\ TypeOK /\ HeapCounted
  BY <1>1 DEF Inv
<1>4. /\ s \in Writers /\ x.index \in Indexes /\ x.index \notin built
      /\ x.index \in ToSet(indexes) /\ entries[x.index.name] = <<>>
      /\ x.pages = pages
  BY <1>2, <1>3 DEF SessionFits, Creating, CreatePcs
<1>5. x.pages <= Len(heap)
  BY <1>3, <1>4 DEF HeapCounted, TypeOK
<1>6. PICK tids \in Seq(Tids) :
        /\ Become(s, [x EXCEPT !.pc = "build", !.tids = tids])
        /\ IsInjective(tids)
        /\ \A tid \in ToSet(tids) : IsStored(tid)
        /\ \/ skipped' = TRUE
           \/ \A tid : IsStored(tid) /\ tid[1] <= x.pages => tid \in ToSet(tids)
        /\ skipped' \in BOOLEAN /\ (skipped => skipped')
  BY <1>1, <1>2, <1>3, <1>5, ScanTidsIsExact
<1>7. PICK st : st = [x EXCEPT !.pc = "build", !.tids = tids]
  OBVIOUS
<1>8. st \in Session
  BY <1>7 DEF Session, CreatePcs
<1>9. st.pc = "build" /\ st.tids = tids /\ st.index = x.index
  BY <1>7 DEF Session
<1>10. Indexed(x.index) = {}
  BY <1>4 DEF Indexed
<1>11. skipped' \/ acked \subseteq ToSet(tids)
  <2>1. \A tid \in acked : IsStored(tid) /\ tid[1] <= x.pages
    BY <1>3, <1>4 DEF HeapCounted, IsStored, TypeOK, Tids
  <2> QED BY <1>6, <2>1
<1>12. Creating(st)'
  <2>1. Indexed(x.index)' = {} /\ \A tid : IsStored(tid)' <=> IsStored(tid)
    BY <1>2, <1>10 DEF Indexed, IsStored
  <2> QED BY <1>2, <1>4, <1>6, <1>9, <1>11, <2>1 DEF Creating
<1>13. SessionFits(s, st)'
  BY <1>4, <1>9, <1>12 DEF SessionFits, Inserting, Selecting, InsertPcs, SelectPcs
<1> QED BY <1>2, <1>6, <1>7, <1>8, <1>13, QuietStep

LEMMA OptimizeStep ==
  ASSUME Inv, NEW s \in Sessions, Optimize(s)
  PROVE  Inv'
<1>1. PICK x \in Session : x = sess[s]
  BY DEF Inv, TypeOK
<1>2. PICK plan : plan = chooseBestScan(x.pred)
  OBVIOUS
<1>3. PICK due : due = IF plan.type = "SEQ" \/ plan.index \in built THEN x.due ELSE {}
  OBVIOUS
<1>4. PICK st : st = [x EXCEPT !.pc = "open", !.plan = plan, !.due = due]
  OBVIOUS
<1>5. /\ UNCHANGED <<heap, pages, indexes, entries, acked, built, skipped, damaged>>
      /\ x.pc = "optimize"
      /\ Become(s, st)
  BY <1>1, <1>2, <1>3, <1>4 DEF Optimize, At
<1>6. /\ skipped' \in BOOLEAN /\ (skipped => skipped')
      /\ indexes \in Seq(Indexes) /\ x.pred \in Predicates \cup {Nil}
      /\ x.due \in SUBSET Tids
  BY <1>5 DEF Inv, TypeOK, Session
<1>7. \/ plan = SeqScan
      \/ x.pred \in Predicates /\ ScanFits(x.pred, plan)
  BY <1>2, <1>6, ChosenScanFits
<1>8. plan \in Plans
  <2>1. SeqScan \in Plans
    BY DEF SeqScan, Scan, Plans
  <2> QED BY <1>7, <2>1, ScanCovers
<1>9. due \subseteq x.due
  BY <1>3
<1>10. st \in Session
  BY <1>4, <1>6, <1>8, <1>9 DEF Session, SelectPcs
<1>11. /\ st.pc = "open" /\ st.plan = plan /\ st.due = due /\ st.pred = x.pred
       /\ st.pages = x.pages /\ st.out = x.out
  BY <1>4 DEF Session
<1>12. PlanFits(st)
  <2>1. CASE plan = SeqScan
    BY <1>8, <1>11, <2>1 DEF PlanFits, SeqScan, Scan
  <2>2. CASE x.pred \in Predicates /\ ScanFits(x.pred, plan)
    <3>1. /\ plan.range \in Ranges(Columns)
          /\ \A row \in Rows :
               evalBool(x.pred, row) => InRange(plan.range, row[plan.index.column])
      BY <2>2, ScanCovers
    <3>2. plan.index \in Indexes /\ plan.type # "SEQ"
      BY <2>2 DEF ScanFits
    <3>3. due # {} => plan.index \in built
      BY <1>3, <3>2
    <3> QED BY <1>8, <1>11, <2>2, <3>1, <3>2, <3>3 DEF PlanFits
  <2> QED BY <1>7, <2>1, <2>2
<1>13. PlanFits(st)'
  BY <1>5, <1>12 DEF PlanFits
<1>14. /\ x.due \subseteq acked /\ \A tid \in x.due : tid[1] <= x.pages
       /\ x.pages <= pages /\ x.out = <<>>
  BY <1>1, <1>5 DEF Inv, SessionFits, Selecting, SelectPcs
<1>15. Selecting(st)'
  BY <1>5, <1>9, <1>11, <1>13, <1>14 DEF Selecting
<1>16. SessionFits(s, st)'
  BY <1>11, <1>15 DEF SessionFits, Inserting, Creating, InsertPcs, CreatePcs
<1> QED BY <1>5, <1>6, <1>10, <1>16, QuietStep

LEMMA NextRowStep ==
  ASSUME Inv, NEW s \in Sessions, NextRow(s)
  PROVE  Inv'
<1>1. PICK x \in Session : x = sess[s]
  BY DEF Inv, TypeOK
<1>2. PICK tid : tid = Head(x.tids)
  OBVIOUS
<1>3. PICK st : st = IF Accepts(x, tid)
                     THEN [x EXCEPT !.tids = Tail(@), !.out = Append(@, tid)]
                     ELSE [x EXCEPT !.tids = Tail(@)]
  OBVIOUS
<1>4. Accepts(x, tid) <=> Passes(s, tid)
  BY <1>1 DEF Accepts, Passes
<1>5. /\ UNCHANGED <<heap, pages, indexes, entries, acked, built, skipped, damaged>>
      /\ x.pc = "next" /\ x.tids # <<>>
      /\ Become(s, st)
  BY <1>1, <1>2, <1>3, <1>4 DEF NextRow, At
<1>6. /\ skipped' \in BOOLEAN /\ (skipped => skipped')
      /\ x.tids \in Seq(Tids) /\ x.out \in Seq(Tids)
  BY <1>5 DEF Inv, TypeOK, Session
<1>7. Selecting(x)
  BY <1>1 DEF Inv, SessionFits
<1>8. /\ IsInjective(x.tids) /\ IsInjective(x.out)
      /\ ToSet(x.tids) \cap ToSet(x.out) = {}
      /\ \A t \in ToSet(x.tids) \cup ToSet(x.out) : IsStored(t)
      /\ \A t \in ToSet(x.out) : Accepts(x, t)
      /\ skipped \/ \A t \in x.due : Accepts(x, t) => t \in ToSet(x.tids) \cup ToSet(x.out)
  BY <1>5, <1>7 DEF Selecting
<1>9. /\ tid \in Tids /\ tid \in ToSet(x.tids)
      /\ Tail(x.tids) \in Seq(Tids)
      /\ IsInjective(Tail(x.tids))
      /\ ToSet(Tail(x.tids)) = ToSet(x.tids) \ {tid}
  BY <1>2, <1>5, <1>6, <1>8, TailOfInjective
<1>10. /\ Append(x.out, tid) \in Seq(Tids)
       /\ ToSet(Append(x.out, tid)) = ToSet(x.out) \cup {tid}
       /\ IsInjective(Append(x.out, tid))
  BY <1>6, <1>8, <1>9, AppendToInjective
<1>11. st \in Session
  BY <1>3, <1>9, <1>10 DEF Session
<1>12. /\ st.pc = "next" /\ st.tids = Tail(x.tids) /\ st.pred = x.pred /\ st.due = x.due
       /\ st.pages = x.pages
       /\ st.out = IF Accepts(x, tid) THEN Append(x.out, tid) ELSE x.out
  BY <1>3, <1>5 DEF Session
<1>13. \A t : Accepts(st, t) <=> Accepts(x, t)
  BY <1>12 DEF Accepts
<1>14. /\ IsInjective(st.tids) /\ IsInjective(st.out)
       /\ ToSet(st.tids) \cap ToSet(st.out) = {}
       /\ \A t \in ToSet(st.tids) \cup ToSet(st.out) : IsStored(t)
       /\ \A t \in ToSet(st.out) : Accepts(st, t)
  <2>1. CASE Accepts(x, tid)
    BY <1>8, <1>9, <1>10, <1>12, <1>13, <2>1
  <2>2. CASE ~Accepts(x, tid)
    BY <1>8, <1>9, <1>12, <1>13, <2>2
  <2> QED BY <2>1, <2>2
<1>15. skipped \/ \A t \in st.due : Accepts(st, t) => t \in ToSet(st.tids) \cup ToSet(st.out)
  <2>1. CASE Accepts(x, tid)
    BY <1>8, <1>9, <1>10, <1>12, <1>13, <2>1
  <2>2. CASE ~Accepts(x, tid)
    BY <1>8, <1>9, <1>12, <1>13, <2>2
  <2> QED BY <2>1, <2>2
<1>16. Selecting(st)
  <2>1. /\ st.due \subseteq acked
        /\ \A t \in st.due : t[1] <= st.pages
        /\ st.pages <= pages
    BY <1>5, <1>7, <1>12 DEF Selecting, SelectPcs
  <2> QED BY <1>12, <1>14, <1>15, <2>1 DEF Selecting
<1>17. Selecting(st)'
  <2>1. TypeOK /\ HeapCounted
    BY DEF Inv
  <2>2. Growth
    BY <1>5, <1>6, <2>1, GrowthOfSame
  <2>3. TypeOK'
    <3>1. sess' \in [Sessions -> Session]
      BY <1>5, <1>11, <2>1, BecomeType
    <3> QED BY <1>5, <2>1, <3>1 DEF TypeOK
  <2> QED BY <1>11, <1>16, <2>1, <2>2, <2>3, SelectingGrows
<1>18. SessionFits(s, st)'
  BY <1>12, <1>17 DEF SessionFits, Inserting, Creating, InsertPcs, CreatePcs
<1> QED BY <1>5, <1>6, <1>11, <1>18, QuietStep

\* Pick takes each of the positions once.
LEMMA PickIs ==
  ASSUME NEW S, NEW seq \in Seq(S), NEW ps \in SUBSET DOMAIN seq
  PROVE  /\ Pick(seq, ps) \in Seq(S)
         /\ \E order \in [DOMAIN Pick(seq, ps) -> ps] :
              /\ \A k \in DOMAIN Pick(seq, ps) : Pick(seq, ps)[k] = seq[order[k]]
              /\ \A j, k \in DOMAIN Pick(seq, ps) : order[j] = order[k] => j = k
              /\ \A n \in ps : \E k \in DOMAIN Pick(seq, ps) : order[k] = n
<1>1. IsFiniteSet(ps)
  <2>1. IsFiniteSet(1 .. Len(seq)) /\ ps \in SUBSET (1 .. Len(seq))
    BY FS_Interval
  <2> QED BY <2>1, FS_Subset
<1>2. PICK order : order = SetToSeq(ps)
  OBVIOUS
<1>3. order \in Seq(ps) /\ IsInjective(order) /\ ToSet(order) = ps
  BY <1>1, <1>2, SetToSeqIsExact
<1>4. PICK q : q = [k \in DOMAIN order |-> seq[order[k]]]
  OBVIOUS
<1>5. Pick(seq, ps) = q
  BY <1>2, <1>4 DEF Pick
<1>6. DOMAIN order = 1 .. Len(order) /\ Len(order) \in Nat
  BY <1>3
<1>7. order \in [DOMAIN order -> ps]
  BY <1>3, <1>6
<1>8. \A k \in DOMAIN order : seq[order[k]] \in S
  BY <1>7
<1>9. q \in Seq(S) /\ DOMAIN q = DOMAIN order
  BY <1>4, <1>6, <1>8
<1>10. \A k \in DOMAIN order : q[k] = seq[order[k]]
  BY <1>4
<1>11. \A j, k \in DOMAIN order : order[j] = order[k] => j = k
  BY <1>3 DEF IsInjective
<1>12. \A n \in ps : \E k \in DOMAIN order : order[k] = n
  BY <1>3 DEF ToSet
<1> QED BY <1>5, <1>7, <1>9, <1>10, <1>11, <1>12

\* An index search returns stored rows, each once; and unless it misses entries,
\* every row with a key in the range.
LEMMA SearchIndexIsExact ==
  ASSUME TypeOK, NEW plan, NEW i \in Indexes, plan.index = i, EntriesFit(i),
         NEW found \in SUBSET Matching(plan)
  PROVE  /\ SearchIndex(plan, found) \in Seq(Tids)
         /\ IsInjective(SearchIndex(plan, found))
         /\ \A tid \in ToSet(SearchIndex(plan, found)) : IsStored(tid)
         /\ found = Matching(plan) =>
              \A tid \in Indexed(i) :
                InRange(plan.range, RowAt(tid)[i.column]) =>
                  tid \in ToSet(SearchIndex(plan, found))
<1>1. PICK es : es = entries[i.name]
  OBVIOUS
<1>2. es \in Seq(Entry)
  BY <1>1 DEF TypeOK, Names
<1>3. /\ \A n \in DOMAIN es : EntryFits(i, es[n])
      /\ \A m, n \in DOMAIN es : es[m].tid = es[n].tid => m = n
  BY <1>1 DEF EntriesFit
<1>4. found \in SUBSET DOMAIN es
  BY <1>1 DEF Matching
<1>5. PICK fs : fs = Pick(es, found)
  OBVIOUS
<1>6. fs \in Seq(Entry)
  BY <1>2, <1>4, <1>5, PickIs
<1>7. PICK order \in [DOMAIN fs -> found] :
        /\ \A k \in DOMAIN fs : fs[k] = es[order[k]]
        /\ \A j, k \in DOMAIN fs : order[j] = order[k] => j = k
        /\ \A n \in found : \E k \in DOMAIN fs : order[k] = n
  BY <1>2, <1>4, <1>5, PickIs
<1>8. PICK q : q = [k \in DOMAIN fs |-> fs[k].tid]
  OBVIOUS
<1>9. SearchIndex(plan, found) = q
  BY <1>1, <1>5, <1>8 DEF SearchIndex
<1>10. \A k \in DOMAIN fs : order[k] \in DOMAIN es /\ q[k] = es[order[k]].tid
  BY <1>4, <1>7, <1>8
<1>11. q \in Seq(Tids) /\ DOMAIN q = DOMAIN fs
  <2>1. DOMAIN fs = 1 .. Len(fs) /\ Len(fs) \in Nat /\ \A k \in DOMAIN fs : fs[k] \in Entry
    BY <1>6
  <2>2. \A e \in Entry : e.tid \in Tids
    BY DEF Entry
  <2> QED BY <1>8, <2>1, <2>2
<1>12. IsInjective(q)
  BY <1>3, <1>7, <1>10, <1>11 DEF IsInjective
<1>13. \A tid \in ToSet(q) : IsStored(tid)
  BY <1>3, <1>10, <1>11 DEF ToSet, EntryFits
<1>14. ASSUME found = Matching(plan),
              NEW tid \in Indexed(i), InRange(plan.range, RowAt(tid)[i.column])
       PROVE  tid \in ToSet(q)
  <2>1. PICK n \in DOMAIN es : tid = es[n].tid
    BY <1>1 DEF Indexed
  <2>2. InRange(plan.range, es[n].key)
    BY <1>3, <1>14, <2>1 DEF EntryFits
  <2>3. n \in found
    BY <1>1, <1>14, <2>2 DEF Matching
  <2>4. PICK k \in DOMAIN fs : order[k] = n
    BY <1>7, <2>3
  <2> QED BY <1>10, <1>11, <2>1, <2>4 DEF ToSet
<1> QED BY <1>9, <1>11, <1>12, <1>13, <1>14

\* What a scan returns is what the rest of a SELECT starts from.
LEMMA OpenFits ==
  ASSUME TypeOK, NEW s, NEW x \in Session, x.pc = "open", Selecting(x),
         UNCHANGED <<heap, pages, acked, built, damaged>>,
         NEW tids \in Seq(Tids), IsInjective(tids), \A tid \in ToSet(tids) : IsStored(tid),
         NEW due \in SUBSET x.due,
         skipped' \/ \A tid \in due : Accepts(x, tid) => tid \in ToSet(tids)
  PROVE  LET st == [x EXCEPT !.pc = "next", !.tids = tids, !.due = due] IN
         st \in Session /\ SessionFits(s, st)'
<1>1. PICK st : st = [x EXCEPT !.pc = "next", !.tids = tids, !.due = due]
  OBVIOUS
<1>2. st \in Session
  BY <1>1 DEF Session, SelectPcs
<1>3. /\ st.pc = "next" /\ st.tids = tids /\ st.out = x.out /\ st.due = due
      /\ st.pages = x.pages /\ st.pred = x.pred
  BY <1>1 DEF Session
<1>4. x.out = <<>> /\ ToSet(x.out) = {} /\ IsInjective(x.out)
  BY DEF Selecting, ToSet, IsInjective
<1>5. \A tid : (Accepts(st, tid)' <=> Accepts(x, tid)) /\ (IsStored(tid)' <=> IsStored(tid))
  BY <1>3 DEF Accepts, IsStored, RowAt
<1>6. /\ x.due \subseteq acked'
      /\ \A tid \in x.due : tid[1] <= x.pages
      /\ x.pages <= pages'
  BY DEF Selecting, SelectPcs
<1>7. Selecting(st)'
  BY <1>3, <1>4, <1>5, <1>6 DEF Selecting
<1>8. SessionFits(s, st)'
  BY <1>3, <1>7 DEF SessionFits, Inserting, Creating, InsertPcs, CreatePcs
<1> QED BY <1>1, <1>2, <1>8

LEMMA OpenStep ==
  ASSUME Inv, NEW s \in Sessions, Open(s)
  PROVE  Inv'
<1>1. PICK x \in Session : x = sess[s]
  BY DEF Inv, TypeOK
<1>2. /\ UNCHANGED <<heap, pages, indexes, entries, acked, built, damaged>>
      /\ x.pc = "open"
      /\ \/ x.plan.type = "SEQ" /\ ScanTids(s, "next")
         \/ /\ x.plan.type # "SEQ"
            /\ \E found \in Findable(x.plan) :
                 Become(s, [x EXCEPT !.pc = "next", !.tids = SearchIndex(x.plan, found),
                              !.due = IF x.plan.index \in damaged THEN {} ELSE x.due])
            /\ UNCHANGED skipped
  BY <1>1 DEF Open, At
<1>3. Selecting(x) /\ TypeOK /\ HeapCounted
  BY <1>1 DEF Inv, SessionFits
<1>4. \A tid \in x.due : IsStored(tid) /\ tid \in acked /\ tid[1] <= x.pages
  BY <1>2, <1>3 DEF Selecting, HeapCounted, SelectPcs
<1>5. \E tids \in Seq(Tids), due \in SUBSET x.due :
        /\ Become(s, [x EXCEPT !.pc = "next", !.tids = tids, !.due = due])
        /\ IsInjective(tids)
        /\ \A tid \in ToSet(tids) : IsStored(tid)
        /\ skipped' \/ \A tid \in due : Accepts(x, tid) => tid \in ToSet(tids)
        /\ skipped' \in BOOLEAN /\ (skipped => skipped')
  <2>1. CASE ScanTids(s, "next")
    <3>1. x.pages <= Len(heap)
      BY <1>2, <1>3 DEF Selecting, SelectPcs, HeapCounted
    <3>2. PICK tids \in Seq(Tids) :
            /\ Become(s, [x EXCEPT !.pc = "next", !.tids = tids])
            /\ IsInjective(tids)
            /\ \A tid \in ToSet(tids) : IsStored(tid)
            /\ \/ skipped' = TRUE
               \/ \A tid : IsStored(tid) /\ tid[1] <= x.pages => tid \in ToSet(tids)
            /\ skipped' \in BOOLEAN /\ (skipped => skipped')
      BY <1>1, <1>3, <2>1, <3>1, ScanTidsIsExact
    <3>3. skipped' \/ \A tid \in x.due : Accepts(x, tid) => tid \in ToSet(tids)
      BY <1>4, <3>2
    <3>4. [x EXCEPT !.pc = "next", !.tids = tids]
            = [x EXCEPT !.pc = "next", !.tids = tids, !.due = x.due]
      BY DEF Session
    <3>5. PICK due \in SUBSET x.due : due = x.due
      OBVIOUS
    <3> QED BY <3>2, <3>3, <3>4, <3>5
  <2>2. CASE /\ x.plan.type # "SEQ"
             /\ \E found \in Findable(x.plan) :
                  Become(s, [x EXCEPT !.pc = "next", !.tids = SearchIndex(x.plan, found),
                               !.due = IF x.plan.index \in damaged THEN {} ELSE x.due])
             /\ UNCHANGED skipped
    <3>1. PICK i : i = x.plan.index
      OBVIOUS
    <3>2. PlanFits(x)
      BY <1>2, <1>3 DEF Selecting
    <3>3. /\ i \in Indexes /\ x.pred \in Predicates
          /\ \A row \in Rows : evalBool(x.pred, row) => InRange(x.plan.range, row[i.column])
          /\ x.due # {} => i \in built
      BY <2>2, <3>1, <3>2 DEF PlanFits
    <3>4. EntriesFit(i) /\ Complete(i)
      BY <3>3 DEF Inv
    <3>5. PICK plan : plan = x.plan
      OBVIOUS
    <3>6. PICK tids, due, found :
            /\ found \in Findable(plan)
            /\ tids = SearchIndex(plan, found)
            /\ due = IF i \in damaged THEN {} ELSE x.due
            /\ Become(s, [x EXCEPT !.pc = "next", !.tids = tids, !.due = due])
      BY <2>2, <3>1, <3>5
    <3>7. found \in SUBSET Matching(plan) /\ (i \notin damaged => found = Matching(plan))
      BY <3>1, <3>5, <3>6 DEF Findable
    <3>8. due \in SUBSET x.due
      BY <3>6
    <3>9. /\ tids \in Seq(Tids)
          /\ IsInjective(tids)
          /\ \A tid \in ToSet(tids) : IsStored(tid)
          /\ found = Matching(plan) =>
               \A tid \in Indexed(i) :
                 InRange(plan.range, RowAt(tid)[i.column]) => tid \in ToSet(tids)
      BY <1>3, <3>1, <3>3, <3>4, <3>5, <3>6, <3>7, SearchIndexIsExact
    <3>10. ASSUME ~skipped, NEW tid \in due, Accepts(x, tid)
          PROVE  tid \in ToSet(tids)
      <4>0. i \notin damaged /\ tid \in x.due
        BY <3>6, <3>10
      <4>1. tid \in Indexed(i)
        BY <1>4, <3>3, <3>4, <3>10, <4>0 DEF Complete
      <4>2. RowAt(tid) \in Rows
        BY <1>3, <1>4, <4>0 DEF IsStored, RowAt, TypeOK
      <4>3. evalBool(x.pred, RowAt(tid))
        BY <3>3, <3>10, PredicatesAssumption DEF Accepts
      <4> QED BY <3>3, <3>5, <3>9, <3>7, <4>0, <4>1, <4>2, <4>3
    <3>11. skipped' \in BOOLEAN /\ (skipped => skipped') /\ skipped' = skipped
      BY <1>3, <2>2 DEF TypeOK
    <3> QED BY <3>6, <3>9, <3>10, <3>11, <3>8
  <2> QED BY <1>2, <2>1, <2>2
<1>6. PICK tids \in Seq(Tids), due \in SUBSET x.due :
        /\ Become(s, [x EXCEPT !.pc = "next", !.tids = tids, !.due = due])
        /\ IsInjective(tids)
        /\ \A tid \in ToSet(tids) : IsStored(tid)
        /\ skipped' \/ \A tid \in due : Accepts(x, tid) => tid \in ToSet(tids)
        /\ skipped' \in BOOLEAN /\ (skipped => skipped')
  BY <1>5
<1>7. PICK st : st = [x EXCEPT !.pc = "next", !.tids = tids, !.due = due]
  OBVIOUS
<1>8. st \in Session /\ SessionFits(s, st)'
  BY <1>2, <1>3, <1>6, <1>7, OpenFits
<1>9. Become(s, st)
  BY <1>6, <1>7
<1> QED BY <1>2, <1>6, <1>8, <1>9, QuietStep

-----------------------------------------------------------------------------
(* The steps of the writer. *)

LEMMA WriterStep ==
  ASSUME Inv, OneWriter, TypeOK', TablesFit', Growth,
         NEW s \in Sessions, s \in Writers, NEW st \in Session,
         Become(s, st), SessionFits(s, st)'
  PROVE  Inv'
<1>1. \A t \in Sessions : SessionFits(t, sess[t])'
  BY SessionsFit
<1> QED BY <1>1 DEF Inv, TablesFit

\* A row goes to the end of a page, or to a new page.
GoesTo(h, row, p, g) ==
  \/ p = Len(h) + 1 /\ g = Append(h, <<row>>)
  \/ p \in 1 .. Len(h) /\ g = [h EXCEPT ![p] = Append(@, row)]

LEMMA HeapAfterInsert ==
  ASSUME NEW h \in Seq(Seq(Rows)), NEW row \in Rows, NEW p, NEW g,
         GoesTo(h, row, p, g)
  PROVE  /\ g \in Seq(Seq(Rows))
         /\ Len(g) = IF p = Len(h) + 1 THEN p ELSE Len(h)
         /\ p \in DOMAIN g /\ p \in Nat
         /\ Len(g[p]) \in DOMAIN g[p] /\ Len(g[p]) \in Nat
         /\ g[p][Len(g[p])] = row
         /\ p \in DOMAIN h => Len(g[p]) \notin DOMAIN h[p]
         /\ \A a \in DOMAIN h :
              /\ a \in DOMAIN g
              /\ \A b \in DOMAIN h[a] : b \in DOMAIN g[a] /\ g[a][b] = h[a][b]
<1>0. PICK R : R = Seq(Rows)
  OBVIOUS
<1>1. h \in Seq(R)
  BY <1>0
<1>2. Len(h) \in Nat /\ DOMAIN h = 1 .. Len(h) /\ \A a \in DOMAIN h : h[a] \in R
  BY ONLY <1>1
<1>3. CASE p = Len(h) + 1 /\ g = Append(h, <<row>>)
  <2>1. PICK e : e = <<row>>
    OBVIOUS
  <2>2. e \in R /\ Len(e) = 1 /\ DOMAIN e = 1 .. 1 /\ e[1] = row
    <3>1. row \in Rows
      OBVIOUS
    <3> QED BY ONLY <1>0, <2>1, <3>1
  <2>3. /\ g \in Seq(R) /\ Len(g) = Len(h) + 1 /\ DOMAIN g = 1 .. Len(h) + 1
        /\ g[p] = e
        /\ \A a \in 1 .. Len(h) : g[a] = h[a]
    BY ONLY <1>1, <1>3, <2>1, <2>2, AppendIs
  <2>4. p \in DOMAIN g /\ p \in Nat /\ p \notin DOMAIN h /\ DOMAIN h \subseteq DOMAIN g
    BY ONLY <1>2, <1>3, <2>3
  <2>5. Len(g[p]) \in DOMAIN g[p] /\ Len(g[p]) \in Nat /\ g[p][Len(g[p])] = row
    <3>1. 1 \in 1 .. 1 /\ 1 \in Nat
      BY ONLY TRUE
    <3>2. Len(e) \in DOMAIN e /\ Len(e) \in Nat /\ e[Len(e)] = row
      BY ONLY <2>2, <3>1
    <3> QED BY ONLY <2>3, <3>2
  <2> QED BY ONLY <1>0, <1>2, <1>3, <2>3, <2>4, <2>5
<1>4. CASE p \in 1 .. Len(h) /\ g = [h EXCEPT ![p] = Append(@, row)]
  <2>1. PICK e, q : q = h[p] /\ e = Append(q, row)
    OBVIOUS
  <2>2. p \in DOMAIN h /\ q \in Seq(Rows) /\ p \in Nat
    BY ONLY <1>0, <1>2, <1>4, <2>1
  <2>3. /\ e \in Seq(Rows)
        /\ Len(e) = Len(q) + 1
        /\ DOMAIN q = 1 .. Len(q) /\ Len(q) \in Nat
        /\ DOMAIN e = 1 .. Len(q) + 1
        /\ \A n \in 1 .. Len(q) : e[n] = q[n]
        /\ e[Len(q) + 1] = row
    <3>1. row \in Rows
      OBVIOUS
    <3> QED BY ONLY <2>1, <2>2, <3>1, AppendIs
  <2>4. /\ g \in Seq(R)
        /\ Len(g) = Len(h)
        /\ DOMAIN g = DOMAIN h
        /\ g[p] = e
        /\ \A n \in DOMAIN h : n # p => g[n] = h[n]
    <3>1. g = [h EXCEPT ![p] = e] /\ e \in R
      BY ONLY <1>0, <1>4, <2>1, <2>3
    <3>2. p \in 1 .. Len(h)
      BY ONLY <1>4
    <3> QED BY ONLY <1>1, <3>1, <3>2, ExceptIs
  <2>5. /\ Len(g[p]) \in DOMAIN g[p] /\ Len(g[p]) \in Nat /\ g[p][Len(g[p])] = row
        /\ Len(g[p]) \notin DOMAIN h[p]
    BY ONLY <2>1, <2>3, <2>4
  <2>6. \A b \in DOMAIN h[p] : b \in DOMAIN g[p] /\ g[p][b] = h[p][b]
    BY ONLY <2>1, <2>3, <2>4
  <2>7. p # Len(h) + 1
    BY ONLY <1>2, <1>4
  <2> QED BY ONLY <1>0, <2>2, <2>4, <2>5, <2>6, <2>7
<1> QED BY <1>3, <1>4 DEF GoesTo

LEMMA TargetPageIs ==
  ASSUME heap \in Seq(Seq(Rows)), NEW count \in Nat, count = Len(heap)
  PROVE  TargetPage(count) = count + 1 \/ TargetPage(count) \in 1 .. count
<1> DEFINE room == {p \in 1 .. count : Len(heap[p]) < PerPage}
<1>1. CASE room = {}
  BY <1>1 DEF TargetPage
<1>2. CASE room # {}
  <2>1. room \in SUBSET Nat /\ room \subseteq 1 .. count
    OBVIOUS
  <2>2. TargetPage(count) = Min(room)
    BY <1>2 DEF TargetPage
  <2> HIDE DEF room
  <2> QED BY <1>2, <2>1, <2>2, MinIsLeast
<1> QED BY <1>1, <1>2

LEMMA EntriesGrow ==
  ASSUME TypeOK, NEW i \in Indexes, EntriesFit(i), Growth, UNCHANGED entries
  PROVE  EntriesFit(i)'
<1>1. PICK es : es = entries[i.name]
  OBVIOUS
<1>2. \A n \in DOMAIN es : EntryFits(i, es[n])
  BY <1>1 DEF EntriesFit
<1>3. \A n \in DOMAIN es : EntryFits(i, es[n])'
  BY <1>2 DEF EntryFits, Growth, IsStored
<1> QED BY <1>1, <1>3 DEF EntriesFit

LEMMA InsertRowStep ==
  ASSUME Inv, OneWriter, NEW s \in Sessions, InsertRow(s)
  PROVE  Inv'
<1>1. PICK x \in Session : x = sess[s]
  BY DEF Inv, TypeOK
<1>2. x.pc = "insert" /\ UNCHANGED <<indexes, entries, acked, built, skipped, damaged>>
  BY <1>1 DEF InsertRow, At
<1>3. TypeOK /\ TablesFit /\ SessionFits(s, x) /\ Len(heap) = pages
  BY <1>1 DEF Inv, TablesFit, HeapCounted
<1>4. s \in Writers /\ x.row \in Rows /\ x.pages = pages
  BY <1>2, <1>3 DEF SessionFits, Inserting, InsertPcs
<1>5. heap \in Seq(Seq(Rows)) /\ pages \in Nat /\ x.pages = Len(heap)
  BY <1>3, <1>4 DEF TypeOK
<1>6. PICK p : p = TargetPage(x.pages)
  OBVIOUS
<1>7. p = Len(heap) + 1 \/ p \in 1 .. Len(heap)
  BY <1>3, <1>4, <1>5, <1>6, TargetPageIs
<1>8. ~(p > x.pages /\ p <= Len(heap)) /\ (p > x.pages <=> p = Len(heap) + 1)
  BY <1>5, <1>7
<1>9. /\ heap' = IF p > x.pages THEN Append(heap, <<x.row>>)
                 ELSE [heap EXCEPT ![p] = Append(@, x.row)]
      /\ pages' = IF p > x.pages THEN p ELSE pages
      /\ \/ Become(s, [x EXCEPT !.pc = "list", !.tid = <<p, Len(heap'[p])>>])
         \/ Become(s, Idle)
  BY <1>1, <1>6, <1>8 DEF InsertRow
<1>10. PICK h, g : h = heap /\ g = heap'
  OBVIOUS
<1>11. /\ g \in Seq(Seq(Rows))
       /\ Len(g) = IF p = Len(h) + 1 THEN p ELSE Len(h)
       /\ p \in DOMAIN g /\ p \in Nat
       /\ Len(g[p]) \in DOMAIN g[p] /\ Len(g[p]) \in Nat
       /\ g[p][Len(g[p])] = x.row
       /\ p \in DOMAIN h => Len(g[p]) \notin DOMAIN h[p]
       /\ \A a \in DOMAIN h :
            /\ a \in DOMAIN g
            /\ \A b \in DOMAIN h[a] : b \in DOMAIN g[a] /\ g[a][b] = h[a][b]
  <2>1. GoesTo(h, x.row, p, g)
    BY <1>7, <1>8, <1>9, <1>10 DEF GoesTo
  <2>2. h \in Seq(Seq(Rows)) /\ x.row \in Rows
    BY <1>4, <1>5, <1>10
  <2> QED BY ONLY <2>1, <2>2, HeapAfterInsert
<1>12. Len(heap') = pages' /\ pages' \in Nat /\ pages <= pages'
  BY <1>3, <1>5, <1>7, <1>8, <1>9, <1>10, <1>11
<1>13. Growth
  <2>1. \A tid \in Tids : IsStored(tid) => IsStored(tid)' /\ RowAt(tid)' = RowAt(tid)
    BY <1>10, <1>11 DEF IsStored, RowAt
  <2> QED BY <1>2, <1>12, <2>1 DEF Growth
<1>14. PICK tid : tid = <<p, Len(g[p])>>
  OBVIOUS
<1>15. tid \in Tids /\ tid[1] = p /\ tid[2] = Len(g[p])
  BY <1>11, <1>14 DEF Tids
<1>16. IsStored(tid)' /\ RowAt(tid)' = x.row /\ ~IsStored(tid)
  BY <1>10, <1>11, <1>15 DEF IsStored, RowAt
<1>17. \A i \in Indexes : tid \notin Indexed(i) /\ Indexed(i)' = Indexed(i)
  BY <1>2, <1>3, <1>16 DEF TablesFit, EntriesFit, EntryFits, Indexed
<1>18. TablesFit'
  <2>1. \A i \in Indexes : EntriesFit(i)'
    BY <1>2, <1>3, <1>13, EntriesGrow DEF TablesFit
  <2>2. \A i \in Indexes : Complete(i)'
    BY <1>2, <1>3, <1>17 DEF TablesFit, Complete
  <2>3. HeapCounted'
    BY <1>2, <1>3, <1>12, <1>13 DEF TablesFit, HeapCounted, Growth, TypeOK
  <2>4. Registered'
    BY <1>2, <1>3 DEF TablesFit, Registered
  <2> QED BY <2>1, <2>2, <2>3, <2>4 DEF TablesFit
<1>19. PICK st \in Session : Become(s, st) /\ SessionFits(s, st)'
  <2>1. CASE Become(s, Idle)
    BY <2>1, IdleFits
  <2>2. CASE Become(s, [x EXCEPT !.pc = "list", !.tid = <<p, Len(heap'[p])>>])
    <3>1. PICK st : st = [x EXCEPT !.pc = "list", !.tid = tid]
      OBVIOUS
    <3>2. Become(s, st)
      BY <1>10, <1>14, <2>2, <3>1
    <3>3. st \in Session
      BY <1>15, <3>1 DEF Session, InsertPcs
    <3>4. st.pc = "list" /\ st.tid = tid /\ st.row = x.row
      BY <3>1 DEF Session
    <3>5. Inserting(st)'
      BY <1>4, <1>16, <1>17, <3>4 DEF Inserting, RowStored
    <3>6. SessionFits(s, st)'
      BY <1>4, <3>4, <3>5 DEF SessionFits, Creating, Selecting, CreatePcs, SelectPcs
    <3> QED BY <3>2, <3>3, <3>6
  <2> QED BY <1>9, <2>1, <2>2
<1>20. TypeOK'
  <2>1. sess' \in [Sessions -> Session]
    BY <1>3, <1>19, BecomeType
  <2> QED BY <1>2, <1>3, <1>10, <1>11, <1>12, <2>1 DEF TypeOK
<1> QED BY <1>4, <1>13, <1>18, <1>19, <1>20, WriterStep

\* An entry for a stored row that the index does not have yet.
LEMMA EntryAdded ==
  ASSUME TypeOK, TablesFit, UNCHANGED <<heap, pages, indexes, acked, built, skipped, damaged>>,
         NEW i \in Indexes, i \in ToSet(indexes), NEW tid, IsStored(tid),
         tid \notin Indexed(i), NEW row, row = RowAt(tid), AddEntry(i, row, tid)
  PROVE  /\ entries' \in [Names -> Seq(Entry)]
         /\ TablesFit'
         /\ Growth
         /\ Indexed(i)' = Indexed(i) \cup {tid}
         /\ \A j \in Indexes : j # i => Indexed(j)' = Indexed(j)
<1>1. PICK es, e, fs : es = entries[i.name] /\ e = [key |-> row[i.column], tid |-> tid]
                       /\ fs = Append(es, e)
  OBVIOUS
<1>2. i.name \in Names /\ es \in Seq(Entry)
  BY <1>1 DEF TypeOK, Names
<1>3. e \in Entry /\ e.tid = tid /\ e.key = row[i.column]
  <2>1. row \in Rows /\ tid \in Tids
    BY DEF IsStored, RowAt, TypeOK
  <2>2. row[i.column] \in Int
    BY <2>1, RowsAssumption, IndexesAssumption
  <2> QED BY <1>1, <2>1, <2>2 DEF Entry
<1>4. /\ fs \in Seq(Entry)
      /\ Len(fs) = Len(es) + 1
      /\ DOMAIN es = 1 .. Len(es) /\ Len(es) \in Nat
      /\ DOMAIN fs = 1 .. Len(es) + 1
      /\ \A n \in 1 .. Len(es) : fs[n] = es[n]
      /\ fs[Len(es) + 1] = e
  BY <1>1, <1>2, <1>3, AppendIs
<1>5. /\ entries' \in [Names -> Seq(Entry)]
      /\ entries'[i.name] = fs
      /\ \A n \in Names : n # i.name => entries'[n] = entries[n]
  BY <1>1, <1>2, <1>4 DEF TypeOK, AddEntry
<1>6. \A j \in Indexes : j # i => j.name \in Names /\ entries'[j.name] = entries[j.name]
  BY <1>5, IndexesAssumption DEF Names
<1>7. \A n \in DOMAIN fs : n \in DOMAIN es \/ n = Len(es) + 1
  BY <1>4
<1>8. DOMAIN es \subseteq DOMAIN fs /\ Len(es) + 1 \in DOMAIN fs
  BY <1>4
<1>9. Indexed(i)' = Indexed(i) \cup {tid}
  <2>1. Indexed(i) = {es[n].tid : n \in DOMAIN es} /\ Indexed(i)' = {fs[n].tid : n \in DOMAIN fs}
    BY <1>1, <1>5 DEF Indexed
  <2> QED BY ONLY <1>3, <1>4, <1>7, <1>8, <2>1
<1>10. \A j \in Indexes : j # i => Indexed(j)' = Indexed(j)
  BY <1>6 DEF Indexed
<1>11. Growth
  <2>1. (skipped => skipped') /\ acked \subseteq acked' /\ built \subseteq built'
    OBVIOUS
  <2> QED BY <2>1, GrowthOfSame
<1>12. ASSUME NEW j \in Indexes PROVE EntriesFit(j)'
  <2>1. \A a, b : EntryFits(a, b)' <=> EntryFits(a, b)
    BY DEF EntryFits, IsStored, RowAt
  <2>2. CASE j = i
    <3>1. \A n \in DOMAIN es : EntryFits(i, es[n]) /\ es[n].tid # tid
      BY <1>1 DEF TablesFit, EntriesFit, Indexed
    <3>2. \A m, n \in DOMAIN es : es[m].tid = es[n].tid => m = n
      BY <1>1 DEF TablesFit, EntriesFit
    <3>3. EntryFits(i, e)
      BY <1>3 DEF EntryFits
    <3>4. \A n \in DOMAIN fs : EntryFits(i, fs[n])
      BY <1>4, <1>7, <3>1, <3>3
    <3>5. \A m, n \in DOMAIN fs : fs[m].tid = fs[n].tid => m = n
      BY <1>3, <1>4, <1>7, <3>1, <3>2
    <3> QED BY <1>5, <2>1, <2>2, <3>4, <3>5 DEF EntriesFit
  <2>3. CASE j # i
    BY <1>6, <2>1, <2>3 DEF TablesFit, EntriesFit
  <2> QED BY <2>2, <2>3
<1>13. ASSUME NEW j \in Indexes PROVE Complete(j)'
  <2>1. Indexed(j) \subseteq Indexed(j)'
    BY <1>9, <1>10
  <2> QED BY <2>1 DEF TablesFit, Complete
<1>14. HeapCounted'
  BY DEF TablesFit, HeapCounted, IsStored
<1>15. Registered'
  BY <1>6 DEF TablesFit, Registered
<1>16. TablesFit'
  BY <1>12, <1>13, <1>14, <1>15 DEF TablesFit
<1> QED BY <1>5, <1>9, <1>10, <1>11, <1>16

\* An Insert that fails part way: the index keeps some of its entries.
LEMMA EntriesLost ==
  ASSUME TypeOK, TablesFit, UNCHANGED <<heap, pages, indexes, acked, built, skipped>>,
         NEW i \in Indexes, i \in ToSet(indexes), NEW tid, IsStored(tid),
         tid \notin Indexed(i), NEW row, row = RowAt(tid), IndexInsertFails(i, row, tid)
  PROVE  /\ entries' \in [Names -> Seq(Entry)]
         /\ damaged' \in SUBSET Indexes
         /\ TablesFit'
         /\ Growth
<1>1. PICK es, e, given : /\ es = entries[i.name]
                          /\ e = [key |-> row[i.column], tid |-> tid]
                          /\ given = Append(es, e)
  OBVIOUS
<1>2. i.name \in Names /\ es \in Seq(Entry)
  BY <1>1 DEF TypeOK, Names
<1>3. e \in Entry /\ e.tid = tid /\ e.key = row[i.column]
  <2>1. row \in Rows /\ tid \in Tids
    BY DEF IsStored, RowAt, TypeOK
  <2>2. row[i.column] \in Int
    BY <2>1, RowsAssumption, IndexesAssumption
  <2> QED BY <1>1, <2>1, <2>2 DEF Entry
<1>4. /\ given \in Seq(Entry)
      /\ DOMAIN es = 1 .. Len(es) /\ Len(es) \in Nat
      /\ DOMAIN given = 1 .. Len(es) + 1
      /\ \A n \in 1 .. Len(es) : given[n] = es[n]
      /\ given[Len(es) + 1] = e
  BY <1>1, <1>2, <1>3, AppendIs
<1>5. \A n \in DOMAIN given : n \in DOMAIN es \/ n = Len(es) + 1
  BY <1>4
<1>6. /\ \A n \in DOMAIN given : EntryFits(i, given[n])
      /\ \A m, n \in DOMAIN given : given[m].tid = given[n].tid => m = n
  <2>1. \A n \in DOMAIN es : EntryFits(i, es[n]) /\ es[n].tid # tid
    BY <1>1 DEF TablesFit, EntriesFit, Indexed
  <2>2. \A m, n \in DOMAIN es : es[m].tid = es[n].tid => m = n
    BY <1>1 DEF TablesFit, EntriesFit
  <2>3. EntryFits(i, e)
    BY <1>3 DEF EntryFits
  <2>4. \A n \in DOMAIN given : EntryFits(i, given[n])
    BY <1>4, <1>5, <2>1, <2>3
  <2>5. \A m, n \in DOMAIN given : given[m].tid = given[n].tid => m = n
    BY <1>3, <1>4, <1>5, <2>1, <2>2
  <2> QED BY <2>4, <2>5
<1>7. PICK kept \in SUBSET DOMAIN given :
        entries' = [entries EXCEPT ![i.name] = Pick(given, kept)]
  BY <1>1 DEF IndexInsertFails
<1>8. PICK fs : fs = Pick(given, kept)
  OBVIOUS
<1>9. fs \in Seq(Entry)
  BY <1>4, <1>8, PickIs
<1>10. PICK order \in [DOMAIN fs -> kept] :
         /\ \A k \in DOMAIN fs : fs[k] = given[order[k]]
         /\ \A j, k \in DOMAIN fs : order[j] = order[k] => j = k
  BY <1>4, <1>8, PickIs
<1>11. \A k \in DOMAIN fs : order[k] \in DOMAIN given
  BY <1>10
<1>12. /\ entries' \in [Names -> Seq(Entry)]
       /\ entries'[i.name] = fs
       /\ \A n \in Names : n # i.name => entries'[n] = entries[n]
  BY <1>2, <1>7, <1>8, <1>9 DEF TypeOK
<1>13. \A j \in Indexes : j # i => j.name \in Names /\ entries'[j.name] = entries[j.name]
  BY <1>12, IndexesAssumption DEF Names
<1>14. damaged' = damaged \cup {i} /\ damaged' \in SUBSET Indexes
  BY DEF IndexInsertFails, TypeOK
<1>15. Growth
  <2>1. (skipped => skipped') /\ acked \subseteq acked' /\ built \subseteq built'
    OBVIOUS
  <2> QED BY <2>1, GrowthOfSame
<1>16. ASSUME NEW j \in Indexes PROVE EntriesFit(j)'
  <2>1. \A a, b : EntryFits(a, b)' <=> EntryFits(a, b)
    BY DEF EntryFits, IsStored, RowAt
  <2>2. CASE j = i
    <3>1. \A k \in DOMAIN fs : EntryFits(i, fs[k])
      BY <1>6, <1>10, <1>11
    <3>2. \A j1, k \in DOMAIN fs : fs[j1].tid = fs[k].tid => j1 = k
      BY <1>6, <1>10, <1>11
    <3> QED BY <1>12, <2>1, <2>2, <3>1, <3>2 DEF EntriesFit
  <2>3. CASE j # i
    BY <1>13, <2>1, <2>3 DEF TablesFit, EntriesFit
  <2> QED BY <2>2, <2>3
<1>17. ASSUME NEW j \in Indexes PROVE Complete(j)'
  <2>1. CASE j = i
    BY <1>14, <2>1 DEF Complete
  <2>2. CASE j # i
    <3>1. Indexed(j)' = Indexed(j)
      BY <1>13, <2>2 DEF Indexed
    <3> QED BY <1>14, <2>2, <3>1 DEF TablesFit, Complete
  <2> QED BY <2>1, <2>2
<1>18. HeapCounted'
  BY DEF TablesFit, HeapCounted, IsStored
<1>19. Registered'
  BY <1>13 DEF TablesFit, Registered
<1>20. TablesFit'
  BY <1>16, <1>17, <1>18, <1>19 DEF TablesFit
<1> QED BY <1>12, <1>14, <1>15, <1>20

LEMMA InsertEntryStep ==
  ASSUME Inv, OneWriter, NEW s \in Sessions, InsertEntry(s)
  PROVE  Inv'
<1>1. PICK x \in Session : x = sess[s]
  BY DEF Inv, TypeOK
<1>2. PICK i, st : i = Head(x.todo) /\ st = [x EXCEPT !.todo = Tail(@)]
  OBVIOUS
<1>3. /\ UNCHANGED <<heap, pages, indexes, acked, built, skipped, damaged>>
      /\ x.pc = "entries" /\ x.todo # <<>>
      /\ AddEntry(i, x.row, x.tid)
      /\ Become(s, st)
  BY <1>1, <1>2 DEF InsertEntry, At
<1>4. TypeOK /\ TablesFit /\ SessionFits(s, x)
  BY <1>1 DEF Inv, TablesFit
<1>5. /\ s \in Writers /\ x.row \in Rows
      /\ RowStored(x)
      /\ IsInjective(x.todo)
      /\ ToSet(x.todo) \subseteq ToSet(indexes)
      /\ \A j \in ToSet(x.todo) : x.tid \notin Indexed(j)
      /\ \A j \in ToSet(indexes) \ ToSet(x.todo) : x.tid \in Indexed(j)
  BY <1>3, <1>4 DEF SessionFits, Inserting, InsertPcs
<1>6. x.todo \in Seq(Indexes)
  BY DEF Session
<1>7. /\ i \in Indexes /\ i \in ToSet(x.todo)
      /\ Tail(x.todo) \in Seq(Indexes)
      /\ IsInjective(Tail(x.todo))
      /\ ToSet(Tail(x.todo)) = ToSet(x.todo) \ {i}
  BY <1>2, <1>3, <1>5, <1>6, TailOfInjective
<1>8. PICK tid, row : tid = x.tid /\ row = x.row
  OBVIOUS
<1>9. /\ entries' \in [Names -> Seq(Entry)]
      /\ TablesFit'
      /\ Growth
      /\ Indexed(i)' = Indexed(i) \cup {tid}
      /\ \A j \in Indexes : j # i => Indexed(j)' = Indexed(j)
  <2>1. /\ i \in ToSet(indexes) /\ IsStored(tid) /\ tid \notin Indexed(i)
        /\ row = RowAt(tid) /\ AddEntry(i, row, tid)
    BY <1>3, <1>5, <1>7, <1>8 DEF RowStored
  <2> QED BY <1>3, <1>4, <1>7, <2>1, EntryAdded
<1>10. st \in Session
  BY <1>2, <1>7 DEF Session
<1>11. st.pc = "entries" /\ st.todo = Tail(x.todo) /\ st.tid = tid /\ st.row = row
  BY <1>2, <1>3, <1>8 DEF Session
<1>12. ToSet(indexes) \subseteq Indexes
  BY <1>4 DEF TypeOK, ToSet
<1>13. RowStored(st)'
  BY <1>3, <1>5, <1>8, <1>11 DEF RowStored, IsStored, RowAt
<1>14. \A j \in ToSet(st.todo) : st.tid \notin Indexed(j)'
  BY <1>5, <1>7, <1>8, <1>9, <1>11, <1>12
<1>15. \A j \in ToSet(indexes) \ ToSet(st.todo) : st.tid \in Indexed(j)'
  BY <1>5, <1>7, <1>8, <1>9, <1>11, <1>12
<1>16. Inserting(st)'
  BY <1>3, <1>5, <1>7, <1>8, <1>11, <1>13, <1>14, <1>15 DEF Inserting
<1>17. SessionFits(s, st)'
  BY <1>5, <1>11, <1>16 DEF SessionFits, Creating, Selecting, CreatePcs, SelectPcs
<1>18. TypeOK'
  <2>1. sess' \in [Sessions -> Session]
    BY <1>3, <1>4, <1>10, BecomeType
  <2> QED BY <1>3, <1>4, <1>9, <2>1 DEF TypeOK
<1> QED BY <1>3, <1>5, <1>9, <1>10, <1>17, <1>18, WriterStep

LEMMA BuildEntryStep ==
  ASSUME Inv, OneWriter, NEW s \in Sessions, BuildEntry(s)
  PROVE  Inv'
<1>1. PICK x \in Session : x = sess[s]
  BY DEF Inv, TypeOK
<1>2. PICK i, tid, row, st :
        i = x.index /\ tid = Head(x.tids) /\ row = RowAt(tid) /\ st = [x EXCEPT !.tids = Tail(@)]
  OBVIOUS
<1>3. /\ UNCHANGED <<heap, pages, indexes, acked, built, skipped, damaged>>
      /\ x.pc = "build" /\ x.tids # <<>>
      /\ AddEntry(i, row, tid)
      /\ Become(s, st)
  BY <1>1, <1>2 DEF BuildEntry, At
<1>4. TypeOK /\ TablesFit /\ SessionFits(s, x)
  BY <1>1 DEF Inv, TablesFit
<1>5. /\ s \in Writers /\ i \in Indexes /\ i \notin built /\ i \in ToSet(indexes)
      /\ IsInjective(x.tids)
      /\ \A t \in ToSet(x.tids) : IsStored(t) /\ t \notin Indexed(i)
      /\ skipped \/ acked \subseteq Indexed(i) \cup ToSet(x.tids)
  BY <1>2, <1>3, <1>4 DEF SessionFits, Creating, CreatePcs
<1>6. x.tids \in Seq(Tids)
  BY DEF Session
<1>7. /\ tid \in ToSet(x.tids)
      /\ Tail(x.tids) \in Seq(Tids)
      /\ IsInjective(Tail(x.tids))
      /\ ToSet(Tail(x.tids)) = ToSet(x.tids) \ {tid}
  BY <1>2, <1>3, <1>5, <1>6, TailOfInjective
<1>8. /\ entries' \in [Names -> Seq(Entry)]
      /\ TablesFit'
      /\ Growth
      /\ Indexed(i)' = Indexed(i) \cup {tid}
  BY <1>2, <1>3, <1>4, <1>5, <1>7, EntryAdded
<1>9. st \in Session
  BY <1>2, <1>7 DEF Session
<1>10. st.pc = "build" /\ st.tids = Tail(x.tids) /\ st.index = i
  BY <1>2, <1>3 DEF Session
<1>11. \A t \in ToSet(st.tids) : IsStored(t)' /\ t \notin Indexed(i)'
  BY <1>3, <1>5, <1>7, <1>8, <1>10 DEF IsStored
<1>12. skipped' \/ acked' \subseteq Indexed(i)' \cup ToSet(st.tids)
  BY <1>3, <1>5, <1>7, <1>8, <1>10
<1>13. Creating(st)'
  BY <1>3, <1>5, <1>7, <1>10, <1>11, <1>12 DEF Creating
<1>14. SessionFits(s, st)'
  BY <1>5, <1>10, <1>13 DEF SessionFits, Inserting, Selecting, InsertPcs, SelectPcs
<1>15. TypeOK'
  <2>1. sess' \in [Sessions -> Session]
    BY <1>3, <1>4, <1>9, BecomeType
  <2> QED BY <1>3, <1>4, <1>8, <2>1 DEF TypeOK
<1> QED BY <1>3, <1>5, <1>8, <1>9, <1>14, <1>15, WriterStep

\* The statement whose index call failed ends; with one writer, nobody else
\* relied on the entries.
LEMMA IndexInsertFailsStep ==
  ASSUME Inv, OneWriter, NEW s \in Sessions, InsertEntryFails(s) \/ BuildEntryFails(s)
  PROVE  Inv'
<1>1. PICK x \in Session : x = sess[s]
  BY DEF Inv, TypeOK
<1>2. TypeOK /\ TablesFit /\ SessionFits(s, x)
  BY <1>1 DEF Inv, TablesFit
<1>3. UNCHANGED <<heap, pages, indexes, acked, built, skipped>> /\ Become(s, Idle)
  BY DEF InsertEntryFails, BuildEntryFails
<1>4. \E i, tid, row :
        /\ i \in Indexes
        /\ s \in Writers /\ i \in ToSet(indexes) /\ IsStored(tid) /\ tid \notin Indexed(i)
        /\ row = RowAt(tid) /\ IndexInsertFails(i, row, tid)
  <2>1. CASE InsertEntryFails(s)
    <3>1. PICK i : i = Head(x.todo)
      OBVIOUS
    <3>2. x.pc = "entries" /\ x.todo # <<>> /\ IndexInsertFails(i, x.row, x.tid)
      BY <1>1, <2>1, <3>1 DEF InsertEntryFails, At
    <3>3. /\ s \in Writers /\ RowStored(x) /\ IsInjective(x.todo)
          /\ ToSet(x.todo) \subseteq ToSet(indexes)
          /\ \A j \in ToSet(x.todo) : x.tid \notin Indexed(j)
      BY <1>2, <3>2 DEF SessionFits, Inserting, InsertPcs
    <3>4. x.todo \in Seq(Indexes)
      BY DEF Session
    <3>5. i \in Indexes /\ i \in ToSet(x.todo)
      BY <3>1, <3>2, <3>3, <3>4, TailOfInjective
    <3> QED BY <3>2, <3>3, <3>5 DEF RowStored
  <2>2. CASE BuildEntryFails(s)
    <3>1. PICK i, tid, row : i = x.index /\ tid = Head(x.tids) /\ row = RowAt(tid)
      OBVIOUS
    <3>2. x.pc = "build" /\ x.tids # <<>> /\ IndexInsertFails(i, row, tid)
      BY <1>1, <2>2, <3>1 DEF BuildEntryFails, At
    <3>3. /\ s \in Writers /\ i \in Indexes /\ i \in ToSet(indexes)
          /\ IsInjective(x.tids)
          /\ \A t \in ToSet(x.tids) : IsStored(t) /\ t \notin Indexed(i)
      BY <1>2, <3>1, <3>2 DEF SessionFits, Creating, CreatePcs
    <3>4. x.tids \in Seq(Tids)
      BY DEF Session
    <3>5. tid \in ToSet(x.tids)
      BY <3>1, <3>2, <3>3, <3>4, TailOfInjective
    <3> QED BY <3>1, <3>2, <3>3, <3>5
  <2> QED BY <2>1, <2>2
<1>5. /\ entries' \in [Names -> Seq(Entry)] /\ damaged' \in SUBSET Indexes
      /\ TablesFit' /\ Growth /\ s \in Writers
  BY <1>2, <1>3, <1>4, EntriesLost
<1>6. Idle \in Session /\ SessionFits(s, Idle)'
  BY IdleFits
<1>7. TypeOK'
  <2>1. sess' \in [Sessions -> Session]
    BY <1>2, <1>3, <1>6, BecomeType
  <2> QED BY <1>2, <1>3, <1>5, <2>1 DEF TypeOK
<1> QED BY <1>3, <1>5, <1>6, <1>7, WriterStep

LEMMA InsertDoneStep ==
  ASSUME Inv, OneWriter, NEW s \in Sessions, InsertDone(s)
  PROVE  Inv'
<1>1. PICK x \in Session : x = sess[s]
  BY DEF Inv, TypeOK
<1>2. PICK tid : tid = x.tid
  OBVIOUS
<1>3. /\ UNCHANGED <<heap, pages, indexes, entries, built, skipped, damaged>>
      /\ x.pc = "entries" /\ x.todo = <<>>
      /\ acked' = acked \cup {tid}
      /\ Become(s, Idle)
  BY <1>1, <1>2 DEF InsertDone, At
<1>4. TypeOK /\ TablesFit /\ SessionFits(s, x)
  BY <1>1 DEF Inv, TablesFit
<1>5. /\ s \in Writers
      /\ IsStored(tid)
      /\ \A j \in ToSet(indexes) \ ToSet(x.todo) : tid \in Indexed(j)
  BY <1>2, <1>3, <1>4 DEF SessionFits, Inserting, InsertPcs, RowStored
<1>6. ToSet(x.todo) = {}
  BY <1>3 DEF ToSet
<1>7. ASSUME NEW i \in Indexes PROVE Complete(i)'
  <2>1. Indexed(i)' = Indexed(i)
    BY <1>3 DEF Indexed
  <2>2. i \in built => tid \in Indexed(i)
    BY <1>4, <1>5, <1>6 DEF TablesFit, Registered
  <2> QED BY <1>3, <1>4, <2>1, <2>2 DEF TablesFit, Complete
<1>8. ASSUME NEW i \in Indexes PROVE EntriesFit(i)'
  BY <1>3, <1>4 DEF TablesFit, EntriesFit, EntryFits, IsStored, RowAt
<1>9. HeapCounted'
  BY <1>3, <1>4, <1>5 DEF TablesFit, HeapCounted, IsStored
<1>10. Registered'
  BY <1>3, <1>4 DEF TablesFit, Registered
<1>11. TablesFit'
  BY <1>7, <1>8, <1>9, <1>10 DEF TablesFit
<1>12. Growth
  <2>1. (skipped => skipped') /\ acked \subseteq acked' /\ built \subseteq built'
    BY <1>3
  <2> QED BY <1>3, <1>4, <2>1, GrowthOfSame
<1>13. Idle \in Session /\ SessionFits(s, Idle)'
  BY IdleFits
<1>14. TypeOK'
  <2>1. sess' \in [Sessions -> Session]
    BY <1>3, <1>4, <1>13, BecomeType
  <2>2. acked' \in SUBSET Tids
    BY <1>3, <1>4, <1>5 DEF TypeOK, IsStored
  <2> QED BY <1>3, <1>4, <2>1, <2>2 DEF TypeOK
<1> QED BY <1>3, <1>5, <1>11, <1>12, <1>13, <1>14, WriterStep

LEMMA IndexDoneStep ==
  ASSUME Inv, OneWriter, NEW s \in Sessions, IndexDone(s)
  PROVE  Inv'
<1>1. PICK x \in Session : x = sess[s]
  BY DEF Inv, TypeOK
<1>2. PICK i : i = x.index
  OBVIOUS
<1>3. /\ UNCHANGED <<heap, pages, indexes, entries, acked, skipped, damaged>>
      /\ x.pc = "build" /\ x.tids = <<>>
      /\ built' = built \cup {i}
      /\ Become(s, Idle)
  BY <1>1, <1>2 DEF IndexDone, At
<1>4. TypeOK /\ TablesFit /\ SessionFits(s, x)
  BY <1>1 DEF Inv, TablesFit
<1>5. /\ s \in Writers /\ i \in Indexes /\ i \in ToSet(indexes)
      /\ skipped \/ acked \subseteq Indexed(i) \cup ToSet(x.tids)
  BY <1>2, <1>3, <1>4 DEF SessionFits, Creating, CreatePcs
<1>6. ToSet(x.tids) = {}
  BY <1>3 DEF ToSet
<1>7. ASSUME NEW j \in Indexes PROVE Complete(j)'
  <2>1. Indexed(j)' = Indexed(j)
    BY <1>3 DEF Indexed
  <2> QED BY <1>3, <1>4, <1>5, <1>6, <2>1 DEF TablesFit, Complete
<1>8. ASSUME NEW j \in Indexes PROVE EntriesFit(j)'
  BY <1>3, <1>4 DEF TablesFit, EntriesFit, EntryFits, IsStored, RowAt
<1>9. HeapCounted'
  BY <1>3, <1>4 DEF TablesFit, HeapCounted, IsStored
<1>10. Registered'
  BY <1>3, <1>4, <1>5 DEF TablesFit, Registered
<1>11. TablesFit'
  BY <1>7, <1>8, <1>9, <1>10 DEF TablesFit
<1>12. Growth
  <2>1. (skipped => skipped') /\ acked \subseteq acked' /\ built \subseteq built'
    BY <1>3
  <2> QED BY <1>3, <1>4, <2>1, GrowthOfSame
<1>13. Idle \in Session /\ SessionFits(s, Idle)'
  BY IdleFits
<1>14. TypeOK'
  <2>1. sess' \in [Sessions -> Session]
    BY <1>3, <1>4, <1>13, BecomeType
  <2>2. built' \in SUBSET Indexes
    BY <1>3, <1>4, <1>5 DEF TypeOK
  <2> QED BY <1>3, <1>4, <2>1, <2>2 DEF TypeOK
<1> QED BY <1>3, <1>5, <1>11, <1>12, <1>13, <1>14, WriterStep

LEMMA RegisterIndexStep ==
  ASSUME Inv, OneWriter, NEW s \in Sessions, RegisterIndex(s)
  PROVE  Inv'
<1>1. PICK x \in Session : x = sess[s]
  BY DEF Inv, TypeOK
<1>2. PICK i, st : i = x.index /\ st = [x EXCEPT !.pc = "scan"]
  OBVIOUS
<1>3. /\ UNCHANGED <<heap, pages, entries, acked, built, skipped, damaged>>
      /\ x.pc = "create"
      /\ IF Contains(indexes, i)
         THEN Become(s, Idle) /\ UNCHANGED indexes
         ELSE indexes' = Append(indexes, i) /\ (Become(s, st) \/ Become(s, Idle))
  BY <1>1, <1>2 DEF RegisterIndex, At
<1>4. TypeOK /\ TablesFit /\ SessionFits(s, x)
  BY <1>1 DEF Inv, TablesFit
<1>5. s \in Writers /\ i \in Indexes /\ i \notin built /\ x.pages = pages
  BY <1>2, <1>3, <1>4 DEF SessionFits, Creating, CreatePcs
<1>6. indexes \in Seq(Indexes) /\ (Contains(indexes, i) <=> i \in ToSet(indexes))
  BY <1>4, ContainsIsIn DEF TypeOK
<1>7. Idle \in Session /\ SessionFits(s, Idle)'
  BY IdleFits
<1>8. skipped' \in BOOLEAN /\ (skipped => skipped')
  BY <1>3, <1>4 DEF TypeOK
<1>9. CASE Contains(indexes, i)
  BY <1>3, <1>7, <1>8, <1>9, QuietStep
<1>10. CASE ~Contains(indexes, i)
  <2>1. indexes' = Append(indexes, i) /\ (Become(s, st) \/ Become(s, Idle))
    BY <1>3, <1>10
  <2>2. i \notin ToSet(indexes) /\ entries[i.name] = <<>>
    BY <1>4, <1>5, <1>6, <1>10 DEF TablesFit, Registered
  <2>3. /\ indexes' \in Seq(Indexes)
        /\ ToSet(indexes') = ToSet(indexes) \cup {i}
        /\ IsInjective(indexes')
    BY <1>4, <1>5, <1>6, <2>1, <2>2, AppendToInjective DEF TablesFit, Registered
  <2>4. TablesFit'
    <3>1. Registered'
      BY <1>3, <1>4, <2>3 DEF TablesFit, Registered
    <3>2. HeapCounted'
      BY <1>3, <1>4 DEF TablesFit, HeapCounted, IsStored
    <3>3. ASSUME NEW j \in Indexes PROVE EntriesFit(j)'
      BY <1>3, <1>4 DEF TablesFit, EntriesFit, EntryFits, IsStored, RowAt
    <3>4. ASSUME NEW j \in Indexes PROVE Complete(j)'
      BY <1>3, <1>4 DEF TablesFit, Complete, Indexed
    <3> QED BY <3>1, <3>2, <3>3, <3>4 DEF TablesFit
  <2>5. Growth
    <3>1. acked \subseteq acked' /\ built \subseteq built'
      BY <1>3
    <3> QED BY <1>3, <1>4, <1>8, <3>1, GrowthOfSame
  <2>6. PICK y \in Session : Become(s, y) /\ SessionFits(s, y)'
    <3>1. CASE Become(s, Idle)
      BY <1>7, <3>1
    <3>2. CASE Become(s, st)
      <4>1. st \in Session
        BY <1>2 DEF Session, CreatePcs
      <4>2. st.pc = "scan" /\ st.index = i /\ st.pages = x.pages
        BY <1>2 DEF Session
      <4>3. Creating(st)'
        BY <1>3, <1>5, <2>2, <2>3, <4>2 DEF Creating
      <4>4. SessionFits(s, st)'
        BY <1>5, <4>2, <4>3 DEF SessionFits, Inserting, Selecting, InsertPcs, SelectPcs
      <4> QED BY <3>2, <4>1, <4>4
    <3> QED BY <2>1, <3>1, <3>2
  <2>7. TypeOK'
    <3>1. sess' \in [Sessions -> Session]
      BY <1>4, <2>6, BecomeType
    <3> QED BY <1>3, <1>4, <2>3, <3>1 DEF TypeOK
  <2> QED BY <1>5, <2>4, <2>5, <2>6, <2>7, WriterStep
<1> QED BY <1>9, <1>10

-----------------------------------------------------------------------------
(* The theorems. *)

LEMMA InvStep ==
  ASSUME OneWriter
  PROVE  Inv /\ [Next]_vars => Inv'
<1> SUFFICES ASSUME Inv, [Next]_vars PROVE Inv'
  OBVIOUS
<1>1. CASE UNCHANGED vars
  <2>1. TypeOK'
    BY <1>1 DEF Inv, TypeOK, vars
  <2>2. TablesFit'
    <3>1. TablesFit
      BY DEF Inv, TablesFit
    <3> QED BY <1>1, <3>1, TablesUnchanged DEF vars
  <2>3. ASSUME NEW s \in Sessions PROVE SessionFits(s, sess[s])'
    <3>1. PICK x \in Session : x = sess[s]
      BY DEF Inv, TypeOK
    <3>2. UNCHANGED <<heap, pages, indexes, entries, sess, acked, built, skipped, damaged>>
      BY <1>1 DEF vars
    <3>3. SessionFits(s, x) /\ TypeOK /\ HeapCounted
      BY <3>1 DEF Inv
    <3>4. Growth
      BY <3>2, <3>3, GrowthOfSame
    <3>5. Selecting(x)'
      BY <2>1, <3>3, <3>4, SelectingGrows DEF SessionFits
    <3>6. Inserting(x)' /\ Creating(x)'
      BY <3>2, <3>3, WritingUnchanged DEF SessionFits
    <3>7. SessionFits(s, x)' /\ x = sess'[s]
      BY <3>1, <3>2, <3>3, <3>5, <3>6 DEF SessionFits
    <3> QED BY <3>7 DEF SessionFits, Inserting, Creating, Selecting, RowStored, Accepts, PlanFits
  <2> QED BY <2>1, <2>2, <2>3 DEF Inv, TablesFit
<1>2. ASSUME NEW s \in Sessions, NEW row \in Rows, Insert(s, row) PROVE Inv'
  BY <1>2, InsertStep
<1>3. ASSUME NEW s \in Sessions, NEW i \in Indexes, CreateIndex(s, i) PROVE Inv'
  BY <1>3, CreateIndexStep
<1>4. ASSUME NEW s \in Sessions, NEW p \in Queries \cup {Nil}, Select(s, p) PROVE Inv'
  BY <1>4, SelectStep
<1>5. ASSUME NEW s \in Sessions, Step(s) PROVE Inv'
  BY <1>5, InsertRowStep, ListIndexesStep, InsertEntryStep, InsertDoneStep,
     IndexInsertFailsStep, RegisterIndexStep, ScanForIndexStep, BuildEntryStep, IndexDoneStep,
     OptimizeStep, OpenStep, NextRowStep, EndStep DEF Step
<1> QED BY <1>1, <1>2, <1>3, <1>4, <1>5 DEF Next

(* The inductive invariant: tables, indexes and the statement of each session
   fit each other, with one writing session. *)
THEOREM EngineInvariant ==
  ASSUME OneWriter
  PROVE  Spec => []Inv
BY InvInit, InvStep, PTL DEF Spec

LEMMA StoredIsIsStored ==
  ASSUME TypeOK
  PROVE  \A tid : tid \in Stored <=> IsStored(tid)
<1>1. ASSUME NEW p \in DOMAIN heap, NEW n \in DOMAIN heap[p]
      PROVE  IsStored(<<p, n>>)
  <2>1. p \in Nat /\ n \in Nat
    <3>1. heap \in Seq(Seq(Rows)) /\ heap[p] \in Seq(Rows)
      BY DEF TypeOK
    <3>2. DOMAIN heap = 1 .. Len(heap) /\ DOMAIN heap[p] = 1 .. Len(heap[p])
      BY <3>1
    <3> QED BY <3>2
  <2> QED BY <2>1 DEF IsStored, Tids
<1>2. ASSUME NEW tid, IsStored(tid) PROVE tid \in Stored
  <2>1. tid = <<tid[1], tid[2]>>
    BY <1>2 DEF IsStored, Tids
  <2> QED BY <1>2, <2>1 DEF Stored, IsStored
<1>3. ASSUME NEW tid \in Stored PROVE IsStored(tid)
  <2>1. PICK p \in DOMAIN heap : \E n \in DOMAIN heap[p] : tid = <<p, n>>
    BY <1>3 DEF Stored
  <2> QED BY <1>1, <2>1
<1> QED BY <1>2, <1>3

(* With one writing session, whatever readers and errors do: an index never
   has an entry for a missing row, a wrong key or a row it already has, not
   even after one of its Inserts has failed part way and lost entries; and an
   acknowledged index that has seen no such failure has every acknowledged
   row. *)
THEOREM IndexesAgree ==
  ASSUME OneWriter
  PROVE  Spec => []IndexAgrees
<1>1. Inv => IndexAgrees
  <2> SUFFICES ASSUME Inv, NEW i \in Indexes
               PROVE  LET es == entries[i.name]
                          tids == [n \in DOMAIN es |-> es[n].tid]
                      IN  /\ \A n \in DOMAIN es : /\ es[n].tid \in Stored
                                                  /\ RowAt(es[n].tid)[i.column] = es[n].key
                          /\ IsInjective(tids)
                          /\ i \in built \ damaged /\ ~skipped => acked \subseteq ToSet(tids)
    BY DEF IndexAgrees
  <2> DEFINE es == entries[i.name]
             tids == [n \in DOMAIN es |-> es[n].tid]
  <2>1. EntriesFit(i) /\ Complete(i) /\ TypeOK
    BY DEF Inv
  <2>2. \A n \in DOMAIN es : es[n].tid \in Stored /\ RowAt(es[n].tid)[i.column] = es[n].key
    BY <2>1, StoredIsIsStored DEF EntriesFit, EntryFits
  <2>3. IsInjective(tids)
    BY <2>1 DEF EntriesFit, IsInjective
  <2>4. ToSet(tids) = Indexed(i)
    BY DEF ToSet, Indexed
  <2>5. i \in built \ damaged /\ ~skipped => acked \subseteq ToSet(tids)
    BY <2>1, <2>4 DEF Complete
  <2> QED BY <2>2, <2>3, <2>5
<1> QED BY <1>1, EngineInvariant, PTL

(* With one writing session and any number of SELECTs at any of their steps:
   an answer has only rows its clause accepts, each once, and all it owes,
   whichever scan the optimizer chose and however the table and its indexes
   grew meanwhile.  What it gets from an index of which an Insert has failed
   part way before the scan opened is right, but may not be all. *)
THEOREM SelectsAreExact ==
  ASSUME OneWriter
  PROVE  Spec => []SelectExact
<1>1. Inv => SelectExact
  <2> SUFFICES ASSUME Inv, NEW s \in Sessions, Answered(s)
               PROVE  /\ \A n \in DOMAIN sess[s].out : Passes(s, sess[s].out[n])
                      /\ IsInjective(sess[s].out)
                      /\ skipped \/ \A tid \in sess[s].due :
                                      Passes(s, tid) => Contains(sess[s].out, tid)
    BY DEF SelectExact
  <2>1. PICK x \in Session : x = sess[s]
    BY DEF Inv, TypeOK
  <2>2. x.pc = "next" /\ x.tids = <<>> /\ Selecting(x)
    BY <2>1 DEF Answered, At, Inv, SessionFits
  <2>3. \A tid : Passes(s, tid) <=> Accepts(x, tid)
    BY <2>1 DEF Passes, Accepts
  <2>4. x.out \in Seq(Tids)
    BY DEF Session
  <2>5. \A tid : Contains(x.out, tid) <=> tid \in ToSet(x.out)
    BY <2>4, ContainsIsIn
  <2>6. ToSet(x.tids) = {}
    BY <2>2 DEF ToSet
  <2>7. \A n \in DOMAIN x.out : x.out[n] \in ToSet(x.out)
    BY DEF ToSet
  <2>8. /\ IsInjective(x.out)
        /\ \A tid \in ToSet(x.out) : Accepts(x, tid)
        /\ skipped \/ \A tid \in x.due :
                        Accepts(x, tid) => tid \in ToSet(x.tids) \cup ToSet(x.out)
    BY <2>2 DEF Selecting
  <2> QED BY <2>1, <2>3, <2>5, <2>6, <2>7, <2>8
<1> QED BY <1>1, EngineInvariant, PTL
=============================================================================
