------------------------------ MODULE SetFacts ------------------------------
(***************************************************************************)
(* Facts about sets of numbers, sequences made from sets and sequences     *)
(* that get longer or shorter, which the proofs of several components use. *)
(***************************************************************************)
EXTENDS Integers, Sequences, FiniteSets, SequencesExt, FiniteSetTheorems,
        SequenceTheorems, WellFoundedInduction, TLAPS

(* Every set of naturals has a least element: of the intervals 0 .. n that end
   in it, one is minimal for the strict subset order, which is well founded on
   the subsets of a finite set.  Induction in a form the provers can use. *)
LEMMA NatMin ==
  ASSUME NEW S \in SUBSET Nat, S # {}
  PROVE  \E m \in S : \A n \in S : m <= n
<1>1. PICK k \in S : TRUE
  OBVIOUS
<1> DEFINE T == {0 .. n : n \in {i \in S : i <= k}}
           R == StrictSubsetOrdering(0 .. k)
<1>2. k \in Nat /\ IsFiniteSet(0 .. k)
  BY FS_Interval
<1>3. T \subseteq SUBSET (0 .. k)
  BY <1>2
<1>4. T # {}
  BY <1>2
<1>5. IsWellFoundedOn(R, SUBSET (0 .. k))
  <2>1. FiniteSubsetsOf(0 .. k) = SUBSET (0 .. k)
    BY <1>2, FS_FiniteSubsetsOfFinite
  <2> QED BY <2>1, FS_StrictSubsetOrderingWellFounded
<1> HIDE DEF T, R
<1>6. PICK x \in T : \A y \in T : ~(<<y, x>> \in R)
  BY <1>3, <1>4, <1>5, WFMin
<1>7. PICK m \in S : m <= k /\ x = 0 .. m
  BY <1>6 DEF T
<1>8. ASSUME NEW n \in S, n < m PROVE FALSE
  <2>1. n <= k
    BY <1>2, <1>7, <1>8
  <2>2. 0 .. n \in T
    BY <2>1 DEF T
  <2>3. 0 .. n \subseteq 0 .. m /\ m \notin 0 .. n /\ m \in 0 .. m
    BY <1>8
  <2>4. <<0 .. n, x>> \in R
    BY <1>3, <1>7, <2>2, <2>3 DEF R, StrictSubsetOrdering
  <2> QED BY <1>6, <2>2, <2>4
<1> QED BY <1>8

LEMMA MinIsLeast ==
  ASSUME NEW S \in SUBSET Nat, S # {}
  PROVE  Min(S) \in S /\ \A n \in S : Min(S) <= n
BY NatMin DEF Min

\* A sequence made from a finite set has each of its elements once.
LEMMA SetToSeqIsExact ==
  ASSUME NEW S, IsFiniteSet(S)
  PROVE  /\ SetToSeq(S) \in Seq(S)
         /\ IsInjective(SetToSeq(S))
         /\ ToSet(SetToSeq(S)) = S
<1> DEFINE n == Cardinality(S)
           q == SetToSeq(S)
<1>1. n \in Nat /\ ExistsBijection(1 .. n, S)
  BY FS_CardinalityType
<1>2. \E f \in [1 .. n -> S] : IsInjective(f)
  BY <1>1 DEF ExistsBijection, Bijection, Injection
<1>3. q \in [1 .. n -> S] /\ IsInjective(q)
  BY <1>2 DEF SetToSeq
<1>4. IsFiniteSet(1 .. n) /\ Cardinality(1 .. n) = n
  BY <1>1, FS_Interval
<1> HIDE DEF q, n
<1>5. q \in Injection(1 .. n, S)
  BY <1>3 DEF Injection
<1>6. q \in Surjection(1 .. n, S)
  BY <1>4, <1>5, FS_Injection DEF n
<1>7. ToSet(q) = S
  BY <1>3, <1>6 DEF ToSet, Surjection
<1>8. q \in Seq(S)
  BY <1>1, <1>3
<1> QED BY <1>3, <1>7, <1>8 DEF q

LEMMA ContainsIsIn ==
  ASSUME NEW S, NEW q \in Seq(S), NEW e
  PROVE  Contains(q, e) <=> e \in ToSet(q)
BY DEF Contains, ToSet

\* What is left of a sequence without its head.
LEMMA TailOfInjective ==
  ASSUME NEW S, NEW q \in Seq(S), q # <<>>, IsInjective(q)
  PROVE  /\ Head(q) \in S /\ Head(q) \in ToSet(q)
         /\ Tail(q) \in Seq(S)
         /\ IsInjective(Tail(q))
         /\ ToSet(Tail(q)) = ToSet(q) \ {Head(q)}
<1>1. Len(q) \in Nat /\ Len(q) >= 1 /\ Head(q) = q[1] /\ DOMAIN q = 1 .. Len(q)
  OBVIOUS
<1>2. /\ Tail(q) \in Seq(S)
      /\ DOMAIN Tail(q) = 1 .. Len(q) - 1
      /\ \A n \in 1 .. Len(q) - 1 : Tail(q)[n] = q[n + 1]
  BY <1>1
<1>3. IsInjective(Tail(q))
  BY <1>1, <1>2 DEF IsInjective
<1>4. \A n \in 1 .. Len(q) : n # 1 => Tail(q)[n - 1] = q[n] /\ n - 1 \in DOMAIN Tail(q)
  BY <1>1, <1>2
<1>5. \A n \in DOMAIN Tail(q) : Tail(q)[n] # q[1] /\ Tail(q)[n] \in ToSet(q)
  BY <1>1, <1>2 DEF IsInjective, ToSet
<1>6. ASSUME NEW e \in ToSet(q), e # Head(q) PROVE e \in ToSet(Tail(q))
  <2>1. PICK n \in 1 .. Len(q) : e = q[n]
    BY <1>1, <1>6 DEF ToSet
  <2>2. n # 1
    BY <1>1, <1>6, <2>1
  <2> QED BY <1>4, <2>1, <2>2 DEF ToSet
<1>7. \A e \in ToSet(Tail(q)) : e \in ToSet(q) /\ e # Head(q)
  BY <1>1, <1>5 DEF ToSet
<1>8. ToSet(Tail(q)) = ToSet(q) \ {Head(q)}
  BY <1>6, <1>7
<1>9. Head(q) \in S /\ Head(q) \in ToSet(q)
  <2>1. 1 \in DOMAIN q
    BY <1>1
  <2> QED BY <1>1, <2>1 DEF ToSet
<1> QED BY <1>2, <1>3, <1>8, <1>9

\* And of one that has a new element at its end.
LEMMA AppendToInjective ==
  ASSUME NEW S, NEW q \in Seq(S), NEW e \in S
  PROVE  /\ Append(q, e) \in Seq(S)
         /\ ToSet(Append(q, e)) = ToSet(q) \cup {e}
         /\ IsInjective(q) /\ e \notin ToSet(q) => IsInjective(Append(q, e))
<1>1. /\ Len(q) \in Nat
      /\ DOMAIN q = 1 .. Len(q)
      /\ DOMAIN Append(q, e) = 1 .. Len(q) + 1
      /\ \A n \in 1 .. Len(q) : Append(q, e)[n] = q[n]
      /\ Append(q, e)[Len(q) + 1] = e
      /\ Append(q, e) \in Seq(S)
  OBVIOUS
<1>2. \A n \in 1 .. Len(q) + 1 : n \in 1 .. Len(q) \/ n = Len(q) + 1
  BY <1>1
<1>3. 1 .. Len(q) \subseteq 1 .. Len(q) + 1 /\ Len(q) + 1 \in 1 .. Len(q) + 1
  BY <1>1
<1>4. ToSet(Append(q, e)) = ToSet(q) \cup {e}
  BY <1>1, <1>2, <1>3 DEF ToSet
<1>5. IsInjective(q) /\ e \notin ToSet(q) => IsInjective(Append(q, e))
  BY <1>1, <1>2 DEF IsInjective, ToSet
<1> QED BY <1>1, <1>4, <1>5

\* The pairs <<p, n>> of finitely many p, each with finitely many n.
Pairs(P, f) == UNION {{<<p, n>> : n \in 1 .. f[p]} : p \in P}

LEMMA FinitePairs ==
  ASSUME NEW P, IsFiniteSet(P), NEW f, \A p \in P : f[p] \in Nat
  PROVE  IsFiniteSet(Pairs(P, f))
<1> DEFINE Of(p) == {<<p, n>> : n \in 1 .. f[p]}
           A == {Of(p) : p \in P}
<1>1. ASSUME NEW p \in P PROVE IsFiniteSet(Of(p))
  <2>1. IsFiniteSet(1 .. f[p])
    BY FS_Interval
  <2>2. [n \in 1 .. f[p] |-> <<p, n>>] \in Surjection(1 .. f[p], Of(p))
    BY DEF Surjection
  <2> QED BY <2>1, <2>2, FS_Surjection
<1>2. IsFiniteSet(A)
  <2>1. [p \in P |-> Of(p)] \in Surjection(P, A)
    BY DEF Surjection
  <2> QED BY <2>1, FS_Surjection
<1>3. \A a \in A : IsFiniteSet(a)
  BY <1>1
<1>4. IsFiniteSet(UNION A)
  <2> HIDE DEF A
  <2> QED BY <1>2, <1>3, FS_UNION
<1> QED BY <1>4 DEF Pairs

\* Append and EXCEPT, one element at a time.
LEMMA AppendIs ==
  ASSUME NEW S, NEW q \in Seq(S), NEW e \in S
  PROVE  /\ Append(q, e) \in Seq(S)
         /\ Len(Append(q, e)) = Len(q) + 1
         /\ DOMAIN q = 1 .. Len(q) /\ Len(q) \in Nat
         /\ DOMAIN Append(q, e) = 1 .. Len(q) + 1
         /\ \A n \in 1 .. Len(q) : Append(q, e)[n] = q[n]
         /\ Append(q, e)[Len(q) + 1] = e
OBVIOUS

LEMMA ExceptIs ==
  ASSUME NEW S, NEW q \in Seq(S), NEW p \in 1 .. Len(q), NEW e \in S,
         NEW r, r = [q EXCEPT ![p] = e]
  PROVE  /\ r \in Seq(S)
         /\ Len(r) = Len(q)
         /\ DOMAIN r = DOMAIN q
         /\ r[p] = e
         /\ \A n \in DOMAIN q : n # p => r[n] = q[n]
OBVIOUS

\* A sequence without the element at one position.
LEMMA RemoveAtIs ==
  ASSUME NEW S, NEW q \in Seq(S), NEW p \in 1 .. Len(q), NEW r, r = RemoveAt(q, p)
  PROVE  /\ r \in Seq(S)
         /\ Len(q) \in Nat /\ Len(r) = Len(q) - 1 /\ Len(r) \in Nat
         /\ DOMAIN q = 1 .. Len(q) /\ DOMAIN r = 1 .. Len(q) - 1
         /\ \A n \in 1 .. Len(q) - 1 : r[n] = IF n < p THEN q[n] ELSE q[n + 1]
<1>1. Len(q) \in Nat /\ p \in Nat /\ 1 <= p /\ p <= Len(q) /\ DOMAIN q = 1 .. Len(q)
  OBVIOUS
<1>2. PICK a, b : a = SubSeq(q, 1, p - 1) /\ b = SubSeq(q, p + 1, Len(q))
  OBVIOUS
<1>3. /\ a \in Seq(S) /\ Len(a) = p - 1
      /\ \A n \in 1 .. p - 1 : a[n] = q[n]
  BY <1>1, <1>2
<1>4. /\ b \in Seq(S) /\ Len(b) = Len(q) - p
      /\ \A n \in 1 .. Len(q) - p : b[n] = q[p + n]
  <2>1. \A n \in p + 1 .. Len(q) : q[n] \in S
    BY <1>1
  <2>2. PICK lo, l : lo = p + 1 /\ l = Len(q) /\ lo \in Int /\ l \in Int
    BY ONLY <1>1
  <2>3. b = SubSeq(q, lo, l) /\ \A n \in lo .. l : q[n] \in S
    BY <1>2, <2>1, <2>2
  <2>4. /\ b \in Seq(S)
        /\ Len(b) = IF lo <= l THEN l - lo + 1 ELSE 0
        /\ \A n \in 1 .. l - lo + 1 : b[n] = q[lo + n - 1]
    BY ONLY <2>2, <2>3, SubSeqProperties
  <2>5. /\ (IF lo <= l THEN l - lo + 1 ELSE 0) = l - p
        /\ l - lo + 1 = l - p
        /\ \A n \in 1 .. l - p : lo + n - 1 = p + n
    <3>1. p \in Int /\ l \in Int /\ lo \in Int /\ p <= l /\ lo = p + 1
      BY ONLY <1>1, <2>2
    <3>2. l - lo + 1 = l - p /\ (~(lo <= l) => l - p = 0)
      BY ONLY <3>1
    <3>3. \A n \in Int : lo + n - 1 = p + n
      BY ONLY <3>1
    <3> QED BY ONLY <3>1, <3>2, <3>3
  <2>6. ASSUME NEW n \in 1 .. Len(q) - p PROVE b[n] = q[p + n]
    <3>1. n \in 1 .. l - lo + 1 /\ lo + n - 1 = p + n
      BY <2>2, <2>5
    <3> QED BY ONLY <2>4, <3>1
  <2> QED BY ONLY <2>2, <2>4, <2>5, <2>6
<1>5. r = a \o b
  BY <1>2 DEF RemoveAt
<1>6. /\ r \in Seq(S) /\ Len(r) = Len(a) + Len(b)
      /\ \A n \in 1 .. Len(a) : r[n] = a[n]
      /\ \A n \in 1 .. Len(b) : r[Len(a) + n] = b[n]
  <2>1. /\ r \in Seq(S) /\ Len(r) = Len(a) + Len(b)
        /\ \A n \in 1 .. Len(a) + Len(b) :
             r[n] = IF n <= Len(a) THEN a[n] ELSE b[n - Len(a)]
    BY ONLY <1>3, <1>4, <1>5, ConcatProperties
  <2>2. Len(a) \in Nat /\ Len(b) \in Nat
    BY <1>3, <1>4
  <2>3. \A n \in 1 .. Len(a) : r[n] = a[n]
    BY ONLY <2>1, <2>2
  <2>4. ASSUME NEW n \in 1 .. Len(b) PROVE r[Len(a) + n] = b[n]
    <3>1. /\ Len(a) + n \in 1 .. Len(a) + Len(b)
          /\ ~(Len(a) + n <= Len(a))
          /\ (Len(a) + n) - Len(a) = n
      BY ONLY <2>2, <2>4
    <3> QED BY ONLY <2>1, <3>1
  <2> QED BY <2>1, <2>3, <2>4
<1>7. Len(r) = Len(q) - 1 /\ Len(r) \in Nat
  BY ONLY <1>1, <1>3, <1>4, <1>6
<1>8. DOMAIN r = 1 .. Len(q) - 1
  BY ONLY <1>6, <1>7
<1>9. ASSUME NEW n \in 1 .. Len(q) - 1
      PROVE  r[n] = IF n < p THEN q[n] ELSE q[n + 1]
  <2>1. n \in Int
    OBVIOUS
  <2>2. CASE n < p
    <3>1. n \in 1 .. p - 1
      BY <1>1, <1>9, <2>1, <2>2
    <3> QED BY <1>3, <1>6, <2>2, <3>1
  <2>3. CASE ~(n < p)
    <3>1. n - p + 1 \in 1 .. Len(q) - p
      BY <1>1, <1>9, <2>1, <2>3
    <3>2. b[n - p + 1] = q[p + (n - p + 1)] /\ p + (n - p + 1) = n + 1
      BY <1>1, <1>4, <2>1, <3>1
    <3>3. r[Len(a) + (n - p + 1)] = b[n - p + 1] /\ Len(a) + (n - p + 1) = n
      BY <1>1, <1>3, <1>4, <1>6, <2>1, <3>1
    <3> QED BY <2>3, <3>2, <3>3
  <2> QED BY <2>2, <2>3
<1> QED BY <1>1, <1>6, <1>7, <1>8, <1>9

LEMMA RemoveAtOfInjective ==
  ASSUME NEW S, NEW q \in Seq(S), NEW p \in 1 .. Len(q), NEW r, r = RemoveAt(q, p),
         IsInjective(q)
  PROVE  IsInjective(r) /\ ToSet(r) = ToSet(q) \ {q[p]}
<1>1. /\ r \in Seq(S)
      /\ Len(q) \in Nat /\ p \in Nat
      /\ DOMAIN q = 1 .. Len(q) /\ DOMAIN r = 1 .. Len(q) - 1
      /\ \A n \in 1 .. Len(q) - 1 : r[n] = IF n < p THEN q[n] ELSE q[n + 1]
  BY RemoveAtIs
<1>2. ASSUME NEW m \in DOMAIN r
      PROVE  \E n \in DOMAIN q : r[m] = q[n] /\ n # p /\ n = (IF m < p THEN m ELSE m + 1)
  <2>1. m \in Int /\ (IF m < p THEN m ELSE m + 1) \in 1 .. Len(q)
    BY <1>1, <1>2
  <2> QED BY <1>1, <1>2, <2>1
<1>3. IsInjective(r)
  <2> SUFFICES ASSUME NEW m \in DOMAIN r, NEW n \in DOMAIN r, r[m] = r[n] PROVE m = n
    BY DEF IsInjective
  <2>1. PICK a \in DOMAIN q : r[m] = q[a] /\ a = (IF m < p THEN m ELSE m + 1)
    BY <1>2
  <2>2. PICK b \in DOMAIN q : r[n] = q[b] /\ b = (IF n < p THEN n ELSE n + 1)
    BY <1>2
  <2>3. a = b
    BY <2>1, <2>2 DEF IsInjective
  <2>4. m \in Int /\ n \in Int
    BY <1>1
  <2> QED BY <1>1, <2>1, <2>2, <2>3, <2>4
<1>4. ASSUME NEW n \in DOMAIN q, n # p PROVE q[n] \in ToSet(r)
  <2>1. n \in Int /\ 1 <= n /\ n <= Len(q)
    BY <1>1
  <2>2. CASE n < p
    <3>1. n \in 1 .. Len(q) - 1
      BY <1>1, <2>1, <2>2
    <3>2. r[n] = q[n]
      BY <1>1, <2>2, <3>1
    <3> QED BY <1>1, <3>1, <3>2 DEF ToSet
  <2>3. CASE ~(n < p)
    <3>1. n - 1 \in 1 .. Len(q) - 1 /\ ~(n - 1 < p) /\ (n - 1) + 1 = n
      BY <1>1, <1>4, <2>1, <2>3
    <3>2. r[n - 1] = q[n]
      BY <1>1, <3>1
    <3> QED BY <1>1, <3>1, <3>2 DEF ToSet
  <2> QED BY <2>2, <2>3
<1>5. \A m \in DOMAIN r : r[m] \in ToSet(q) /\ r[m] # q[p]
  BY <1>1, <1>2 DEF ToSet, IsInjective
<1>6. ToSet(r) = ToSet(q) \ {q[p]}
  <2>1. \A e \in ToSet(r) : e \in ToSet(q) /\ e # q[p]
    BY <1>5 DEF ToSet
  <2>2. ASSUME NEW e \in ToSet(q), e # q[p] PROVE e \in ToSet(r)
    <3>1. PICK n \in DOMAIN q : e = q[n]
      BY DEF ToSet
    <3> QED BY <1>4, <2>2, <3>1
  <2> QED BY <2>1, <2>2
<1> QED BY <1>3, <1>6

\* Positions in a ring.
LEMMA ModRange ==
  ASSUME NEW n \in Nat, n > 0, NEW x \in Nat
  PROVE  x % n \in 0 .. n - 1
OBVIOUS

LEMMA ModSmall ==
  ASSUME NEW n \in Nat, NEW x \in 0 .. n - 1
  PROVE  x % n = x /\ (x + n) % n = x
OBVIOUS
=============================================================================
