--------------------------- MODULE ReplacerProofs ---------------------------
(***************************************************************************)
(* LRUReplacer and ClockReplacer implement Replacer, each picks the victim *)
(* its policy names, and the clock starves no slot, for every set of keys. *)
(***************************************************************************)
EXTENDS MCReplacers, SetFacts, TLAPS

-----------------------------------------------------------------------------
(* LRUReplacer: the list holds the keys of the map, each once, and a key
   further back was pushed later. *)

Ordered(q, y) == \A m, n \in DOMAIN q : m < n => q[n] \in y[q[m]]

LRUInv ==
  /\ linkedList \in Seq(Keys)
  /\ IsInjective(linkedList)
  /\ ToSet(linkedList) = lru
  /\ younger \in [Keys -> SUBSET Keys]
  /\ Ordered(linkedList, younger)

LEMMA OrderedWithout ==
  ASSUME NEW K, NEW q \in Seq(K), NEW p \in 1 .. Len(q), NEW r, r = RemoveAt(q, p),
         NEW y, Ordered(q, y)
  PROVE  Ordered(r, y)
<1>1. /\ Len(q) \in Nat /\ p \in Nat
      /\ DOMAIN q = 1 .. Len(q) /\ DOMAIN r = 1 .. Len(q) - 1
      /\ \A n \in 1 .. Len(q) - 1 : r[n] = IF n < p THEN q[n] ELSE q[n + 1]
  BY RemoveAtIs
<1> SUFFICES ASSUME NEW m \in DOMAIN r, NEW n \in DOMAIN r, m < n
             PROVE  r[n] \in y[r[m]]
  BY DEF Ordered
<1>2. PICK i, j : i = (IF m < p THEN m ELSE m + 1) /\ j = (IF n < p THEN n ELSE n + 1)
  OBVIOUS
<1>3. m \in Int /\ n \in Int
  BY <1>1
<1>4. i \in DOMAIN q /\ j \in DOMAIN q /\ i < j
  BY <1>1, <1>2, <1>3
<1>5. r[m] = q[i] /\ r[n] = q[j]
  BY <1>1, <1>2
<1> QED BY <1>4, <1>5 DEF Ordered

LEMMA OrderedTail ==
  ASSUME NEW K, NEW q \in Seq(K), q # <<>>, NEW y, Ordered(q, y)
  PROVE  /\ Ordered(Tail(q), y)
         /\ \A n \in DOMAIN Tail(q) : Tail(q)[n] \in y[Head(q)]
<1>1. PICK t : t = Tail(q)
  OBVIOUS
<1>2. /\ Len(q) \in Nat /\ Len(q) >= 1 /\ DOMAIN q = 1 .. Len(q)
      /\ t \in Seq(K) /\ Len(t) = Len(q) - 1 /\ Head(q) = q[1]
  BY <1>1
<1>3. DOMAIN t = 1 .. Len(q) - 1 /\ \A n \in 1 .. Len(q) - 1 : t[n] = q[n + 1]
  BY <1>1, <1>2, HeadTailProperties
<1>4. ASSUME NEW m \in DOMAIN t
      PROVE  m \in Int /\ m + 1 \in DOMAIN q /\ 1 < m + 1 /\ t[m] = q[m + 1]
  BY ONLY <1>2, <1>3, <1>4
<1>5. ASSUME NEW m \in DOMAIN t, NEW n \in DOMAIN t, m < n PROVE t[n] \in y[t[m]]
  <2>1. m + 1 < n + 1
    BY <1>4, <1>5
  <2> QED BY <1>4, <2>1 DEF Ordered
<1>6. ASSUME NEW n \in DOMAIN t PROVE t[n] \in y[Head(q)]
  BY <1>2, <1>4, <1>6 DEF Ordered
<1> QED BY <1>1, <1>5, <1>6 DEF Ordered

LEMMA OrderedPush ==
  ASSUME NEW K, NEW q \in Seq(K), NEW k \in K, k \notin ToSet(q),
         NEW y \in [K -> SUBSET K], Ordered(q, y),
         NEW z, z = [j \in K |-> IF j = k THEN {} ELSE y[j] \cup {k}]
  PROVE  Ordered(Append(q, k), z)
<1>1. PICK r : r = Append(q, k)
  OBVIOUS
<1>2. /\ Len(q) \in Nat /\ DOMAIN q = 1 .. Len(q) /\ DOMAIN r = 1 .. Len(q) + 1
      /\ \A n \in 1 .. Len(q) : r[n] = q[n]
      /\ r[Len(q) + 1] = k
  BY <1>1, AppendIs
<1>3. ASSUME NEW m \in DOMAIN q
      PROVE  q[m] \in K /\ z[q[m]] = y[q[m]] \cup {k}
  BY <1>2 DEF ToSet
<1>4. ASSUME NEW m \in DOMAIN r, NEW n \in DOMAIN r, m < n PROVE r[n] \in z[r[m]]
  <2>1. m \in DOMAIN q /\ r[m] = q[m]
    BY ONLY <1>2, <1>4
  <2>2. CASE n = Len(q) + 1
    BY <1>2, <1>3, <2>1, <2>2
  <2>3. CASE n # Len(q) + 1
    <3>1. n \in DOMAIN q /\ r[n] = q[n]
      BY ONLY <1>2, <1>4, <2>3
    <3> QED BY <1>3, <1>4, <2>1, <3>1 DEF Ordered
  <2> QED BY <2>2, <2>3
<1> QED BY <1>1, <1>4 DEF Ordered

\* Removing k's element from the list.
LEMMA UnlinkIs ==
  ASSUME LRUInv, NEW k \in lru
  PROVE  /\ LRU!Unlink(k) \in Seq(Keys)
         /\ IsInjective(LRU!Unlink(k))
         /\ ToSet(LRU!Unlink(k)) = lru \ {k}
         /\ Ordered(LRU!Unlink(k), younger)
<1>1. PICK n \in DOMAIN linkedList :
        linkedList[n] = k /\ LRU!Unlink(k) = RemoveAt(linkedList, n)
  <2>1. \E n \in DOMAIN linkedList : linkedList[n] = k
    BY DEF LRUInv, ToSet
  <2> QED BY <2>1 DEF LRU!Unlink, LRU!RemoveAt, RemoveAt
<1>2. linkedList \in Seq(Keys) /\ n \in 1 .. Len(linkedList)
  BY <1>1 DEF LRUInv
<1>3. PICK q, r, y : q = linkedList /\ r = LRU!Unlink(k) /\ y = younger
  OBVIOUS
<1>4. /\ q \in Seq(Keys) /\ n \in 1 .. Len(q) /\ r = RemoveAt(q, n)
      /\ IsInjective(q) /\ ToSet(q) = lru /\ Ordered(q, y) /\ q[n] = k
  BY <1>1, <1>2, <1>3 DEF LRUInv
<1>5. r \in Seq(Keys)
  BY ONLY <1>4, RemoveAtIs
<1>6. IsInjective(r) /\ ToSet(r) = ToSet(q) \ {q[n]}
  BY ONLY <1>4, RemoveAtOfInjective
<1>7. Ordered(r, y)
  BY ONLY <1>4, OrderedWithout
<1> QED BY <1>3, <1>4, <1>5, <1>6, <1>7

LEMMA LRUPush ==
  ASSUME LRUInv, NEW k \in Keys, LRU!Push(k)
  PROVE  LRUInv'
<1>1. PICK q : /\ q \in Seq(Keys) /\ IsInjective(q) /\ ToSet(q) = lru \ {k}
               /\ Ordered(q, younger) /\ linkedList' = Append(q, k)
  <2>1. CASE k \in lru
    BY <2>1, UnlinkIs DEF LRU!Push
  <2>2. CASE k \notin lru
    BY <2>2 DEF LRU!Push, LRUInv
  <2> QED BY <2>1, <2>2
<1>2. PICK y, z : y = younger /\ z = younger'
  OBVIOUS
<1>3. /\ y \in [Keys -> SUBSET Keys] /\ k \notin ToSet(q) /\ Ordered(q, y)
      /\ z = [j \in Keys |-> IF j = k THEN {} ELSE y[j] \cup {k}]
  BY <1>1, <1>2 DEF LRU!Push, LRUInv
<1>4. Ordered(Append(q, k), z)
  BY ONLY <1>1, <1>3, OrderedPush
<1>5. /\ Append(q, k) \in Seq(Keys) /\ IsInjective(Append(q, k))
      /\ ToSet(Append(q, k)) = (lru \ {k}) \cup {k}
  BY ONLY <1>1, AppendToInjective
<1>6. lru' = (lru \ {k}) \cup {k}
  BY DEF LRU!Push
<1>7. z \in [Keys -> SUBSET Keys]
  BY <1>3
<1> QED BY <1>1, <1>2, <1>4, <1>5, <1>6, <1>7 DEF LRUInv

LEMMA LRUDelete ==
  ASSUME LRUInv, NEW k \in Keys, LRU!Delete(k)
  PROVE  LRUInv'
<1>1. CASE k \in lru
  BY <1>1, UnlinkIs DEF LRU!Delete, LRUInv
<1>2. CASE k \notin lru
  BY <1>2 DEF LRU!Delete, LRUInv
<1> QED BY <1>1, <1>2

LEMMA LRUPick ==
  ASSUME LRUInv, LRU!PickVictim
  PROVE  /\ LRUInv'
         /\ linkedList = <<>> <=> lru = {}
         /\ linkedList # <<>> => lruPicked' \in lru /\ lru' = lru \ {lruPicked'}
         /\ lruPicked' \in Keys => lru' \subseteq younger[lruPicked']
<1>1. CASE linkedList = <<>>
  <2>1. lru = {} /\ lru' = {} /\ linkedList' = linkedList /\ younger' = younger
    BY <1>1 DEF LRU!PickVictim, LRUInv, ToSet
  <2> QED BY <1>1, <2>1 DEF LRUInv
<1>2. CASE linkedList # <<>>
  <2>1. PICK q, y : q = linkedList /\ y = younger
    OBVIOUS
  <2>2. /\ q \in Seq(Keys) /\ q # <<>> /\ IsInjective(q) /\ ToSet(q) = lru
        /\ Ordered(q, y) /\ y \in [Keys -> SUBSET Keys]
    BY <1>2, <2>1 DEF LRUInv
  <2>3. /\ Head(q) \in Keys /\ Head(q) \in ToSet(q)
        /\ Tail(q) \in Seq(Keys)
        /\ IsInjective(Tail(q))
        /\ ToSet(Tail(q)) = ToSet(q) \ {Head(q)}
    BY ONLY <2>2, TailOfInjective
  <2>4. /\ Ordered(Tail(q), y)
        /\ \A n \in DOMAIN Tail(q) : Tail(q)[n] \in y[Head(q)]
    BY ONLY <2>2, OrderedTail
  <2>5. /\ lruPicked' = Head(q) /\ linkedList' = Tail(q)
        /\ lru' = lru \ {Head(q)} /\ younger' = y
    BY <1>2, <2>1 DEF LRU!PickVictim
  <2>6. lru' = ToSet(Tail(q)) /\ lru' \subseteq y[Head(q)]
    BY <2>2, <2>3, <2>4, <2>5 DEF ToSet
  <2> QED BY <1>2, <2>1, <2>2, <2>3, <2>4, <2>5, <2>6 DEF LRUInv
<1> QED BY <1>1, <1>2

-----------------------------------------------------------------------------
(* ClockReplacer: the ring holds the keys of the map, each once, the hand
   points into it, and only slots of the ring have a reference bit. *)

ClockInv ==
  /\ ring \in Seq(Keys)
  /\ IsInjective(ring)
  /\ ToSet(ring) = inRing
  /\ head \in Nat /\ (head < Len(ring) \/ (ring = <<>> /\ head = 0))
  /\ ref \subseteq inRing

\* The slot d steps from position h, and the turn of the hand that ends there.
Slot(q, h, d) == q[((h + d) % Len(q)) + 1]
Passing(q, h, d) == {Slot(q, h, i) : i \in 0 .. d - 1}
Stops(q, h, R, d) ==
  /\ \A i \in 0 .. d - 1 : Slot(q, h, i) \in R
  /\ d < Len(q) => Slot(q, h, d) \notin R

\* The hand stops: at the first slot without a bit, or after a full turn.
LEMMA HandStops ==
  ASSUME NEW K, NEW q \in Seq(K), NEW h \in Nat, NEW R
  PROVE  \E d \in 0 .. Len(q) : Stops(q, h, R, d)
<1>0. Len(q) \in Nat
  OBVIOUS
<1> DEFINE S == {d \in 0 .. Len(q) - 1 : Slot(q, h, d) \notin R}
<1>1. CASE S = {}
  <2>1. \A i \in 0 .. Len(q) - 1 : Slot(q, h, i) \in R
    BY <1>1
  <2> QED BY <1>0, <2>1 DEF Stops
<1>2. CASE S # {}
  <2>1. S \in SUBSET Nat
    BY <1>0
  <2>2. PICK d \in S : \A n \in S : d <= n
    <3> HIDE DEF S
    <3> QED BY <1>2, <2>1, NatMin
  <2>3. d \in Int /\ 0 <= d /\ d <= Len(q) - 1
    BY <1>0
  <2>4. ASSUME NEW i \in 0 .. d - 1 PROVE Slot(q, h, i) \in R
    <3>1. i \in 0 .. Len(q) - 1 /\ ~(d <= i)
      BY <1>0, <2>3, <2>4
    <3> QED BY <2>2, <3>1
  <2>5. d \in 0 .. Len(q) /\ Slot(q, h, d) \notin R
    BY <1>0, <2>3
  <2> QED BY <2>4, <2>5 DEF Stops
<1> QED BY <1>1, <1>2

\* In a full turn the hand sees every slot.
LEMMA FullTurn ==
  ASSUME NEW K, NEW q \in Seq(K), NEW h \in 0 .. Len(q) - 1, NEW e \in ToSet(q)
  PROVE  \E d \in 0 .. Len(q) - 1 : e = Slot(q, h, d)
<1>0. Len(q) \in Nat /\ DOMAIN q = 1 .. Len(q)
  OBVIOUS
<1>1. PICK n \in DOMAIN q : e = q[n]
  BY DEF ToSet
<1>2. PICK j : j = n - 1 /\ j \in 0 .. Len(q) - 1 /\ j + 1 = n
  BY <1>0
<1>3. h \in Int /\ 0 <= h /\ h <= Len(q) - 1
  BY <1>0
<1>4. PICK d : d = IF h <= j THEN j - h ELSE j - h + Len(q)
  OBVIOUS
<1>5. d \in 0 .. Len(q) - 1 /\ (h + d = j \/ h + d = j + Len(q))
  BY <1>0, <1>2, <1>3, <1>4
<1>6. (h + d) % Len(q) = j
  BY <1>0, <1>2, <1>5, ModSmall
<1> QED BY <1>1, <1>2, <1>5, <1>6 DEF Slot

\* Where the hand stops there is no bit left, and a slot with a bit is only
\* reached after a full turn.
LEMMA WhereItStops ==
  ASSUME NEW K, NEW q \in Seq(K), NEW h \in 0 .. Len(q) - 1, NEW R,
         NEW d \in 0 .. Len(q), Stops(q, h, R, d)
  PROVE  /\ Slot(q, h, d) \notin R \ Passing(q, h, d)
         /\ Slot(q, h, d) \in R => ToSet(q) \subseteq R
<1>0. Len(q) \in Nat /\ h \in Nat /\ Len(q) > 0
  OBVIOUS
<1>1. CASE d < Len(q)
  BY <1>1 DEF Stops
<1>2. CASE ~(d < Len(q))
  <2>1. d = Len(q) /\ 0 \in 0 .. d - 1
    BY <1>0, <1>2
  <2>2. (h + d) % Len(q) = (h + 0) % Len(q)
    BY <1>0, <2>1, ModSmall
  <2>3. Slot(q, h, d) = Slot(q, h, 0)
    BY <2>2 DEF Slot
  <2>4. ToSet(q) \subseteq R
    BY <2>1, FullTurn DEF Stops
  <2> QED BY <2>1, <2>3, <2>4 DEF Passing
<1> QED BY <1>1, <1>2

LEMMA ClockPush ==
  ASSUME ClockInv, NEW k \in Keys, Clock!Push(k)
  PROVE  ClockInv'
<1>1. CASE k \in inRing
  BY <1>1 DEF ClockInv, Clock!Push
<1>2. CASE k \notin inRing
  <2>1. PICK q : q = ring /\ q \in Seq(Keys) /\ IsInjective(q) /\ k \notin ToSet(q)
    BY <1>2 DEF ClockInv
  <2>2. /\ Append(q, k) \in Seq(Keys) /\ IsInjective(Append(q, k))
        /\ ToSet(Append(q, k)) = ToSet(q) \cup {k}
    BY ONLY <2>1, AppendToInjective
  <2>3. Len(Append(q, k)) = Len(q) + 1 /\ Len(q) \in Nat
    BY ONLY <2>1, AppendIs
  <2>4. ring' = Append(q, k) /\ head' = head /\ inRing' = inRing \cup {k} /\ ref' = ref \cup {k}
    BY <1>2, <2>1 DEF Clock!Push
  <2>5. head \in Nat /\ head < Len(q) + 1
    <3>1. head \in Nat /\ (head < Len(q) \/ head = 0)
      BY <2>1 DEF ClockInv
    <3> QED BY ONLY <2>3, <3>1
  <2>6. head' \in Nat /\ head' < Len(ring')
    BY ONLY <2>3, <2>4, <2>5
  <2>7. ToSet(ring') = inRing' /\ ref' \subseteq inRing'
    BY <2>1, <2>2, <2>4 DEF ClockInv
  <2> QED BY <2>2, <2>4, <2>6, <2>7 DEF ClockInv
<1> QED BY <1>1, <1>2

\* A ring without one slot, and the map and the bits without its key.
LEMMA RingWithout ==
  ASSUME ClockInv, NEW i \in 0 .. Len(ring) - 1,
         NEW r, r = RemoveAt(ring, i + 1)
  PROVE  /\ r \in Seq(Keys) /\ IsInjective(r)
         /\ ToSet(r) = inRing \ {ring[i + 1]}
         /\ Len(r) = Len(ring) - 1 /\ Len(ring) \in Nat
         /\ r = <<>> <=> Len(ring) = 1
<1>1. ring \in Seq(Keys) /\ IsInjective(ring) /\ ToSet(ring) = inRing
  BY DEF ClockInv
<1>2. PICK q, p : q = ring /\ p = i + 1
  OBVIOUS
<1>3. /\ q \in Seq(Keys) /\ IsInjective(q) /\ ToSet(q) = inRing
      /\ p \in 1 .. Len(q) /\ r = RemoveAt(q, p)
  BY <1>1, <1>2
<1>4. r \in Seq(Keys) /\ Len(r) = Len(q) - 1 /\ Len(q) \in Nat
  BY ONLY <1>3, RemoveAtIs
<1>5. IsInjective(r) /\ ToSet(r) = ToSet(q) \ {q[p]}
  BY ONLY <1>3, RemoveAtOfInjective
<1>6. r = <<>> <=> Len(q) = 1
  <2>1. r = <<>> <=> Len(r) = 0
    BY ONLY <1>4, EmptySeq
  <2> QED BY ONLY <1>4, <2>1
<1> QED BY <1>2, <1>3, <1>4, <1>5, <1>6

\* Where the hand is after slot s left a ring of l slots.
HandWithout(l, h, s) ==
  IF l = 1 THEN 0 ELSE IF s < h THEN h - 1 ELSE IF h >= l - 1 THEN 0 ELSE h

LEMMA DeleteIs ==
  ASSUME ClockInv, NEW k \in inRing, Clock!Delete(k)
  PROVE  \E i \in 0 .. Len(ring) - 1 :
           /\ ring[i + 1] = k
           /\ ring' = RemoveAt(ring, i + 1)
           /\ head' = HandWithout(Len(ring), head, i)
<1>1. \E i \in 0 .. Len(ring) - 1 : Clock!At(i) = k
  <2>1. PICK n \in DOMAIN ring : ring[n] = k
    BY DEF ClockInv, ToSet
  <2>2. DOMAIN ring = 1 .. Len(ring) /\ Len(ring) \in Nat
    BY DEF ClockInv
  <2>3. n - 1 \in 0 .. Len(ring) - 1 /\ (n - 1) + 1 = n
    BY ONLY <2>1, <2>2
  <2> QED BY <2>1, <2>3 DEF Clock!At
<1>2. PICK i : i = CHOOSE j \in 0 .. Len(ring) - 1 : Clock!At(j) = k
  OBVIOUS
<1>3. i \in 0 .. Len(ring) - 1 /\ Clock!At(i) = k
  BY <1>1, <1>2
<1>4. /\ ring[i + 1] = k
      /\ ring' = RemoveAt(ring, i + 1)
      /\ head' = IF ring' = <<>> THEN 0
                 ELSE IF i < head THEN head - 1
                 ELSE IF head >= Len(ring') THEN 0 ELSE head
  BY <1>2, <1>3 DEF Clock!Delete, Clock!At, Clock!RemoveAt, RemoveAt
<1>5. PICK r : r = ring'
  OBVIOUS
<1>6. Len(r) = Len(ring) - 1 /\ (r = <<>> <=> Len(ring) = 1)
  BY <1>3, <1>4, <1>5, RingWithout
<1>7. head' = HandWithout(Len(ring), head, i)
  BY <1>4, <1>5, <1>6 DEF HandWithout
<1> QED BY <1>3, <1>4, <1>7

LEMMA PickIs ==
  ASSUME ClockInv, ring # <<>>, Clock!PickVictim
  PROVE  /\ head \in 0 .. Len(ring) - 1
         /\ \E d \in 0 .. Len(ring), s \in 0 .. Len(ring) - 1 :
              /\ Stops(ring, head, ref, d)
              /\ s = (head + d) % Len(ring)
              /\ clockPicked' = ring[s + 1]
              /\ ring' = RemoveAt(ring, s + 1)
              /\ inRing' = inRing \ {ring[s + 1]}
              /\ ref' = ref \ Passing(ring, head, d)
              /\ head' = HandWithout(Len(ring), s, s)
<1>1. PICK q, h, R : q = ring /\ h = head /\ R = ref
  OBVIOUS
<1>2. q \in Seq(Keys) /\ Len(q) \in Nat /\ h \in 0 .. Len(q) - 1
  <2>1. q \in Seq(Keys) /\ h \in Nat /\ h < Len(q)
    BY <1>1 DEF ClockInv
  <2> QED BY ONLY <2>1
<1>3. PICK d \in 0 .. Len(q) : d = Clock!Passed /\ Stops(q, h, R, d)
  <2>1. h \in Nat
    BY <1>2
  <2>2. \E d \in 0 .. Len(q) : Stops(q, h, R, d)
    BY ONLY <1>2, <2>1, HandStops
  <2>3. Clock!Passed = CHOOSE d \in 0 .. Len(q) : Stops(q, h, R, d)
    BY <1>1 DEF Clock!Passed, Clock!At, Clock!HandAfter, Stops, Slot
  <2> QED BY <2>2, <2>3
<1>4. PICK s : s = (h + d) % Len(q)
  OBVIOUS
<1>5. s \in 0 .. Len(q) - 1
  <2>1. h + d \in Nat /\ Len(q) > 0
    BY <1>2
  <2> QED BY <1>2, <1>4, <2>1, ModRange
<1>6. Clock!HandAfter(Clock!Passed) = s /\ Clock!At(s) = q[s + 1]
  BY <1>1, <1>3, <1>4 DEF Clock!HandAfter, Clock!At
<1>7. ref' = R \ Passing(q, h, d)
  <2>1. \A i : Clock!At(Clock!HandAfter(i)) = Slot(q, h, i)
    BY <1>1 DEF Clock!At, Clock!HandAfter, Slot
  <2>2. ref' = R \ {Clock!At(Clock!HandAfter(i)) : i \in 0 .. d - 1}
    BY <1>1, <1>3 DEF Clock!PickVictim
  <2> QED BY ONLY <2>1, <2>2 DEF Passing
<1>8. /\ clockPicked' = q[s + 1]
      /\ ring' = RemoveAt(q, s + 1)
      /\ inRing' = inRing \ {q[s + 1]}
      /\ head' = IF s >= Len(ring') THEN 0 ELSE s
  BY <1>1, <1>6 DEF Clock!PickVictim, Clock!RemoveAt, RemoveAt
<1>9. head' = HandWithout(Len(q), s, s)
  <2>1. PICK r : r = ring'
    OBVIOUS
  <2>2. Len(r) = Len(q) - 1
    BY <1>1, <1>5, <1>8, <2>1, RingWithout
  <2>3. head' = IF s >= Len(q) - 1 THEN 0 ELSE s
    BY <1>8, <2>1, <2>2
  <2>4. PICK l : l = Len(q)
    OBVIOUS
  <2>5. l \in Int /\ s \in Int /\ 0 <= s
    BY <1>2, <1>5, <2>4
  <2>6. ~(s < s)
    BY ONLY <2>5
  <2>7. l = 1 => s >= l - 1
    BY ONLY <2>5
  <2> QED BY ONLY <2>3, <2>4, <2>6, <2>7 DEF HandWithout
<1> QED BY <1>1, <1>2, <1>3, <1>4, <1>5, <1>7, <1>8, <1>9

\* The hand stays in the ring.
LEMMA HandStays ==
  ASSUME NEW l \in Nat, NEW h \in 0 .. l - 1, NEW s \in 0 .. l - 1
  PROVE  /\ HandWithout(l, h, s) \in Nat
         /\ HandWithout(l, h, s) < l - 1 \/ (l = 1 /\ HandWithout(l, h, s) = 0)
BY DEF HandWithout

LEMMA ClockDelete ==
  ASSUME ClockInv, NEW k \in Keys, Clock!Delete(k)
  PROVE  ClockInv'
<1>1. CASE k \notin inRing
  BY <1>1 DEF ClockInv, Clock!Delete
<1>2. CASE k \in inRing
  <2>1. PICK i \in 0 .. Len(ring) - 1 :
          /\ ring[i + 1] = k
          /\ ring' = RemoveAt(ring, i + 1)
          /\ head' = HandWithout(Len(ring), head, i)
    BY <1>2, DeleteIs
  <2>2. PICK r : r = ring'
    OBVIOUS
  <2>3. /\ r \in Seq(Keys) /\ IsInjective(r) /\ ToSet(r) = inRing \ {k}
        /\ Len(r) = Len(ring) - 1 /\ Len(ring) \in Nat
        /\ r = <<>> <=> Len(ring) = 1
    BY <2>1, <2>2, RingWithout
  <2>4. head \in 0 .. Len(ring) - 1
    <3>1. ring # <<>>
      BY <2>1, <2>3
    <3>2. head \in Nat /\ head < Len(ring)
      BY <3>1 DEF ClockInv
    <3> QED BY ONLY <2>3, <3>2
  <2>5. head' \in Nat /\ (head' < Len(r) \/ (r = <<>> /\ head' = 0))
    <3>1. /\ head' \in Nat
          /\ head' < Len(ring) - 1 \/ (Len(ring) = 1 /\ head' = 0)
      BY <2>1, <2>3, <2>4, HandStays
    <3> QED BY ONLY <2>3, <3>1
  <2>6. inRing' = inRing \ {k} /\ ref' = ref \ {k}
    BY DEF Clock!Delete
  <2>7. ref' \subseteq inRing'
    BY <2>6 DEF ClockInv
  <2> QED BY <2>2, <2>3, <2>5, <2>6, <2>7 DEF ClockInv
<1> QED BY <1>1, <1>2

LEMMA ClockPick ==
  ASSUME ClockInv, Clock!PickVictim
  PROVE  /\ ClockInv'
         /\ ring = <<>> <=> inRing = {}
         /\ ring # <<>> => clockPicked' \in inRing /\ inRing' = inRing \ {clockPicked'}
         /\ clockPicked' \in ref /\ ring # <<>> => inRing \subseteq ref
<1>1. CASE ring = <<>>
  <2>1. inRing = {}
    BY <1>1 DEF ClockInv, ToSet
  <2>2. UNCHANGED <<ring, head, inRing, ref>>
    BY <1>1 DEF Clock!PickVictim
  <2> QED BY <1>1, <2>1, <2>2 DEF ClockInv
<1>2. CASE ring # <<>>
  <2>1. PICK d \in 0 .. Len(ring), s \in 0 .. Len(ring) - 1 :
          /\ Stops(ring, head, ref, d)
          /\ s = (head + d) % Len(ring)
          /\ clockPicked' = ring[s + 1]
          /\ ring' = RemoveAt(ring, s + 1)
          /\ inRing' = inRing \ {ring[s + 1]}
          /\ ref' = ref \ Passing(ring, head, d)
          /\ head' = HandWithout(Len(ring), s, s)
    BY <1>2, PickIs
  <2>2. PICK q, h, R, v, r :
          q = ring /\ h = head /\ R = ref /\ v = q[s + 1] /\ r = ring'
    OBVIOUS
  <2>3. /\ q \in Seq(Keys) /\ ToSet(q) = inRing /\ Len(q) \in Nat
        /\ h \in 0 .. Len(q) - 1 /\ R \subseteq inRing
    BY <1>2, <2>2, PickIs DEF ClockInv
  <2>4. /\ v \notin ref'
        /\ v \in R => ToSet(q) \subseteq R
    <3>1. /\ d \in 0 .. Len(q) /\ Stops(q, h, R, d) /\ v = Slot(q, h, d)
          /\ ref' = R \ Passing(q, h, d)
      BY <2>1, <2>2 DEF Slot
    <3> QED BY ONLY <2>3, <3>1, WhereItStops
  <2>5. /\ r \in Seq(Keys) /\ IsInjective(r) /\ ToSet(r) = inRing \ {v}
        /\ Len(r) = Len(q) - 1
        /\ r = <<>> <=> Len(q) = 1
    BY <2>1, <2>2, RingWithout
  <2>6. head' \in Nat /\ (head' < Len(r) \/ (r = <<>> /\ head' = 0))
    <3>1. /\ head' \in Nat
          /\ head' < Len(q) - 1 \/ (Len(q) = 1 /\ head' = 0)
      BY <2>1, <2>2, <2>3, HandStays
    <3> QED BY ONLY <2>5, <3>1
  <2>7. v \in inRing
    <3>1. s + 1 \in 1 .. Len(q)
      BY <2>2, <2>3
    <3> QED BY <2>2, <2>3, <3>1 DEF ToSet
  <2>8. clockPicked' = v /\ inRing' = inRing \ {v} /\ ref' \subseteq R
    BY <2>1, <2>2
  <2>9. ref' \subseteq inRing'
    BY <2>3, <2>4, <2>8
  <2>10. ClockInv'
    BY <2>2, <2>5, <2>6, <2>8, <2>9 DEF ClockInv
  <2> QED BY <1>2, <2>2, <2>3, <2>4, <2>7, <2>8, <2>10
<1> QED BY <1>1, <1>2

-----------------------------------------------------------------------------
(* Both together. *)

Inv == LRUInv /\ ClockInv

LEMMA InvInit == Init => Inv
<1> SUFFICES ASSUME Init PROVE Inv
  OBVIOUS
<1>1. LRUInv
  BY DEF Init, LRU!Init, LRUInv, IsInjective, ToSet, Ordered
<1>2. ClockInv
  BY DEF Init, Clock!Init, ClockInv, IsInjective, ToSet
<1> QED BY <1>1, <1>2 DEF Inv

LEMMA InvNext == Inv /\ [Next]_vars => Inv'
<1> SUFFICES ASSUME Inv, [Next]_vars PROVE Inv'
  OBVIOUS
<1>1. ASSUME NEW k \in Keys, LRU!Push(k), Clock!Push(k) PROVE Inv'
  BY <1>1, LRUPush, ClockPush DEF Inv
<1>2. ASSUME NEW k \in Keys, LRU!Delete(k), Clock!Delete(k) PROVE Inv'
  BY <1>2, LRUDelete, ClockDelete DEF Inv
<1>3. ASSUME LRU!PickVictim, Clock!PickVictim PROVE Inv'
  BY <1>3, LRUPick, ClockPick DEF Inv
<1>4. CASE UNCHANGED vars
  BY <1>4 DEF vars, LRU!vars, Clock!vars, Inv, LRUInv, ClockInv
<1> QED BY <1>1, <1>2, <1>3, <1>4 DEF Next

(* The inductive invariant: the list, the map, the ring and the bits of both
   replacers stay in step, the list stays in order of use and the hand stays
   in the ring, whatever calls the pool makes. *)
THEOREM ReplacersInvariant == Spec => []Inv
BY InvInit, InvNext, PTL DEF Spec

(* PickVictim of LRUReplacer takes the least recently used candidate, and
   PickVictim of ClockReplacer takes a slot with its bit set only when every
   slot had its bit set. *)
THEOREM PoliciesAreFollowed == Spec => VictimsFollowPolicy
<1>1. ASSUME Inv, [Next]_vars
      PROVE  [lruPicked' \in Keys => lru' \subseteq younger[lruPicked']]_(LRU!vars)
  <2>1. ASSUME NEW k \in Keys, LRU!Push(k) \/ LRU!Delete(k) PROVE lruPicked' \notin Keys
    BY <2>1, ResultsAssumption DEF LRU!Push, LRU!Delete
  <2>2. CASE LRU!PickVictim
    BY <1>1, <2>2, LRUPick DEF Inv
  <2>3. CASE UNCHANGED vars
    BY <2>3 DEF vars
  <2> QED BY <1>1, <2>1, <2>2, <2>3 DEF Next
<1>2. ASSUME Inv, [Next]_vars
      PROVE  [clockPicked' \in Keys \cap ref => inRing \subseteq ref]_(Clock!vars)
  <2>1. ASSUME NEW k \in Keys, Clock!Push(k) \/ Clock!Delete(k) PROVE clockPicked' \notin Keys
    BY <2>1, ResultsAssumption DEF Clock!Push, Clock!Delete
  <2>2. CASE Clock!PickVictim
    <3>1. CASE ring = <<>>
      BY <2>2, <3>1, ResultsAssumption DEF Clock!PickVictim
    <3>2. CASE ring # <<>>
      BY <1>2, <2>2, <3>2, ClockPick DEF Inv
    <3> QED BY <3>1, <3>2
  <2>3. CASE UNCHANGED vars
    BY <2>3 DEF vars
  <2> QED BY <1>2, <2>1, <2>2, <2>3 DEF Next
<1>3. Spec => LRU!VictimIsLeastRecent
  BY <1>1, ReplacersInvariant, PTL DEF Spec, LRU!VictimIsLeastRecent
<1>4. Spec => Clock!SecondChance
  BY <1>2, ReplacersInvariant, PTL DEF Spec, Clock!SecondChance
<1> QED BY <1>3, <1>4 DEF VictimsFollowPolicy

(* Both replacers implement the set of candidates the pool is written against:
   what was pushed and neither deleted nor picked since can be picked, nothing
   else is, and nil comes back only when there is nothing to pick. *)
THEOREM ReplacersImplement == Spec => BothImplementReplacer
<1>1. Init => LRU!Abstract!Init /\ Clock!Abstract!Init
  BY DEF Init, LRU!Init, Clock!Init, LRU!Abstract!Init, Clock!Abstract!Init
<1>2. ASSUME Inv, [Next]_vars PROVE [LRU!Abstract!Next]_(LRU!Abstract!vars)
  <2>1. ASSUME NEW k \in Keys, LRU!Push(k) PROVE LRU!Abstract!Push(k)
    BY <2>1 DEF LRU!Push, LRU!Abstract!Push
  <2>2. ASSUME NEW k \in Keys, LRU!Delete(k) PROVE LRU!Abstract!Delete(k)
    BY <2>2 DEF LRU!Delete, LRU!Abstract!Delete
  <2>3. ASSUME LRU!PickVictim PROVE LRU!Abstract!PickVictim
    <3>1. CASE linkedList = <<>>
      BY <1>2, <2>3, <3>1, LRUPick DEF Inv, LRU!PickVictim, LRU!Abstract!PickVictim
    <3>2. CASE linkedList # <<>>
      BY <1>2, <2>3, <3>2, LRUPick DEF Inv, LRU!Abstract!PickVictim
    <3> QED BY <3>1, <3>2
  <2>4. CASE UNCHANGED vars
    BY <2>4 DEF vars, LRU!vars, LRU!Abstract!vars
  <2> QED BY <1>2, <2>1, <2>2, <2>3, <2>4 DEF Next, LRU!Abstract!Next
<1>3. ASSUME Inv, [Next]_vars PROVE [Clock!Abstract!Next]_(Clock!Abstract!vars)
  <2>1. ASSUME NEW k \in Keys, Clock!Push(k) PROVE Clock!Abstract!Push(k)
    BY <2>1 DEF Clock!Push, Clock!Abstract!Push
  <2>2. ASSUME NEW k \in Keys, Clock!Delete(k) PROVE Clock!Abstract!Delete(k)
    BY <2>2 DEF Clock!Delete, Clock!Abstract!Delete
  <2>3. ASSUME Clock!PickVictim PROVE Clock!Abstract!PickVictim
    <3>1. CASE ring = <<>>
      BY <1>3, <2>3, <3>1, ClockPick DEF Inv, Clock!PickVictim, Clock!Abstract!PickVictim
    <3>2. CASE ring # <<>>
      BY <1>3, <2>3, <3>2, ClockPick DEF Inv, Clock!Abstract!PickVictim
    <3> QED BY <3>1, <3>2
  <2>4. CASE UNCHANGED vars
    BY <2>4 DEF vars, Clock!vars, Clock!Abstract!vars
  <2> QED BY <1>3, <2>1, <2>2, <2>3, <2>4 DEF Next, Clock!Abstract!Next
<1>4. Spec => LRU!ImplementsReplacer
  BY <1>1, <1>2, ReplacersInvariant, PTL DEF Spec, LRU!ImplementsReplacer, LRU!Abstract!Spec
<1>5. Spec => Clock!ImplementsReplacer
  BY <1>1, <1>3, ReplacersInvariant, PTL DEF Spec, Clock!ImplementsReplacer, Clock!Abstract!Spec
<1> QED BY <1>4, <1>5 DEF BothImplementReplacer

-----------------------------------------------------------------------------
(* No slot of the ring starves.  In the order in which the hand comes to
   them, Ahead(k) are the slots before k; those of them without a bit, Due(k),
   are evicted before k is reached, one by each pick, and no call but a Push
   of k adds to them until the hand has passed k.  With k's bit set that
   happens once more: N - 1 picks until the hand passes k, the pick that
   passes it, and N - 2 picks for the others that are then left.  One pick
   less than that sum, because of N - 1 slots due before k none is left when
   the hand comes to k. *)

Precedes(i, j, h) == \/ i >= h /\ j < h
                     \/ i < j /\ (i >= h <=> j >= h)

Ahead(q, h, k) ==
  {e \in ToSet(q) : \E i, j \in 0 .. Len(q) - 1 :
     q[i + 1] = e /\ q[j + 1] = k /\ Precedes(i, j, h)}

\* The hand comes to k before it wraps around.
InFront(q, h, k) == \E j \in 0 .. Len(q) - 1 : q[j + 1] = k /\ h <= j

N == Cardinality(Keys)

\* Ahead of k and without a bit, and what that leaves for k.
Due(q, h, R, k) == Ahead(q, h, k) \ R

Turn(q, h, I, R, n, k) ==
  /\ k \in R =>
       /\ n + Cardinality(Due(q, h, R, k)) <= N - 1
       /\ n + Cardinality(Due(q, h, R, k)) = N - 1 =>
            Ahead(q, h, k) = I \ R /\ InFront(q, h, k)
  /\ k \notin R => n + Cardinality(Due(q, h, R, k)) <= 2 * N - 3

ChanceInv ==
  /\ survived \in [Keys -> Nat]
  /\ inRing = Keys => ref # {}
  /\ \A k \in Keys \ inRing : survived[k] = 0
  /\ \A k \in inRing : Turn(ring, head, inRing, ref, survived[k], k)

LEMMA PositionOf ==
  ASSUME NEW K, NEW q \in Seq(K), NEW k \in ToSet(q)
  PROVE  \E c \in 0 .. Len(q) - 1 : q[c + 1] = k
<1>1. PICK n \in DOMAIN q : q[n] = k
  BY DEF ToSet
<1>2. DOMAIN q = 1 .. Len(q) /\ Len(q) \in Nat
  OBVIOUS
<1>3. n - 1 \in 0 .. Len(q) - 1 /\ (n - 1) + 1 = n
  BY ONLY <1>1, <1>2
<1> QED BY <1>1, <1>3

LEMMA SamePosition ==
  ASSUME NEW K, NEW q \in Seq(K), IsInjective(q),
         NEW i \in 0 .. Len(q) - 1, NEW j \in 0 .. Len(q) - 1, q[i + 1] = q[j + 1]
  PROVE  i = j
<1>1. i + 1 \in DOMAIN q /\ j + 1 \in DOMAIN q
  OBVIOUS
<1>2. i + 1 = j + 1
  BY <1>1 DEF IsInjective
<1> QED BY <1>2

\* Seen from k's position.
Before(q, h, c, e) == \E i \in 0 .. Len(q) - 1 : q[i + 1] = e /\ Precedes(i, c, h)

LEMMA AheadAt ==
  ASSUME NEW K, NEW q \in Seq(K), IsInjective(q), NEW h \in Nat,
         NEW c \in 0 .. Len(q) - 1, NEW k, q[c + 1] = k
  PROVE  /\ \A e : e \in Ahead(q, h, k) <=> Before(q, h, c, e)
         /\ InFront(q, h, k) <=> h <= c
<1>1. ASSUME NEW e, e \in Ahead(q, h, k) PROVE Before(q, h, c, e)
  <2>1. PICK i, j \in 0 .. Len(q) - 1 : q[i + 1] = e /\ q[j + 1] = k /\ Precedes(i, j, h)
    BY <1>1 DEF Ahead
  <2>2. j = c
    BY <2>1, SamePosition
  <2> QED BY <2>1, <2>2 DEF Before
<1>2. ASSUME NEW e, Before(q, h, c, e) PROVE e \in Ahead(q, h, k)
  <2>1. PICK i \in 0 .. Len(q) - 1 : q[i + 1] = e /\ Precedes(i, c, h)
    BY <1>2 DEF Before
  <2>2. e \in ToSet(q)
    <3>1. i + 1 \in DOMAIN q
      OBVIOUS
    <3> QED BY <2>1, <3>1 DEF ToSet
  <2> QED BY <2>1, <2>2 DEF Ahead
<1>3. InFront(q, h, k) => h <= c
  BY SamePosition DEF InFront
<1>4. h <= c => InFront(q, h, k)
  BY DEF InFront
<1> QED BY <1>1, <1>2, <1>3, <1>4

LEMMA NotAheadOfItself ==
  ASSUME NEW K, NEW q \in Seq(K), IsInjective(q), NEW h \in Nat, NEW k \in ToSet(q)
  PROVE  Ahead(q, h, k) \subseteq ToSet(q) \ {k}
<1>1. PICK c \in 0 .. Len(q) - 1 : q[c + 1] = k
  BY PositionOf
<1>2. ASSUME k \in Ahead(q, h, k) PROVE FALSE
  <2>0. Before(q, h, c, k)
    BY <1>1, <1>2, AheadAt
  <2>1. PICK i \in 0 .. Len(q) - 1 : q[i + 1] = k /\ Precedes(i, c, h)
    BY <2>0 DEF Before
  <2>2. i = c
    BY <1>1, <2>1, SamePosition
  <2> QED BY <2>1, <2>2 DEF Precedes
<1> QED BY <1>2 DEF Ahead

\* A new slot comes last in the ring.
NewSlotKeeps(q, h, e, r, k) ==
  /\ Ahead(r, h, k) \subseteq Ahead(q, h, k) \cup {e}
  /\ InFront(q, h, k) => InFront(r, h, k) /\ Ahead(r, h, k) = Ahead(q, h, k)

LEMMA AheadAppend ==
  ASSUME NEW K, NEW q \in Seq(K), IsInjective(q), NEW h \in Nat,
         NEW e \in K, e \notin ToSet(q), NEW r, r = Append(q, e), NEW k \in ToSet(q)
  PROVE  NewSlotKeeps(q, h, e, r, k)
<1>1. PICK c \in 0 .. Len(q) - 1 : q[c + 1] = k
  BY PositionOf
<1>2. /\ r \in Seq(K) /\ IsInjective(r) /\ Len(r) = Len(q) + 1 /\ Len(q) \in Nat
      /\ \A n \in 1 .. Len(q) : r[n] = q[n]
      /\ r[Len(q) + 1] = e
  BY AppendIs, AppendToInjective
<1>3. /\ \A i \in 0 .. Len(q) - 1 : i \in 0 .. Len(r) - 1 /\ r[i + 1] = q[i + 1]
      /\ \A i \in 0 .. Len(r) - 1 : i \in 0 .. Len(q) - 1 \/ i = Len(q)
  BY ONLY <1>2
<1>4. c \in 0 .. Len(r) - 1 /\ r[c + 1] = k
  BY <1>1, <1>3
<1>5. ASSUME NEW x \in Ahead(r, h, k) PROVE x \in Ahead(q, h, k) \/ (x = e /\ ~(h <= c))
  <2>0. Before(r, h, c, x)
    BY <1>2, <1>4, AheadAt
  <2>1. PICK i \in 0 .. Len(r) - 1 : r[i + 1] = x /\ Precedes(i, c, h)
    BY <2>0 DEF Before
  <2>2. CASE i \in 0 .. Len(q) - 1
    BY <1>1, <1>3, <2>1, <2>2, AheadAt DEF Before
  <2>3. CASE i = Len(q)
    <3>1. c \in Int /\ c < i
      BY <1>2, <2>3
    <3>2. x = e
      BY <1>2, <2>1, <2>3
    <3>3. ~(h <= c)
      BY <1>2, <2>1, <2>3, <3>1 DEF Precedes
    <3> QED BY <3>2, <3>3
  <2> QED BY <1>3, <2>2, <2>3
<1>6. ASSUME NEW x \in Ahead(q, h, k) PROVE x \in Ahead(r, h, k)
  <2>0. Before(q, h, c, x)
    BY <1>1, AheadAt
  <2>1. PICK i \in 0 .. Len(q) - 1 : q[i + 1] = x /\ Precedes(i, c, h)
    BY <2>0 DEF Before
  <2> QED BY <1>2, <1>3, <1>4, <2>1, AheadAt DEF Before
<1>7. (InFront(q, h, k) <=> h <= c) /\ (InFront(r, h, k) <=> h <= c)
  BY <1>1, <1>2, <1>4, AheadAt
<1> QED BY <1>5, <1>6, <1>7 DEF NewSlotKeeps

\* Where position i is after position s left.
NewPos(s, i) == IF i < s THEN i ELSE i - 1

\* The order is the same before and after a slot leaves the ring.
LEMMA PrecedesWithout ==
  ASSUME NEW l \in Nat, NEW h \in 0 .. l - 1, NEW s \in 0 .. l - 1,
         NEW i \in 0 .. l - 1, NEW j \in 0 .. l - 1, i # s, j # s
  PROVE  /\ NewPos(s, i) \in 0 .. (l - 1) - 1
         /\ Precedes(NewPos(s, i), NewPos(s, j), HandWithout(l, h, s)) <=> Precedes(i, j, h)
         /\ h <= j => HandWithout(l, h, s) <= NewPos(s, j)
BY DEF Precedes, NewPos, HandWithout

\* r is q without position s.
IsWithout(K, q, s, r) ==
  /\ r \in Seq(K) /\ Len(q) \in Nat /\ Len(r) = Len(q) - 1
  /\ \A i \in 0 .. Len(q) - 1 : i # s => r[NewPos(s, i) + 1] = q[i + 1]
  /\ \A m \in 0 .. Len(r) - 1 :
       \E i \in 0 .. Len(q) - 1 : i # s /\ m = NewPos(s, i)

LEMMA WithoutSlot ==
  ASSUME NEW K, NEW q \in Seq(K), NEW s \in 0 .. Len(q) - 1,
         NEW r, r = RemoveAt(q, s + 1)
  PROVE  IsWithout(K, q, s, r)
<1>1. PICK p : p = s + 1 /\ p \in 1 .. Len(q)
  OBVIOUS
<1>2. /\ r \in Seq(K) /\ Len(q) \in Nat /\ Len(r) = Len(q) - 1
      /\ \A n \in 1 .. Len(q) - 1 : r[n] = IF n < p THEN q[n] ELSE q[n + 1]
  BY <1>1, RemoveAtIs
<1>3. ASSUME NEW i \in 0 .. Len(q) - 1, i # s
      PROVE  r[NewPos(s, i) + 1] = q[i + 1]
  <2>1. i \in Int /\ s \in Int
    OBVIOUS
  <2>2. CASE i < s
    <3>1. i + 1 \in 1 .. Len(q) - 1 /\ i + 1 < p
      BY <1>1, <1>2, <2>1, <2>2
    <3> QED BY <1>2, <2>2, <3>1 DEF NewPos
  <2>3. CASE ~(i < s)
    <3>1. i \in 1 .. Len(q) - 1 /\ ~(i < p) /\ (i - 1) + 1 = i
      BY <1>1, <1>2, <1>3, <2>1, <2>3
    <3> QED BY <1>2, <2>3, <3>1 DEF NewPos
  <2> QED BY <2>2, <2>3
<1>4. ASSUME NEW m \in 0 .. Len(r) - 1
      PROVE  \E i \in 0 .. Len(q) - 1 : i # s /\ m = NewPos(s, i)
  <2>1. PICK i : i = IF m < s THEN m ELSE m + 1
    OBVIOUS
  <2>2. i \in 0 .. Len(q) - 1 /\ i # s /\ m = NewPos(s, i)
    BY <1>2, <2>1 DEF NewPos
  <2> QED BY <2>2
<1> QED BY <1>2, <1>3, <1>4 DEF IsWithout

LEMMA AheadWithout ==
  ASSUME NEW K, NEW q \in Seq(K), IsInjective(q), NEW h \in 0 .. Len(q) - 1,
         NEW s \in 0 .. Len(q) - 1, NEW v, v = q[s + 1],
         NEW r, r = RemoveAt(q, s + 1),
         NEW g, g = HandWithout(Len(q), h, s),
         NEW k \in ToSet(q), k # v
  PROVE  /\ Ahead(r, g, k) = Ahead(q, h, k) \ {v}
         /\ InFront(q, h, k) => InFront(r, g, k)
<1>1. PICK c \in 0 .. Len(q) - 1 : q[c + 1] = k
  BY PositionOf
<1>2. /\ r \in Seq(K) /\ Len(q) \in Nat /\ Len(r) = Len(q) - 1
      /\ \A i \in 0 .. Len(q) - 1 : i # s => r[NewPos(s, i) + 1] = q[i + 1]
      /\ \A m \in 0 .. Len(r) - 1 : \E i \in 0 .. Len(q) - 1 : i # s /\ m = NewPos(s, i)
  <2>1. IsWithout(K, q, s, r)
    BY WithoutSlot
  <2> QED BY ONLY <2>1 DEF IsWithout
<1>3. IsInjective(r)
  <2>1. s + 1 \in 1 .. Len(q)
    BY <1>2
  <2> QED BY <2>1, RemoveAtOfInjective
<1>4. c # s
  BY <1>1
<1>5. ASSUME NEW i \in 0 .. Len(q) - 1, i # s
      PROVE  /\ NewPos(s, i) \in 0 .. Len(r) - 1
             /\ Precedes(NewPos(s, i), NewPos(s, c), g) <=> Precedes(i, c, h)
             /\ h <= c => g <= NewPos(s, c)
  BY <1>2, <1>4, <1>5, PrecedesWithout
<1>6. /\ g \in Nat /\ NewPos(s, c) \in 0 .. Len(r) - 1 /\ r[NewPos(s, c) + 1] = k
      /\ h <= c => g <= NewPos(s, c)
  <2>1. g \in Nat
    BY <1>2 DEF HandWithout
  <2> QED BY <1>1, <1>2, <1>4, <1>5, <2>1
<1>7. PICK d : d = NewPos(s, c)
  OBVIOUS
<1>8. /\ \A e : e \in Ahead(r, g, k) <=> Before(r, g, d, e)
      /\ InFront(r, g, k) <=> g <= d
  BY <1>2, <1>3, <1>6, <1>7, AheadAt
<1>9. /\ \A e : e \in Ahead(q, h, k) <=> Before(q, h, c, e)
      /\ InFront(q, h, k) <=> h <= c
  <2>1. h \in Nat
    BY <1>2
  <2> QED BY <1>1, <2>1, AheadAt
<1>10. ASSUME NEW e \in Ahead(r, g, k) PROVE e \in Ahead(q, h, k) \ {v}
  <2>1. PICK m \in 0 .. Len(r) - 1 : r[m + 1] = e /\ Precedes(m, d, g)
    BY <1>8 DEF Before
  <2>2. PICK i \in 0 .. Len(q) - 1 : i # s /\ m = NewPos(s, i)
    BY <1>2, <2>1
  <2>3. q[i + 1] = e
    BY <1>2, <2>1, <2>2
  <2>4. Precedes(i, c, h)
    <3> QED BY <1>5, <1>7, <2>1, <2>2
  <2>5. e # v
    BY <2>2, <2>3, SamePosition
  <2> QED BY <1>9, <2>3, <2>4, <2>5 DEF Before
<1>11. ASSUME NEW e \in Ahead(q, h, k), e # v PROVE e \in Ahead(r, g, k)
  <2>1. PICK i \in 0 .. Len(q) - 1 : q[i + 1] = e /\ Precedes(i, c, h)
    BY <1>9 DEF Before
  <2>2. i # s
    BY <1>11, <2>1
  <2>3. NewPos(s, i) \in 0 .. Len(r) - 1 /\ r[NewPos(s, i) + 1] = e /\ Precedes(NewPos(s, i), d, g)
    <3>1. r[NewPos(s, i) + 1] = e
      BY <1>2, <2>1, <2>2
    <3> QED BY <1>5, <1>7, <2>1, <2>2, <3>1
  <2>4. Before(r, g, d, e)
    <3> QED BY <2>3 DEF Before
  <2> QED BY <1>8, <2>4
<1>12. Ahead(r, g, k) = Ahead(q, h, k) \ {v}
  BY <1>10, <1>11
<1> QED BY <1>6, <1>7, <1>8, <1>9, <1>12

\* The positions the hand passes in d steps from h to s, and the order in which
\* it comes to the others from there.
PassedOver(l, h, d, i) == IF h + d < l THEN h <= i /\ i < h + d
                          ELSE h <= i \/ i < h + d - l

HandAt(l, h, d) == IF h + d < l THEN h + d ELSE h + d - l

LEMMA HandAtIs ==
  ASSUME NEW l \in Nat, NEW h \in 0 .. l - 1, NEW d \in 0 .. l
  PROVE  /\ HandAt(l, h, d) \in 0 .. l - 1
         /\ HandAt(l, h, d) = (h + d) % l
         /\ d = l => \A c \in 0 .. l - 1 : PassedOver(l, h, d, c)
<1>1. PICK s : s = HandAt(l, h, d)
  OBVIOUS
<1>2. s \in 0 .. l - 1 /\ h \in Int /\ d \in Int /\ (h + d = s \/ h + d = s + l)
  BY <1>1 DEF HandAt
<1>3. s % l = s /\ (s + l) % l = s
  BY <1>2, ModSmall
<1>4. d = l => \A c \in 0 .. l - 1 : PassedOver(l, h, d, c)
  BY DEF PassedOver
<1> QED BY <1>1, <1>2, <1>3, <1>4

LEMMA Rotation ==
  ASSUME NEW l \in Nat, NEW h \in 0 .. l - 1, NEW d \in 0 .. l,
         NEW c \in 0 .. l - 1, NEW i \in 0 .. l - 1, NEW s, s = HandAt(l, h, d)
  PROVE  /\ PassedOver(l, h, d, c) /\ Precedes(i, c, h) => PassedOver(l, h, d, i)
         /\ ~PassedOver(l, h, d, c) =>
              /\ c # s => Precedes(s, c, h)
              /\ PassedOver(l, h, d, i) => Precedes(i, c, h)
              /\ Precedes(i, c, s) => Precedes(i, c, h) /\ ~PassedOver(l, h, d, i)
BY DEF PassedOver, Precedes, HandAt

\* The slots passed are those of the positions passed.
LEMMA PassedSlots ==
  ASSUME NEW K, NEW q \in Seq(K), NEW h \in 0 .. Len(q) - 1, NEW d \in 0 .. Len(q), NEW e
  PROVE  e \in Passing(q, h, d) <=>
           \E n \in 0 .. Len(q) - 1 : q[n + 1] = e /\ PassedOver(Len(q), h, d, n)
<1>0. PICK l : l = Len(q) /\ l \in Nat
  OBVIOUS
<1>1. ASSUME NEW i \in 0 .. d - 1
      PROVE  \E n \in 0 .. l - 1 : (h + i) % l = n /\ PassedOver(l, h, d, n)
  <2>1. PICK n : n = IF h + i < l THEN h + i ELSE h + i - l
    OBVIOUS
  <2>2. n \in 0 .. l - 1 /\ (h + i = n \/ h + i = n + l) /\ PassedOver(l, h, d, n)
    BY <1>0, <2>1 DEF PassedOver
  <2>3. (h + i) % l = n
    BY <1>0, <2>2, ModSmall
  <2> QED BY <2>2, <2>3
<1>2. ASSUME NEW n \in 0 .. l - 1, PassedOver(l, h, d, n)
      PROVE  \E i \in 0 .. d - 1 : (h + i) % l = n
  <2>1. PICK i : i = IF h <= n THEN n - h ELSE n - h + l
    OBVIOUS
  <2>2. i \in 0 .. d - 1 /\ (h + i = n \/ h + i = n + l)
    BY <1>0, <1>2, <2>1 DEF PassedOver
  <2>3. (h + i) % l = n
    BY <1>0, <2>2, ModSmall
  <2> QED BY <2>2, <2>3
<1>3. ASSUME NEW i \in 0 .. d - 1, e = Slot(q, h, i)
      PROVE  \E n \in 0 .. l - 1 : q[n + 1] = e /\ PassedOver(l, h, d, n)
  <2>1. PICK n \in 0 .. l - 1 : (h + i) % l = n /\ PassedOver(l, h, d, n)
    BY <1>1
  <2>2. e = q[n + 1]
    BY <1>0, <1>3, <2>1 DEF Slot
  <2> QED BY <2>1, <2>2
<1>4. ASSUME NEW n \in 0 .. l - 1, q[n + 1] = e, PassedOver(l, h, d, n)
      PROVE  \E i \in 0 .. d - 1 : e = Slot(q, h, i)
  <2>1. PICK i \in 0 .. d - 1 : (h + i) % l = n
    BY <1>2, <1>4
  <2>2. e = Slot(q, h, i)
    BY <1>0, <1>4, <2>1 DEF Slot
  <2> QED BY <2>2
<1> QED BY <1>0, <1>3, <1>4 DEF Passing

\* Sets of keys that leave out one key or two.
LEMMA KeyCount ==
  ASSUME IsFiniteSet(Keys), NEW A \in SUBSET Keys, NEW k \in Keys, k \notin A
  PROVE  /\ N \in Nat /\ Cardinality(A) \in Nat
         /\ Cardinality(A) <= N - 1
         /\ Cardinality(A) = N - 1 => A = Keys \ {k}
         /\ \A v \in Keys : v # k /\ v \notin A => Cardinality(A) <= N - 2
<1>1. /\ IsFiniteSet(Keys \ {k}) /\ Cardinality(Keys \ {k}) = N - 1 /\ N \in Nat
  BY FS_RemoveElement, FS_CardinalityType DEF N
<1>2. A \in SUBSET (Keys \ {k})
  OBVIOUS
<1>3. /\ IsFiniteSet(A) /\ Cardinality(A) <= N - 1
      /\ Cardinality(A) = N - 1 => A = Keys \ {k}
  BY <1>1, <1>2, FS_Subset
<1>4. Cardinality(A) \in Nat
  BY <1>3, FS_CardinalityType
<1>5. ASSUME NEW v \in Keys, v # k, v \notin A PROVE Cardinality(A) <= N - 2
  <2>1. A # Keys \ {k}
    BY <1>5
  <2> QED BY <1>1, <1>3, <1>4, <2>1
<1> QED BY <1>1, <1>3, <1>4, <1>5

LEMMA Fewer ==
  ASSUME IsFiniteSet(Keys), NEW A \in SUBSET Keys, NEW B \in SUBSET A
  PROVE  /\ Cardinality(A) \in Nat /\ Cardinality(B) \in Nat
         /\ Cardinality(B) <= Cardinality(A)
         /\ Cardinality(B) = Cardinality(A) => B = A
<1>1. IsFiniteSet(A)
  BY FS_Subset
<1> QED BY <1>1, FS_Subset, FS_CardinalityType

LEMMA NIsNat ==
  ASSUME IsFiniteSet(Keys)
  PROVE  N \in Nat
BY FS_CardinalityType DEF N

\* A step that adds nothing to what is due before k.
LEMMA TurnKept ==
  ASSUME IsFiniteSet(Keys), NEW k, NEW n \in Nat,
         NEW q, NEW h, NEW I, NEW R, Turn(q, h, I, R, n, k), Ahead(q, h, k) \subseteq Keys,
         NEW r, NEW g, NEW J, NEW S,
         k \in S <=> k \in R,
         Due(r, g, S, k) \subseteq Due(q, h, R, k),
         /\ Due(r, g, S, k) = Due(q, h, R, k)
         /\ Ahead(q, h, k) = I \ R
         /\ InFront(q, h, k)
         => Ahead(r, g, k) = J \ S /\ InFront(r, g, k)
  PROVE  Turn(r, g, J, S, n, k)
<1>1. PICK A, B : A = Due(q, h, R, k) /\ B = Due(r, g, S, k)
  OBVIOUS
<1>2. A \in SUBSET Keys /\ B \in SUBSET A
  BY <1>1 DEF Due
<1>3. PICK a, b, m : a = Cardinality(A) /\ b = Cardinality(B) /\ m = N
  OBVIOUS
<1>4. a \in Nat /\ b \in Nat /\ b <= a /\ (b = a => B = A) /\ m \in Nat
  BY <1>2, <1>3, Fewer, NIsNat
<1>5. /\ k \in R => n + a <= m - 1 /\ (n + a = m - 1 => Ahead(q, h, k) = I \ R /\ InFront(q, h, k))
      /\ k \notin R => n + a <= 2 * m - 3
  BY <1>1, <1>3 DEF Turn
<1>6. CASE k \in R
  <2>1. n + b <= m - 1
    BY <1>4, <1>5, <1>6
  <2>2. ASSUME n + b = m - 1 PROVE Ahead(r, g, k) = J \ S /\ InFront(r, g, k)
    <3>1. n + a = m - 1 /\ b = a
      BY <1>4, <1>5, <1>6, <2>2
    <3> QED BY <1>1, <1>4, <1>5, <1>6, <3>1
  <2> QED BY <1>1, <1>3, <1>6, <2>1, <2>2 DEF Turn
<1>7. CASE k \notin R
  <2>1. n + b <= 2 * m - 3
    BY <1>4, <1>5, <1>7
  <2> QED BY <1>1, <1>3, <1>7, <2>1 DEF Turn
<1> QED BY <1>6, <1>7

\* A Push of k gives it a new turn.
LEMMA TurnOfPushed ==
  ASSUME IsFiniteSet(Keys), NEW k \in Keys,
         NEW r, NEW g, NEW J, NEW S, k \in S,
         k \in J, J \subseteq Keys, Ahead(r, g, k) \subseteq J \ {k},
         Ahead(r, g, k) = Keys \ {k} /\ S \cap Keys = {k} => InFront(r, g, k)
  PROVE  Turn(r, g, J, S, 0, k)
<1>1. PICK B : B = Due(r, g, S, k)
  OBVIOUS
<1>2. B \in SUBSET Keys /\ k \notin B
  BY <1>1 DEF Due
<1>3. PICK b, m : b = Cardinality(B) /\ m = N
  OBVIOUS
<1>4. b \in Nat /\ m \in Nat /\ b <= m - 1 /\ (b = m - 1 => B = Keys \ {k})
  BY <1>2, <1>3, KeyCount
<1>5. 0 + b = b
  BY <1>4
<1>6. ASSUME b = m - 1 PROVE Ahead(r, g, k) = J \ S /\ InFront(r, g, k)
  <2>1. B = Keys \ {k}
    BY <1>4, <1>6
  <2>2. Ahead(r, g, k) = Keys \ {k} /\ J = Keys /\ S \cap Keys = {k}
    BY <1>1, <2>1 DEF Due
  <2> QED BY <2>2
<1> QED BY <1>1, <1>3, <1>4, <1>5, <1>6 DEF Turn

\* What ClockInv says of the ring, as facts about values.
LEMMA RingFacts ==
  ASSUME ClockInv, NEW k \in inRing
  PROVE  /\ ring \in Seq(Keys) /\ IsInjective(ring) /\ k \in ToSet(ring) /\ ToSet(ring) = inRing
         /\ Len(ring) \in Nat /\ head \in Nat /\ head \in 0 .. Len(ring) - 1
         /\ k \in Keys /\ inRing \subseteq Keys /\ ref \subseteq inRing
         /\ Ahead(ring, head, k) \subseteq inRing \ {k}
<1>1. /\ ring \in Seq(Keys) /\ IsInjective(ring) /\ ToSet(ring) = inRing
      /\ head \in Nat /\ ref \subseteq inRing
  BY DEF ClockInv
<1>2. inRing \subseteq Keys
  BY <1>1 DEF ToSet
<1>3. Ahead(ring, head, k) \subseteq inRing \ {k}
  BY <1>1, NotAheadOfItself
<1>4. head < Len(ring) /\ Len(ring) \in Nat
  <2>1. ring # <<>>
    BY <1>1 DEF ToSet
  <2> QED BY <1>1, <2>1 DEF ClockInv
<1>5. head \in 0 .. Len(ring) - 1
  BY ONLY <1>1, <1>4
<1> QED BY <1>1, <1>2, <1>3, <1>4, <1>5

LEMMA ChancePush ==
  ASSUME IsFiniteSet(Keys), ClockInv, ChanceInv, NEW k \in Keys, Clock!Push(k)
  PROVE  ChanceInv'
<1>1. /\ ring' = IF k \in inRing THEN ring ELSE Append(ring, k)
      /\ inRing' = inRing \cup {k}
      /\ ref' = ref \cup {k}
      /\ survived' = [survived EXCEPT ![k] = 0]
      /\ head' = head
  BY DEF Clock!Push
<1>2. survived' \in [Keys -> Nat] /\ ref' # {} /\ \A j \in Keys \ inRing' : survived'[j] = 0
  BY <1>1 DEF ChanceInv
<1>3. PICK q, h, I, R, r, J, S :
        /\ q = ring /\ h = head /\ I = inRing /\ R = ref
        /\ r = ring' /\ J = inRing' /\ S = ref'
  OBVIOUS
<1>4. q \in Seq(Keys) /\ IsInjective(q) /\ ToSet(q) = I /\ R \subseteq I /\ h \in Nat /\ I \subseteq Keys
  <2>1. q \in Seq(Keys) /\ IsInjective(q) /\ ToSet(q) = I /\ R \subseteq I /\ h \in Nat
    BY <1>3 DEF ClockInv
  <2> QED BY <2>1 DEF ToSet
<1>5. r = (IF k \in I THEN q ELSE Append(q, k)) /\ J = I \cup {k} /\ S = R \cup {k}
  BY <1>1, <1>3
<1>6. ASSUME NEW j \in I, j # k PROVE Turn(r, h, J, S, survived[j], j)
  <2>1. Turn(q, h, I, R, survived[j], j) /\ survived[j] \in Nat
    BY <1>3, <1>4, <1>6 DEF ChanceInv
  <2>2. Ahead(q, h, j) \subseteq Keys
    BY <1>3, <1>4, <1>6, RingFacts
  <2>3. j \in S <=> j \in R
    BY <1>5, <1>6
  <2>4. CASE k \in I
    <3>1. r = q /\ J = I
      BY <1>5, <2>4
    <3>2. Due(r, h, S, j) \subseteq Due(q, h, R, j)
      BY <1>5, <3>1 DEF Due
    <3>3. ASSUME Due(r, h, S, j) = Due(q, h, R, j), Ahead(q, h, j) = I \ R, InFront(q, h, j)
          PROVE  Ahead(r, h, j) = J \ S /\ InFront(r, h, j)
      <4>1. k \in R
        BY <1>5, <2>4, <3>1, <3>3 DEF Due
      <4> QED BY <1>5, <3>1, <3>3, <4>1
    <3> QED BY <2>1, <2>2, <2>3, <3>2, <3>3, TurnKept
  <2>5. CASE k \notin I
    <3>1. /\ Ahead(r, h, j) \subseteq Ahead(q, h, j) \cup {k}
          /\ InFront(q, h, j) => InFront(r, h, j) /\ Ahead(r, h, j) = Ahead(q, h, j)
      <4>1. k \notin ToSet(q) /\ j \in ToSet(q) /\ r = Append(q, k)
        BY <1>4, <1>5, <1>6, <2>5
      <4>2. NewSlotKeeps(q, h, k, r, j)
        BY ONLY <1>4, <4>1, AheadAppend
      <4> QED BY ONLY <4>2 DEF NewSlotKeeps
    <3>2. Due(r, h, S, j) \subseteq Due(q, h, R, j)
      BY <1>5, <3>1 DEF Due
    <3>3. ASSUME Due(r, h, S, j) = Due(q, h, R, j), Ahead(q, h, j) = I \ R, InFront(q, h, j)
          PROVE  Ahead(r, h, j) = J \ S /\ InFront(r, h, j)
      BY <1>5, <2>5, <3>1, <3>3
    <3> QED BY <2>1, <2>2, <2>3, <3>2, <3>3, TurnKept
  <2> QED BY <2>4, <2>5
<1>7. Turn(r, h, J, S, 0, k)
  <2>1. k \in S /\ k \in J /\ J \subseteq Keys
    BY <1>4, <1>5
  <2>2. Ahead(r, h, k) \subseteq J \ {k}
    <3>1. r \in Seq(Keys) /\ IsInjective(r) /\ ToSet(r) = J
      <4>1. CASE k \in I
        BY <1>4, <1>5, <4>1
      <4>2. CASE k \notin I
        BY <1>4, <1>5, <4>2, AppendToInjective
      <4> QED BY <4>1, <4>2
    <3> QED BY <1>4, <2>1, <3>1, NotAheadOfItself
  <2>3. CASE k \notin I
    <3>1. InFront(r, h, k)
      <4>1. r[Len(q) + 1] = k /\ Len(r) = Len(q) + 1 /\ Len(q) \in Nat
        BY <1>4, <1>5, <2>3, AppendIs
      <4>2. h <= Len(q)
        BY <1>3, <4>1 DEF ClockInv
      <4>3. Len(q) \in 0 .. Len(r) - 1
        BY ONLY <4>1
      <4> QED BY <4>1, <4>2, <4>3 DEF InFront
    <3> QED BY <2>1, <2>2, <3>1, TurnOfPushed
  <2>4. CASE k \in I /\ k \notin R
    <3>1. ~(Ahead(r, h, k) = Keys \ {k} /\ S \cap Keys = {k})
      <4>1. I = Keys => R # {}
        BY <1>3 DEF ChanceInv
      <4> QED BY <1>4, <1>5, <2>2, <2>4, <4>1
    <3> QED BY <2>1, <2>2, <3>1, TurnOfPushed
  <2>5. CASE k \in I /\ k \in R
    <3>1. r = q /\ J = I /\ S = R
      BY <1>5, <2>5
    <3>2. PICK b, n, m : b = Cardinality(Due(q, h, R, k)) /\ n = survived[k] /\ m = N
      OBVIOUS
    <3>3. b \in Nat /\ n \in Nat /\ m \in Nat
      <4>1. Due(q, h, R, k) \in SUBSET Keys
        BY <2>1, <2>2, <3>1 DEF Due
      <4> QED BY <3>2, <4>1, Fewer, NIsNat DEF ChanceInv
    <3>4. n + b <= m - 1 /\ (n + b = m - 1 => Ahead(q, h, k) = I \ R /\ InFront(q, h, k))
      BY <1>3, <2>5, <3>2 DEF ChanceInv, Turn
    <3>5. 0 + b <= m - 1 /\ (0 + b = m - 1 => n + b = m - 1)
      BY <3>3, <3>4
    <3> QED BY <2>5, <3>1, <3>2, <3>4, <3>5 DEF Turn
  <2> QED BY <2>3, <2>4, <2>5
<1>8. ASSUME NEW j \in inRing' PROVE Turn(ring', head', inRing', ref', survived'[j], j)
  <2>1. CASE j = k
    BY <1>1, <1>3, <1>7, <2>1 DEF ChanceInv
  <2>2. CASE j # k
    <3>1. j \in I /\ survived'[j] = survived[j]
      BY <1>1, <1>3, <1>8, <2>2 DEF ChanceInv
    <3> QED BY <1>1, <1>3, <1>6, <2>2, <3>1
  <2> QED BY <2>1, <2>2
<1> QED BY <1>2, <1>8 DEF ChanceInv

LEMMA ChanceDelete ==
  ASSUME IsFiniteSet(Keys), ClockInv, ChanceInv, NEW k \in Keys, Clock!Delete(k)
  PROVE  ChanceInv'
<1>1. inRing' = inRing \ {k} /\ ref' = ref \ {k} /\ survived' = [survived EXCEPT ![k] = 0]
  BY DEF Clock!Delete
<1>2. /\ survived' \in [Keys -> Nat] /\ inRing' # Keys
      /\ \A j \in Keys \ inRing' : survived'[j] = 0
  BY <1>1 DEF ChanceInv
<1>3. PICK q, h, I, R, r, g, J, S :
        /\ q = ring /\ h = head /\ I = inRing /\ R = ref
        /\ r = ring' /\ g = head' /\ J = inRing' /\ S = ref'
  OBVIOUS
<1>4. ASSUME NEW j \in J
      PROVE  Turn(r, g, J, S, survived'[j], j)
  <2>1. j \in I /\ j # k /\ survived'[j] = survived[j] /\ survived[j] \in Nat
    <3>1. j \in I /\ j # k /\ j \in Keys
      BY <1>1, <1>3, <1>4, RingFacts
    <3> QED BY <1>1, <3>1 DEF ChanceInv
  <2>2. /\ q \in Seq(Keys) /\ IsInjective(q) /\ j \in ToSet(q) /\ h \in 0 .. Len(q) - 1
        /\ Ahead(q, h, j) \subseteq Keys /\ R \subseteq I
    BY <1>3, <2>1, RingFacts
  <2>3. Turn(q, h, I, R, survived[j], j)
    BY <1>3, <2>1 DEF ChanceInv
  <2>4. Ahead(r, g, j) = Ahead(q, h, j) \ {k} /\ (InFront(q, h, j) => InFront(r, g, j))
    <3>1. CASE k \in inRing
      <4>1. PICK i \in 0 .. Len(ring) - 1 :
              /\ ring[i + 1] = k
              /\ ring' = RemoveAt(ring, i + 1)
              /\ head' = HandWithout(Len(ring), head, i)
        BY <3>1, DeleteIs
      <4>2. /\ i \in 0 .. Len(q) - 1 /\ k = q[i + 1] /\ r = RemoveAt(q, i + 1)
            /\ g = HandWithout(Len(q), h, i)
        BY <1>3, <4>1
      <4> QED BY ONLY <2>1, <2>2, <4>2, AheadWithout
    <3>2. CASE k \notin inRing
      <4>1. r = q /\ g = h
        BY <1>3, <3>2 DEF Clock!Delete
      <4>2. k \notin Ahead(q, h, j)
        BY <1>3, <2>1, <3>2, RingFacts
      <4> QED BY <4>1, <4>2
    <3> QED BY <3>1, <3>2
  <2>5. j \in S <=> j \in R
    BY <1>1, <1>3, <2>1
  <2>6. Due(r, g, S, j) \subseteq Due(q, h, R, j)
    BY <1>1, <1>3, <2>4 DEF Due
  <2>7. ASSUME Due(r, g, S, j) = Due(q, h, R, j), Ahead(q, h, j) = I \ R, InFront(q, h, j)
        PROVE  Ahead(r, g, j) = J \ S /\ InFront(r, g, j)
    BY <1>1, <1>3, <2>4, <2>7
  <2> QED BY <2>1, <2>2, <2>3, <2>5, <2>6, <2>7, TurnKept
<1> QED BY <1>2, <1>3, <1>4 DEF ChanceInv

\* The hand stops short of k: the victim was due before k.
DueGoes(q, h, R, v, P, r, g, k) ==
  /\ v \in Due(q, h, R, k)
  /\ P \subseteq Ahead(q, h, k) \cap R
  /\ Due(r, g, R \ P, k) \subseteq Due(q, h, R, k) \ {v}
  /\ P = {} => Ahead(r, g, k) = Ahead(q, h, k) \ {v}
                 /\ (InFront(q, h, k) => InFront(r, g, k))

LEMMA TurnNotPassed ==
  ASSUME NEW q \in Seq(Keys), IsInjective(q), NEW h \in 0 .. Len(q) - 1,
         NEW d \in 0 .. Len(q), NEW s \in 0 .. Len(q) - 1, s = (h + d) % Len(q),
         NEW R, Stops(q, h, R, d), NEW v, v = q[s + 1],
         NEW P, P = Passing(q, h, d),
         NEW r, r = RemoveAt(q, s + 1), NEW g, g = HandWithout(Len(q), s, s),
         NEW k \in ToSet(q), k # v, k \notin P
  PROVE  DueGoes(q, h, R, v, P, r, g, k)
<1>0. PICK l : l = Len(q) /\ l \in Nat /\ h \in Nat /\ s \in Nat
  OBVIOUS
<1>1. PICK c \in 0 .. Len(q) - 1 : q[c + 1] = k
  BY PositionOf
<1>2. \A e : e \in P <=> \E n \in 0 .. l - 1 : q[n + 1] = e /\ PassedOver(l, h, d, n)
  BY <1>0, PassedSlots
<1>3. ~PassedOver(l, h, d, c)
  BY <1>0, <1>1, <1>2
<1>4. /\ s = HandAt(l, h, d)
      /\ d # l
      /\ c # s => Precedes(s, c, h)
      /\ \A i \in 0 .. l - 1 : PassedOver(l, h, d, i) => Precedes(i, c, h)
      /\ \A i \in 0 .. l - 1 : Precedes(i, c, s) => Precedes(i, c, h) /\ ~PassedOver(l, h, d, i)
  <2>1. h \in 0 .. l - 1 /\ d \in 0 .. l /\ c \in 0 .. l - 1 /\ s = (h + d) % l
    BY <1>0
  <2>2. s = HandAt(l, h, d) /\ d # l
    BY ONLY <1>0, <1>3, <2>1, HandAtIs
  <2>3. ASSUME NEW i \in 0 .. l - 1
        PROVE  /\ c # s => Precedes(s, c, h)
               /\ PassedOver(l, h, d, i) => Precedes(i, c, h)
               /\ Precedes(i, c, s) => Precedes(i, c, h) /\ ~PassedOver(l, h, d, i)
    BY ONLY <1>0, <1>3, <2>1, <2>2, <2>3, Rotation
  <2> QED BY <2>1, <2>2, <2>3
<1>5. /\ \A e : e \in Ahead(q, h, k) <=> Before(q, h, c, e)
      /\ \A e : e \in Ahead(q, s, k) <=> Before(q, s, c, e)
      /\ InFront(q, h, k) <=> h <= c
  BY <1>0, <1>1, AheadAt
<1>6. /\ Ahead(r, g, k) = Ahead(q, s, k) \ {v}
      /\ InFront(q, s, k) => InFront(r, g, k)
  <2>1. /\ v = q[s + 1] /\ r = RemoveAt(q, s + 1) /\ g = HandWithout(Len(q), s, s)
        /\ IsInjective(q) /\ k # v
    OBVIOUS
  <2> QED BY ONLY <2>1, AheadWithout
<1>7. v \in Due(q, h, R, k)
  <2>1. c # s
    BY <1>1
  <2>2. Before(q, h, c, v)
    BY <1>4, <2>1 DEF Before
  <2>3. v \notin R
    <3>1. d < Len(q)
      BY <1>0, <1>4
    <3> QED BY <3>1 DEF Stops, Slot
  <2> QED BY <1>5, <2>2, <2>3 DEF Due
<1>8. P \subseteq Ahead(q, h, k) \cap R
  <2>1. \A e \in P : e \in R
    BY DEF Stops, Passing
  <2>2. ASSUME NEW e \in P PROVE e \in Ahead(q, h, k)
    <3>1. PICK n \in 0 .. l - 1 : q[n + 1] = e /\ PassedOver(l, h, d, n)
      BY <1>2
    <3>2. Before(q, h, c, e)
      BY <1>0, <1>4, <3>1 DEF Before
    <3> QED BY <1>5, <3>2
  <2> QED BY <2>1, <2>2
<1>9. ASSUME NEW e \in Ahead(q, s, k) PROVE e \in Ahead(q, h, k) /\ e \notin P
  <2>1. Before(q, s, c, e)
    BY <1>5
  <2>2. PICK i \in 0 .. Len(q) - 1 : q[i + 1] = e /\ Precedes(i, c, s)
    BY <2>1 DEF Before
  <2>3. Precedes(i, c, h) /\ ~PassedOver(l, h, d, i)
    BY <1>0, <1>4, <2>2
  <2>4. Before(q, h, c, e)
    BY <2>2, <2>3 DEF Before
  <2>5. ASSUME e \in P PROVE FALSE
    <3>1. PICK n \in 0 .. l - 1 : q[n + 1] = e /\ PassedOver(l, h, d, n)
      BY <1>2, <2>5
    <3>2. n = i
      BY <1>0, <2>2, <3>1, SamePosition
    <3> QED BY <2>3, <3>1, <3>2
  <2> QED BY <1>5, <2>4, <2>5
<1>10. Due(r, g, R \ P, k) \subseteq Due(q, h, R, k) \ {v}
  BY <1>6, <1>9 DEF Due
<1>11. ASSUME P = {} PROVE s = h
  <2>1. d = 0
    <3>1. ASSUME d # 0 PROVE FALSE
      <4>1. 0 \in 0 .. d - 1
        BY <3>1
      <4> QED BY <1>11, <4>1 DEF Passing
    <3> QED BY <3>1
  <2> QED BY <1>0, <1>4, <2>1 DEF HandAt
<1> QED BY <1>6, <1>7, <1>8, <1>10, <1>11 DEF DueGoes

\* The hand passes k: there was nothing due before k, and if N - 1 picks had
\* been, k would have been the victim.
LEMMA TurnPassed ==
  ASSUME NEW q \in Seq(Keys), IsInjective(q), NEW h \in 0 .. Len(q) - 1,
         NEW d \in 0 .. Len(q), NEW s \in 0 .. Len(q) - 1, s = (h + d) % Len(q),
         NEW R, Stops(q, h, R, d), NEW v, v = q[s + 1],
         NEW P, P = Passing(q, h, d),
         NEW k \in P
  PROVE  /\ k \in R
         /\ Due(q, h, R, k) = {}
         /\ Ahead(q, h, k) = ToSet(q) \ R => v = k
<1>0. PICK l : l = Len(q) /\ l \in Nat /\ h \in Nat /\ h \in 0 .. l - 1 /\ d \in 0 .. l
  OBVIOUS
<1>1. \A e : e \in P <=> \E n \in 0 .. l - 1 : q[n + 1] = e /\ PassedOver(l, h, d, n)
  BY <1>0, PassedSlots
<1>2. PICK c \in 0 .. l - 1 : q[c + 1] = k /\ PassedOver(l, h, d, c)
  BY <1>1
<1>3. P \subseteq R
  BY DEF Stops, Passing
<1>4. \A i \in 0 .. l - 1 : Precedes(i, c, h) => PassedOver(l, h, d, i)
  <2>1. ASSUME NEW i \in 0 .. l - 1, Precedes(i, c, h) PROVE PassedOver(l, h, d, i)
    BY ONLY <1>0, <1>2, <2>1, Rotation
  <2> QED BY <2>1
<1>5. \A e : e \in Ahead(q, h, k) <=> Before(q, h, c, e)
  BY <1>0, <1>2, AheadAt
<1>6. ASSUME NEW e \in Ahead(q, h, k) PROVE e \in P
  <2>1. Before(q, h, c, e)
    BY <1>5
  <2>2. PICK i \in 0 .. Len(q) - 1 : q[i + 1] = e /\ Precedes(i, c, h)
    BY <2>1 DEF Before
  <2> QED BY <1>0, <1>1, <1>4, <2>2
<1>7. Due(q, h, R, k) = {}
  BY <1>3, <1>6 DEF Due
<1>8. ASSUME Ahead(q, h, k) = ToSet(q) \ R PROVE v = k
  <2>1. Ahead(q, h, k) = {} /\ ToSet(q) \subseteq R
    BY <1>3, <1>6, <1>8
  <2>2. c = h
    <3>1. ASSUME c # h PROVE FALSE
      <4>1. Precedes(h, c, h)
        BY <1>0, <3>1 DEF Precedes
      <4>2. Before(q, h, c, q[h + 1])
        BY <4>1 DEF Before
      <4> QED BY <1>5, <2>1, <4>2
    <3> QED BY <3>1
  <2>3. d = l
    <3>1. v \in ToSet(q) /\ v = Slot(q, h, d)
      <4>1. s + 1 \in DOMAIN q
        OBVIOUS
      <4> QED BY <4>1 DEF ToSet, Slot
    <3>2. ~(d < Len(q))
      BY <2>1, <3>1 DEF Stops
    <3> QED BY <1>0, <3>2
  <2>4. s = h
    BY <1>0, <2>3, ModSmall
  <2> QED BY <1>2, <2>2, <2>4
<1> QED BY <1>3, <1>7, <1>8

LEMMA ChancePick ==
  ASSUME IsFiniteSet(Keys), N > 1, ClockInv, ChanceInv, Clock!PickVictim
  PROVE  ChanceInv'
<1>1. CASE ring = <<>>
  BY <1>1 DEF Clock!PickVictim, ChanceInv
<1>2. CASE ring # <<>>
  <2>1. PICK d \in 0 .. Len(ring), s \in 0 .. Len(ring) - 1 :
          /\ Stops(ring, head, ref, d)
          /\ s = (head + d) % Len(ring)
          /\ clockPicked' = ring[s + 1]
          /\ ring' = RemoveAt(ring, s + 1)
          /\ inRing' = inRing \ {ring[s + 1]}
          /\ ref' = ref \ Passing(ring, head, d)
          /\ head' = HandWithout(Len(ring), s, s)
    BY <1>2, PickIs
  <2>2. survived' = [j \in Keys |-> IF j \in inRing' THEN survived[j] + 1 ELSE 0]
    BY <1>2 DEF Clock!PickVictim
  <2>3. PICK q, h, I, R, r, g, J, S, v, P :
          /\ q = ring /\ h = head /\ I = inRing /\ R = ref
          /\ r = ring' /\ g = head' /\ J = inRing' /\ S = ref'
          /\ v = ring[s + 1] /\ P = Passing(ring, head, d)
    OBVIOUS
  <2>4. /\ q \in Seq(Keys) /\ IsInjective(q) /\ ToSet(q) = I /\ Len(q) \in Nat
        /\ h \in 0 .. Len(q) - 1
        /\ d \in 0 .. Len(q) /\ s \in 0 .. Len(q) - 1 /\ s = (h + d) % Len(q)
        /\ Stops(q, h, R, d) /\ v = q[s + 1]
        /\ P = Passing(q, h, d)
        /\ r = RemoveAt(q, s + 1) /\ g = HandWithout(Len(q), s, s)
        /\ J = I \ {v} /\ S = R \ P
    BY <1>2, <2>1, <2>3, PickIs DEF ClockInv
  <2>5. v \in Keys /\ I \subseteq Keys
    <3>1. s + 1 \in DOMAIN q
      BY <2>4
    <3> QED BY <2>4, <3>1 DEF ToSet
  <2>6. /\ survived' \in [Keys -> Nat]
        /\ inRing' # Keys
        /\ \A j \in Keys \ inRing' : survived'[j] = 0
    <3>1. \A j \in Keys : survived[j] \in Nat
      BY DEF ChanceInv
    <3>2. \A j \in Keys : survived[j] + 1 \in Nat
      BY <3>1
    <3>3. survived' \in [Keys -> Nat] /\ \A j \in Keys \ inRing' : survived'[j] = 0
      BY <2>2, <3>2
    <3> QED BY <2>3, <2>4, <2>5, <3>3
  <2>7. ASSUME NEW k \in J PROVE Turn(r, g, J, S, survived'[k], k)
    <3>1. k \in I /\ k # v /\ k \in Keys /\ k \in ToSet(q)
      BY <2>4, <2>5, <2>7
    <3>2. PICK n, m : n = survived[k] /\ m = N
      OBVIOUS
    <3>3. /\ survived'[k] = n + 1 /\ n \in Nat /\ m \in Nat /\ m > 1
          /\ Turn(q, h, I, R, n, k)
      BY <2>2, <2>3, <2>7, <3>1, <3>2, NIsNat DEF ChanceInv
    <3>4. /\ Ahead(q, h, k) \subseteq Keys
          /\ Due(q, h, R, k) \in SUBSET Keys
      BY <2>3, <3>1, RingFacts DEF Due
    <3>5. r \in Seq(Keys) /\ IsInjective(r) /\ ToSet(r) = J
      <4>1. PICK p : p = s + 1 /\ p \in 1 .. Len(q)
        BY <2>4
      <4>2. r = RemoveAt(q, p) /\ v = q[p]
        BY <2>4, <4>1
      <4>3. r \in Seq(Keys)
        BY ONLY <2>4, <4>1, <4>2, RemoveAtIs
      <4>4. IsInjective(r) /\ ToSet(r) = ToSet(q) \ {q[p]}
        BY ONLY <2>4, <4>1, <4>2, RemoveAtOfInjective
      <4> QED BY <2>4, <4>2, <4>3, <4>4
    <3>6. Due(r, g, S, k) \subseteq J \ {k}
      <4>1. g \in Nat
        BY <2>4, HandStays
      <4> QED BY <2>7, <3>5, <4>1, NotAheadOfItself DEF Due
    <3>7. PICK a, b : a = Cardinality(Due(q, h, R, k)) /\ b = Cardinality(Due(r, g, S, k))
      OBVIOUS
    <3>8. CASE k \notin P
      <4>1. /\ v \in Due(q, h, R, k)
            /\ P \subseteq Ahead(q, h, k) \cap R
            /\ Due(r, g, R \ P, k) \subseteq Due(q, h, R, k) \ {v}
            /\ P = {} => Ahead(r, g, k) = Ahead(q, h, k) \ {v}
                           /\ (InFront(q, h, k) => InFront(r, g, k))
        <5>1. DueGoes(q, h, R, v, P, r, g, k)
          BY ONLY <2>4, <3>1, <3>8, TurnNotPassed
        <5> QED BY ONLY <5>1 DEF DueGoes
      <4>2. a \in Nat /\ b \in Nat /\ b <= a - 1
        <5>1. PICK A, B : A = Due(q, h, R, k) /\ B = Due(r, g, S, k)
          OBVIOUS
        <5>2. A \in SUBSET Keys /\ B \in SUBSET A /\ B # A
          BY <2>4, <3>4, <4>1, <5>1
        <5>3. /\ Cardinality(A) \in Nat /\ Cardinality(B) \in Nat
              /\ Cardinality(B) <= Cardinality(A)
              /\ Cardinality(B) # Cardinality(A)
          BY <5>2, Fewer
        <5> QED BY <3>7, <5>1, <5>3
      <4>3. k \in S <=> k \in R
        BY <2>4, <3>8
      <4>4. CASE k \in R
        <5>1. /\ n + a <= m - 1
              /\ n + a = m - 1 => Ahead(q, h, k) = I \ R /\ InFront(q, h, k)
          BY <3>2, <3>3, <3>7, <4>4 DEF Turn
        <5>2. (n + 1) + b <= m - 1 /\ ((n + 1) + b = m - 1 => n + a = m - 1)
          BY <3>3, <4>2, <5>1
        <5>3. ASSUME n + a = m - 1 PROVE Ahead(r, g, k) = J \ S /\ InFront(r, g, k)
          <6>1. Ahead(q, h, k) = I \ R /\ InFront(q, h, k)
            BY <5>1, <5>3
          <6>2. P = {}
            BY <4>1, <6>1
          <6> QED BY <2>4, <4>1, <6>1, <6>2
        <5> QED BY <3>2, <3>3, <3>7, <4>3, <4>4, <5>2, <5>3 DEF Turn
      <4>5. CASE k \notin R
        <5>1. n + a <= 2 * m - 3
          BY <3>2, <3>3, <3>7, <4>5 DEF Turn
        <5>2. (n + 1) + b <= 2 * m - 3
          BY <3>3, <4>2, <5>1
        <5> QED BY <3>2, <3>3, <3>7, <4>3, <4>5, <5>2 DEF Turn
      <4> QED BY <4>4, <4>5
    <3>9. CASE k \in P
      <4>1. /\ k \in R
            /\ Due(q, h, R, k) = {}
            /\ Ahead(q, h, k) = ToSet(q) \ R => v = k
        BY ONLY <2>4, <3>1, <3>9, TurnPassed
      <4>2. a = 0
        BY <3>7, <4>1, FS_EmptySet
      <4>3. n + a <= m - 1 /\ n + a # m - 1
        BY <2>4, <3>1, <3>2, <3>3, <3>7, <4>1 DEF Turn
      <4>4. b \in Nat /\ b <= m - 2
        <5>1. PICK B : B = Due(r, g, S, k)
          OBVIOUS
        <5>2. B \in SUBSET Keys /\ k \notin B /\ v \notin B
          BY <2>4, <2>5, <3>6, <5>1
        <5>3. Cardinality(B) \in Nat /\ Cardinality(B) <= N - 2
          BY <2>5, <3>1, <5>2, KeyCount
        <5> QED BY <3>2, <3>7, <5>1, <5>3
      <4>5. (n + 1) + b <= 2 * m - 3
        BY <3>3, <4>2, <4>3, <4>4
      <4>6. k \notin S
        BY <2>4, <3>9
      <4> QED BY <3>2, <3>3, <3>7, <4>5, <4>6 DEF Turn
    <3> QED BY <3>8, <3>9
  <2> QED BY <2>3, <2>6, <2>7 DEF ChanceInv
<1> QED BY <1>1, <1>2

LEMMA ChanceInit ==
  ASSUME N > 1, Init
  PROVE  ChanceInv
<1>1. inRing = {} /\ survived = [k \in Keys |-> 0]
  BY DEF Init, Clock!Init
<1>2. Keys # {}
  BY FS_EmptySet DEF N
<1> QED BY <1>1, <1>2 DEF ChanceInv

(* ClockReplacer starves no slot: however the others are pushed, deleted and
   picked, a slot that is not pushed again survives at most 2N - 3 picks, of N
   pages, before it is the victim or is deleted. *)
THEOREM NoSlotStarves ==
  ASSUME IsFiniteSet(Keys), N > 1
  PROVE  Spec => []NoStarvation
<1>1. Init => ChanceInv
  BY ChanceInit
<1>2. ASSUME Inv, ChanceInv, [Next]_vars PROVE ChanceInv'
  <2>1. ASSUME NEW k \in Keys, Clock!Push(k) PROVE ChanceInv'
    BY <1>2, <2>1, ChancePush DEF Inv
  <2>2. ASSUME NEW k \in Keys, Clock!Delete(k) PROVE ChanceInv'
    BY <1>2, <2>2, ChanceDelete DEF Inv
  <2>3. CASE Clock!PickVictim
    BY <1>2, <2>3, ChancePick DEF Inv
  <2>4. CASE UNCHANGED vars
    BY <1>2, <2>4 DEF vars, Clock!vars, ChanceInv
  <2> QED BY <1>2, <2>1, <2>2, <2>3, <2>4 DEF Next
<1>3. ASSUME Inv, ChanceInv PROVE NoStarvation
  <2>1. ASSUME NEW k \in Keys PROVE survived[k] <= 2 * Cardinality(Keys) - 3
    <3>1. PICK n, m, b : /\ n = survived[k] /\ m = Cardinality(Keys)
                         /\ b = Cardinality(Due(ring, head, ref, k))
      OBVIOUS
    <3>2. n \in Nat /\ m \in Nat /\ m > 1
      BY <1>3, <2>1, <3>1, NIsNat DEF ChanceInv, N
    <3>3. CASE k \notin inRing
      <4>1. n = 0
        BY <1>3, <2>1, <3>1, <3>3 DEF ChanceInv
      <4>2. n <= 2 * m - 3
        BY <3>2, <4>1
      <4> QED BY <3>1, <4>2
    <3>4. CASE k \in inRing
      <4>1. Turn(ring, head, inRing, ref, n, k)
        BY <1>3, <3>1, <3>4 DEF ChanceInv
      <4>2. n + b <= m - 1 \/ n + b <= 2 * m - 3
        BY <3>1, <4>1 DEF Turn, N
      <4>3. b \in Nat
        <5>1. Due(ring, head, ref, k) \in SUBSET Keys
          BY <1>3, <3>4, RingFacts DEF Due, Inv
        <5> QED BY <3>1, <5>1, Fewer
      <4>4. n <= 2 * m - 3
        BY <3>2, <4>2, <4>3
      <4> QED BY <3>1, <4>4
    <3> QED BY <3>3, <3>4
  <2> QED BY <2>1 DEF NoStarvation, Clock!NoStarvation, Clock!Cardinality, Cardinality
<1> QED BY <1>1, <1>2, <1>3, ReplacersInvariant, PTL DEF Spec
=============================================================================
