--------------------------- MODULE DiskBTreeIndex ---------------------------
(***************************************************************************)
(* DiskBTreeIndex: a B+-tree in a page file.  Page 0 holds the meta data,  *)
(* every other page a node; leaves map a key to the list of its TIDs and   *)
(* are chained to the right.                                               *)
(*                                                                         *)
(* Insert, Search and RangeSearch hold idx.mu from start to end.  An       *)
(* Insert that splits writes several nodes; each writeNode is a step,      *)
(* since any of them may fail and leave the others done.  The pool is what *)
(* PageStore promises.                                                     *)
(*                                                                         *)
(* A restart is an orderly one, between two statements, and loses only     *)
(* what was never handed to UpdatePage.  A panic ends the process, and the *)
(* behaviour: what a start finds after it is not modelled.                 *)
(***************************************************************************)
EXTENDS Integers, Sequences, FiniteSets, SequencesExt

CONSTANTS Keys,         \* a set of integers
          KeySize,      \* keySize, [Keys -> Nat]; VARCHAR keys differ in size
          CountSize,    \* the TID count of a key in a leaf; 4
          TIDSize,      \* 6
          ChildSize,    \* 4
          Capacity,     \* btreePageCapacity less the node header
          PageBytes,    \* PageSize less the node header: Capacity + 10
          RangeEnds,    \* the keys RangeSearch is asked for; of Keys
          MaxTids,      \* bound on the insertions of a key, [Keys -> Nat]
          MaxInserts,   \* bound on the insertions of a behaviour
          MaxFaults,    \* bound on I/O errors and evictions of fresh pages
          MaxRestarts   \* bound on restarts

ASSUME KeysAssumption == Keys \subseteq Int /\ RangeEnds \subseteq Keys
ASSUME SizesAssumption ==
  /\ KeySize \in [Keys -> Nat \ {0}]
  /\ {CountSize, TIDSize, ChildSize} \subseteq Nat \ {0}
  /\ Capacity \in Nat /\ PageBytes \in Nat /\ Capacity <= PageBytes
ASSUME BoundsAssumption ==
  /\ MaxTids \in [Keys -> Nat]
  /\ {MaxInserts, MaxFaults, MaxRestarts} \subseteq Nat

VARIABLES meta,      \* idx.meta in memory: rootPageID, leftmostLeafID, nextPageID
          store,     \* the pages of the file, as the pool shows them
          fresh,     \* pages made by NewPage and never updated since
          op,        \* the Insert under way, see Idle
          result,    \* how the last Insert ended
          tried,     \* tried[k]: Inserts of key k begun
          acked,     \* history: <<key, n>>, the n-th Insert of key returned nil
          reissued,  \* history: NewPage replaced a page that was in use
          faults,
          restarts

vars == <<meta, store, fresh, op, result, tried, acked, reissued, faults, restarts>>

Nil == -1

\* pc: next step; writes: what is to be written before it, as <<page, node>>
\* or, where the node is read first, <<page, field, value>>; left, key,
\* right: the arguments of insertIntoParent; node: the overfull node that
\* splitLeaf or splitInternal works on; own: the entry being inserted.
Idle == [pc |-> "idle", writes |-> <<>>, own |-> <<>>, left |-> <<>>,
         key |-> 0, right |-> <<>>, node |-> <<>>]

Leaf(parent, left, right, keys, values) ==
  [isLeaf |-> TRUE, parent |-> parent, left |-> left, right |-> right,
   keys |-> keys, values |-> values, children |-> <<>>]
Internal(parent, left, right, keys, children) ==
  [isLeaf |-> FALSE, parent |-> parent, left |-> left, right |-> right,
   keys |-> keys, values |-> <<>>, children |-> children]

\* What readNode makes of a page of zeros.
ZeroNode == Internal(0, 0, 0, <<>>, <<0>>)

-----------------------------------------------------------------------------
(* Pure helpers. *)

\* The binary search of lowerBound and upperBound: the first position
\* (0-based) whose key is not Below.
Bound(keys, Below(_)) ==
  LET search[lo \in 0 .. Len(keys), hi \in 0 .. Len(keys)] ==
        LET mid == (lo + hi) \div 2 IN
        IF lo >= hi THEN lo
        ELSE IF Below(keys[mid + 1]) THEN search[mid + 1, hi] ELSE search[lo, mid]
  IN  search[0, Len(keys)]
lowerBound(keys, key) == Bound(keys, LAMBDA k : k < key)
upperBoundStrict(keys, key) == Bound(keys, LAMBDA k : k < key)
upperBound(keys, key) == Bound(keys, LAMBDA k : k <= key)

\* Bytes behind the node header: what writeNode encodes, and what
\* estimateSize expects of it.
KeyBytes(node) == FoldLeft(LAMBDA sum, k : sum + KeySize[k], 0, node.keys)
TidCount(node) == FoldLeft(LAMBDA sum, tids : sum + Len(tids), 0, node.values)
EncodedSize(node) ==
  KeyBytes(node) + CountSize * Len(node.values) + TIDSize * TidCount(node)
    + ChildSize * Len(node.children)
estimateSize(node) ==
  KeyBytes(node)
    + IF node.isLeaf THEN CountSize * Len(node.values) + TIDSize * TidCount(node)
      ELSE ChildSize * Len(node.children)

NodePages == DOMAIN store \ {0}

\* findLeaf; the depth of a tree is less than its number of pages.
Descend(root, key) ==
  LET at[i \in 0 .. Cardinality(NodePages)] ==
        IF i = 0 THEN root
        ELSE LET p == at[i - 1] IN
             IF store[p].isLeaf THEN p
             ELSE store[p].children[upperBound(store[p].keys, key) + 1]
  IN  at[Cardinality(NodePages)]
findLeaf(key) == Descend(meta.rootPageID, key)

insertIntoLeafAlwaysNew(node, key, tid) ==
  LET pos == lowerBound(node.keys, key) + 1
  IN  [node EXCEPT !.keys = InsertAt(@, pos, key),
                   !.values = InsertAt(@, pos, <<tid>>)]
insertIntoLeaf(node, key, tid) ==
  LET pos == lowerBound(node.keys, key) + 1
  IN  IF pos <= Len(node.keys) /\ node.keys[pos] = key
      THEN [node EXCEPT !.values[pos] = Append(@, tid)]
      ELSE [node EXCEPT !.keys = InsertAt(@, pos, key),
                        !.values = InsertAt(@, pos, <<tid>>)]

Search(key) ==
  LET leaf == store[findLeaf(key)]
      pos == lowerBound(leaf.keys, key) + 1
  IN  IF pos > Len(leaf.keys) \/ leaf.keys[pos] # key THEN <<>>
      ELSE leaf.values[pos]

\* readNode.  Only a chain that a failed split has left behind leads to the
\* meta page: read as a node it is not a leaf, its right sibling is the
\* leftmost leaf, and it has nextPageID keys, all of them zero.
NodeAt(p) ==
  IF p # 0 THEN store[p]
  ELSE Internal(store[0].rootPageID, 0, store[0].leftmostLeafID,
                [i \in 1 .. store[0].nextPageID |-> 0], <<>>)

\* The pages from p on along the right siblings, up to one that is not there.
\* With more pages than the file has the walk goes in circles; it is cut off.
RightChain(p) ==
  LET Right(q) == IF q \in DOMAIN store THEN NodeAt(q).right ELSE Nil
      at[i \in 0 .. Cardinality(DOMAIN store)] ==
        IF i = 0 THEN p ELSE Right(at[i - 1])
  IN  SelectSeq([i \in 1 .. Cardinality(DOMAIN store) + 1 |-> at[i - 1]],
                LAMBDA q : q # Nil)

\* RangeSearch between `from' and `to', each in the form <<key, inclusive>> or
\* <<>> for an open end: from the first leaf to the first key past the end.
AboveFrom(k, from) ==
  from = <<>> \/ k > from[1] \/ (from[2] /\ k = from[1])
BelowTo(k, to) ==
  to = <<>> \/ k < to[1] \/ (to[2] /\ k = to[1])

\* The TIDs, or how the search ends instead: with the error of a page that
\* cannot be read, with a panic at a key that has no TIDs, or never.
RangeSearch(from, to) ==
  LET start == IF from = <<>> THEN meta.leftmostLeafID ELSE findLeaf(from[1])
      chain == RightChain(start)
      pages == SelectSeq(chain, LAMBDA p : p \in DOMAIN store)
      Entries(p) == LET node == NodeAt(p) IN
                    [i \in DOMAIN node.keys |->
                       <<node.keys[i], IF node.isLeaf THEN <<node.values[i]>> ELSE <<>> >>]
      first == IF from = <<>> THEN 0 ELSE lowerBound(store[start].keys, from[1])
      all == FlattenSeq([i \in DOMAIN pages |-> Entries(pages[i])])
      asked == SelectSeq(SubSeq(all, first + 1, Len(all)),
                         LAMBDA e : AboveFrom(e[1], from))
      stop == SelectInSeq(asked, LAMBDA e : ~BelowTo(e[1], to) \/ e[2] = <<>>)
      taken == IF stop = 0 THEN asked ELSE SubSeq(asked, 1, stop - 1)
      ends == CASE stop # 0 /\ ~BelowTo(asked[stop][1], to) -> "answer"
                [] stop # 0 /\ BelowTo(asked[stop][1], to)  -> "panic"
                [] stop = 0 /\ pages # chain                -> "error"
                [] stop = 0 /\ Len(chain) > Cardinality(DOMAIN store) -> "never"
                [] OTHER                                    -> "answer"
  IN  IF from # <<>> /\ to # <<>> /\ from[1] > to[1]
      THEN [ends |-> "answer", tids |-> <<>>]
      ELSE [ends |-> ends,
            tids |-> FlattenSeq([i \in DOMAIN taken |-> taken[i][2][1]])]

-----------------------------------------------------------------------------

\* initializeNew, followed by the flush of its CREATE INDEX.
InitialMeta == [rootPageID |-> 1, leftmostLeafID |-> 1, nextPageID |-> 2]

Init ==
  /\ meta = InitialMeta
  /\ store = [p \in {0, 1} |->
                IF p = 0 THEN InitialMeta ELSE Leaf(Nil, Nil, Nil, <<>>, <<>>)]
  /\ fresh = {}
  /\ op = Idle
  /\ result = "none"
  /\ tried = [k \in Keys |-> 0]
  /\ acked = {}
  /\ reissued = FALSE
  /\ faults = 0
  /\ restarts = 0

-----------------------------------------------------------------------------
(* Insert. *)

Fault == faults < MaxFaults /\ faults' = faults + 1

\* Insert returns an error; what was written stays written.
Fails ==
  /\ op' = Idle
  /\ result' = "error"
  /\ UNCHANGED <<store, fresh, tried, acked, reissued, restarts>>

\* An index out of range, or a nil node: nothing recovers.
Panics ==
  /\ op' = [Idle EXCEPT !.pc = "dead"]
  /\ result' = "panic"
  /\ UNCHANGED <<meta, store, fresh, acked, reissued, restarts>>

\* NewPage(nextPageID++).  It fails on an I/O error and for a page that is in
\* the pool; a page that is only in the file is replaced.
Allocate(next) ==
  LET p == meta.nextPageID IN
  /\ meta' = [meta EXCEPT !.nextPageID = p + 1]
  /\ \/ /\ store' = [q \in DOMAIN store \cup {p} |-> IF q = p THEN ZeroNode ELSE store[q]]
        /\ fresh' = fresh \cup {p}
        /\ reissued' = (reissued \/ p \in DOMAIN store)
        /\ op' = next
        /\ UNCHANGED <<result, faults, tried, acked, restarts>>
     \/ Fails /\ IF p \in DOMAIN store THEN UNCHANGED faults ELSE Fault

At(pc) == op.pc = pc /\ op.writes = <<>>

\* A split hands its two halves to insertIntoParent.
ToParent(o, left, key, right) ==
  [o EXCEPT !.pc = "parent", !.left = left, !.key = key, !.right = right]

\* splitLeaf: the upper half moves to a new leaf to the right.
SplitLeafLosesChain(o, page, leaf) ==
  LET mid == Len(leaf.keys) \div 2
      p == meta.nextPageID
      upper == Leaf(leaf.parent, page, Nil,
                    SubSeq(leaf.keys, mid + 1, Len(leaf.keys)),
                    SubSeq(leaf.values, mid + 1, Len(leaf.values)))
      lower == [leaf EXCEPT !.keys = SubSeq(@, 1, mid),
                            !.values = SubSeq(@, 1, mid), !.right = p]
  IN  Allocate([ToParent(o, <<page, lower>>, upper.keys[1], <<p, upper>>)
                  EXCEPT !.writes = <<<<page, lower>>, <<p, upper>>>>])
SplitLeafKeepsUpper(o, page, leaf) ==
  LET mid == Len(leaf.keys) \div 2
      p == meta.nextPageID
      upper == Leaf(leaf.parent, page, leaf.right,
                    SubSeq(leaf.keys, mid + 1, Len(leaf.keys)),
                    SubSeq(leaf.values, mid + 1, Len(leaf.values)))
      lower == [leaf EXCEPT !.right = p]
      relink == IF leaf.right = Nil THEN <<>>
                ELSE << <<leaf.right, "left", p>> >>
  IN  Allocate([ToParent(o, <<page, lower>>, upper.keys[1], <<p, upper>>)
                  EXCEPT !.writes = << <<page, lower>>, <<p, upper>> >> \o relink])
SplitLeaf(o, page, leaf) ==
  LET mid == Len(leaf.keys) \div 2
      p == meta.nextPageID
      upper == Leaf(leaf.parent, page, leaf.right,
                    SubSeq(leaf.keys, mid + 1, Len(leaf.keys)),
                    SubSeq(leaf.values, mid + 1, Len(leaf.values)))
      lower == [leaf EXCEPT !.keys = SubSeq(@, 1, mid),
                            !.values = SubSeq(@, 1, mid), !.right = p]
      relink == IF leaf.right = Nil THEN <<>>
                ELSE << <<leaf.right, "left", p>> >>
  IN  Allocate([ToParent(o, <<page, lower>>, upper.keys[1], <<p, upper>>)
                  EXCEPT !.writes = << <<page, lower>>, <<p, upper>> >> \o relink])

\* A tree that lost a page to NewPage is not followed any further.
Begin(k) ==
  /\ op = Idle
  /\ ~reissued
  /\ tried[k] < MaxTids[k]
  /\ FoldFunction(+, 0, tried) < MaxInserts
  /\ tried' = [tried EXCEPT ![k] = @ + 1]

Insert(k) ==
  /\ Begin(k)
  /\ LET tid == <<k, tried[k] + 1>>
         page == findLeaf(k)
         leaf == insertIntoLeaf(store[page], k, tid)
         fits == estimateSize(leaf) <= Capacity
     IN  op' = [Idle EXCEPT !.own = tid,
                            !.pc = IF fits THEN "return" ELSE "splitleaf",
                            !.writes = IF fits THEN << <<page, leaf>> >> ELSE <<>>,
                            !.node = <<page, leaf>>]
  /\ result' = "none"
  /\ UNCHANGED <<meta, store, fresh, acked, reissued, faults, restarts>>

\* findLeaf ignores the error of readNode and uses the nil node.
FindLeafFails(k) == Begin(k) /\ Fault /\ Panics

SplitLeafStep ==
  /\ At("splitleaf")
  /\ SplitLeaf(op, op.node[1], op.node[2])

\* readNode if need be, writeNode.  The encoding may run past the end of the
\* page.
WriteNode ==
  /\ op.writes # <<>>
  /\ LET write == Head(op.writes)
         page == write[1]
         node == IF Len(write) = 2 THEN write[2]
                 ELSE [store[page] EXCEPT ![write[2]] = write[3]]
     IN  \/ /\ page \in DOMAIN store
            /\ EncodedSize(node) <= PageBytes
            /\ store' = [store EXCEPT ![page] = node]
            /\ fresh' = fresh \ {page}
            /\ op' = [op EXCEPT !.writes = Tail(@)]
            /\ UNCHANGED <<meta, result, faults, tried, acked, reissued, restarts>>
         \/ /\ page \in DOMAIN store
            /\ EncodedSize(node) > PageBytes
            /\ Panics
            /\ UNCHANGED <<tried, faults>>
         \/ /\ Fails
            /\ IF page \in DOMAIN store THEN Fault ELSE UNCHANGED faults
            /\ UNCHANGED meta

\* insertIntoParent below the root: the parent is the one left's node names.
AddToParent ==
  /\ At("parent")
  /\ op.left[2].parent \in NodePages
  /\ ~store[op.left[2].parent].isLeaf
  /\ LET page == op.left[2].parent
         parent == store[page]
         pos == upperBound(parent.keys, op.key) + 1
         node == [parent EXCEPT !.keys = InsertAt(@, pos, op.key),
                                !.children = InsertAt(@, pos + 1, op.right[1])]
         right == <<op.right[1], [op.right[2] EXCEPT !.parent = page]>>
         fits == estimateSize(node) <= Capacity
     IN  op' = [op EXCEPT !.writes = IF fits THEN <<right, <<page, node>>>> ELSE <<right>>,
                          !.pc = IF fits THEN "return" ELSE "splitinternal",
                          !.node = <<page, node>>]
  /\ UNCHANGED <<meta, store, fresh, result, faults, tried, acked, reissued, restarts>>

\* A page number given out twice can make a leaf its own parent; a leaf has no
\* children to shift.
ParentIsLeaf ==
  /\ At("parent")
  /\ op.left[2].parent \in NodePages
  /\ store[op.left[2].parent].isLeaf
  /\ Panics
  /\ UNCHANGED <<tried, faults>>

\* readNode of the parent fails
ReadParentFails ==
  /\ At("parent")
  /\ op.left[2].parent # Nil
  /\ Fails
  /\ IF op.left[2].parent \in DOMAIN store THEN Fault ELSE UNCHANGED faults
  /\ UNCHANGED meta

\* createNewRoot
CreateNewRoot ==
  /\ At("parent")
  /\ op.left[2].parent = Nil
  /\ LET p == meta.nextPageID
         left == <<op.left[1], [op.left[2] EXCEPT !.parent = p]>>
         right == <<op.right[1], [op.right[2] EXCEPT !.parent = p]>>
         root == <<p, Internal(Nil, Nil, Nil, <<op.key>>, <<left[1], right[1]>>)>>
     IN  Allocate([op EXCEPT !.pc = "setroot", !.writes = <<root, left, right>>,
                             !.node = root])

\* The new root counts from here on; writeMeta.
SetRoot ==
  /\ At("setroot")
  /\ meta' = [meta EXCEPT !.rootPageID = op.node[1]]
  /\ \/ /\ store' = [store EXCEPT ![0] = meta']
        /\ op' = [op EXCEPT !.pc = "return"]
        /\ UNCHANGED <<fresh, result, faults, tried, acked, reissued, restarts>>
     \/ Fails /\ Fault

\* splitInternal: the middle key goes up, the children of the upper half get
\* a new parent.
SplitInternalKeepsParents ==
  /\ At("splitinternal")
  /\ LET page == op.node[1]
         node == op.node[2]
         mid == Len(node.keys) \div 2
         p == meta.nextPageID
         upper == Internal(node.parent, page, node.right,
                           SubSeq(node.keys, mid + 2, Len(node.keys)),
                           SubSeq(node.children, mid + 2, Len(node.children)))
         lower == [node EXCEPT !.keys = SubSeq(@, 1, mid),
                               !.children = SubSeq(@, 1, mid + 1), !.right = p]
     IN  Allocate([ToParent(op, <<page, lower>>, node.keys[mid + 1], <<p, upper>>)
                     EXCEPT !.writes = << <<page, lower>>, <<p, upper>> >>])
SplitInternal ==
  /\ At("splitinternal")
  /\ LET page == op.node[1]
         node == op.node[2]
         mid == Len(node.keys) \div 2
         p == meta.nextPageID
         upper == Internal(node.parent, page, node.right,
                           SubSeq(node.keys, mid + 2, Len(node.keys)),
                           SubSeq(node.children, mid + 2, Len(node.children)))
         lower == [node EXCEPT !.keys = SubSeq(@, 1, mid),
                               !.children = SubSeq(@, 1, mid + 1), !.right = p]
         reparent == [i \in DOMAIN upper.children |->
                        <<upper.children[i], "parent", p>>]
     IN  Allocate([ToParent(op, <<page, lower>>, node.keys[mid + 1], <<p, upper>>)
                     EXCEPT !.writes = reparent \o << <<page, lower>>, <<p, upper>> >>])

Return ==
  /\ At("return")
  /\ op' = Idle
  /\ result' = "ok"
  /\ acked' = acked \cup {op.own}
  /\ UNCHANGED <<meta, store, fresh, tried, reissued, faults, restarts>>

\* A fresh page is evicted.
DropFresh(p) ==
  /\ Fault
  /\ p \in fresh
  /\ store' = [q \in DOMAIN store \ {p} |-> store[q]]
  /\ fresh' = fresh \ {p}
  /\ UNCHANGED <<meta, op, result, tried, acked, reissued, restarts>>

\* loadMeta reads what writeMeta wrote last.
Restart ==
  /\ op = Idle
  /\ restarts < MaxRestarts
  /\ restarts' = restarts + 1
  /\ store' = [p \in DOMAIN store \ fresh |-> store[p]]
  /\ fresh' = {}
  /\ meta' = store[0]
  /\ UNCHANGED <<op, result, tried, acked, reissued, faults>>

Next ==
  \/ \E k \in Keys : Insert(k) \/ FindLeafFails(k)
  \/ SplitLeafStep
  \/ WriteNode
  \/ AddToParent
  \/ ParentIsLeaf
  \/ ReadParentFails
  \/ CreateNewRoot
  \/ SetRoot
  \/ SplitInternal
  \/ Return
  \/ \E p \in fresh : DropFresh(p)
  \/ Restart

Spec == Init /\ [][Next]_vars

-----------------------------------------------------------------------------
(* Properties. *)

\* The leaves of the tree from left to right.
Leaves ==
  LET under[d \in 0 .. Cardinality(NodePages), p \in NodePages] ==
        IF store[p].isLeaf THEN <<p>>
        ELSE IF d = 0 THEN <<>>
        ELSE FlattenSeq([i \in DOMAIN store[p].children |->
                           under[d - 1, store[p].children[i]]])
  IN  under[Cardinality(NodePages), meta.rootPageID]

RangeBounds == (RangeEnds \X BOOLEAN) \cup {<<>>}

Asked(from, to) == {k \in Keys : AboveFrom(k, from) /\ BelowTo(k, to)}

(* Search and RangeSearch return exactly the TIDs of the keys asked for, each
   key's in the order they were inserted, the keys in ascending order, for
   every combination of open, inclusive and exclusive ends.  Not so once a
   write failed (splitLeaf loses the upper half) or a page number was given
   out twice (splits do not save nextPageID). *)
SearchFindsAll ==
  op = Idle /\ faults = 0 /\ ~reissued =>
    LET Tids(k) == SelectSeq([i \in 1 .. MaxTids[k] |-> <<k, i>>],
                             LAMBDA tid : tid \in acked)
        Ascending(S) == SetToSortSeq(S, LAMBDA a, b : a < b)
    IN  /\ \A k \in Keys : Search(k) = Tids(k)
        /\ \A from, to \in RangeBounds :
             LET keys == Ascending(Asked(from, to)) IN
             RangeSearch(from, to) =
               [ends |-> "answer",
                tids |-> FlattenSeq([i \in DOMAIN keys |-> Tids(keys[i])])]

(* Whatever an I/O error has left of a split, no answer is wrong: Search and
   RangeSearch may lack TIDs then, and RangeSearch may return an error, panic
   or walk in circles for ever, but an answer holds only TIDs that were
   inserted under a key asked for, and none twice. *)
AnswersAreSound ==
  op = Idle /\ ~reissued =>
    LET Sound(tids, keys) ==
          /\ IsInjective(tids)
          /\ \A i \in DOMAIN tids : tids[i][1] \in keys /\ tids[i][2] <= tried[tids[i][1]]
    IN  /\ \A k \in Keys : Sound(Search(k), {k})
        /\ \A from, to \in RangeBounds :
             LET found == RangeSearch(from, to) IN
             found.ends = "answer" => Sound(found.tids, Asked(from, to))

\* No Insert failed, the last one excepted.
NoneFailedBefore ==
  FoldFunction(+, 0, tried) - Cardinality(acked) <= IF result = "ok" THEN 0 ELSE 1

(* Every key of every leaf is where the next search for it goes, at every
   moment of an insertion and right after one that an I/O error cut short: no
   key in two leaves, no key on the wrong side of a separator, no child
   pointer to a page that was not written. *)
KeysReachable ==
  NoneFailedBefore /\ ~reissued =>
    LET leaves == Leaves
        keys == FlattenSeq([i \in DOMAIN leaves |-> store[leaves[i]].keys])
    IN  /\ Len(leaves) > 0
        /\ \A i \in 1 .. Len(keys) - 1 : keys[i] < keys[i + 1]
        /\ \A i \in DOMAIN leaves : \A j \in DOMAIN store[leaves[i]].keys :
             findLeaf(store[leaves[i]].keys[j]) = leaves[i]

(* Each node names its real parent, which insertIntoParent relies on instead
   of the path it came by. *)
ParentsAgree ==
  op = Idle /\ faults = 0 /\ ~reissued =>
    \A p \in NodePages :
      \A i \in DOMAIN store[p].children : store[store[p].children[i]].parent = p

(* RangeSearch's walk along the right siblings visits the leaves of the tree,
   all of them, in order. *)
LeavesChained ==
  op = Idle /\ faults = 0 /\ ~reissued => RightChain(meta.leftmostLeafID) = Leaves

(* A leaf that is split fits its two pages, however many rows share a value:
   without an I/O error no Insert panics.  The code does not keep this:
   splitLeaf halves the keys and not their TIDs. *)
NoPanic == result = "panic" => faults > 0

(* The pages form one search tree: keys where searches go, true parent
   pointers, and a leaf chain in the order of the tree. *)
TreeWellFormed == KeysReachable /\ ParentsAgree /\ LeavesChained
==============================================================================
