---------------------------- MODULE DiskHashIndex ----------------------------
(***************************************************************************)
(* DiskHashIndex: linear hashing in a page file.  Page 0 holds the meta    *)
(* data, pages 1..DirPages the directory (bucket -> head page), the pages  *)
(* behind them bucket pages, chained by nextOverflow.                      *)
(*                                                                         *)
(* Insert and Search hold idx.mu from start to end.  Insert changes many   *)
(* pages; each UpdatePage is a step, since any of them may fail and leave  *)
(* the others done.  The pool is what PageStore promises: a page made by   *)
(* NewPage is `fresh' and may vanish until its first UpdatePage.           *)
(*                                                                         *)
(* A restart is an orderly one, between two statements: Stop flushes every *)
(* dirty page, fresh pages are not dirty and are lost.  A crash inside an  *)
(* Insert may leave any mixture of old and new pages and is not modelled.  *)
(***************************************************************************)
EXTENDS Integers, Sequences, FiniteSets, SequencesExt

CONSTANTS Keys,
          Hash,               \* hashFunction, [Keys -> Nat]
          EntrySize,          \* len(encodeEntry), [Keys -> Nat]
          PageRoom,           \* bytes of a bucket page behind its header
          InitialBuckets,     \* 16 in the code
          MaxPerBucket,       \* maxLoadFactor * targetBucketEntries = 48
          DirPages,           \* 64 in the code
          DirEntriesPerPage,  \* 2045 in the code
          MaxInserts,         \* bound on the insertions of a behaviour
          MaxFaults,          \* bound on I/O errors and evictions of fresh pages
          MaxRestarts         \* bound on restarts

\* The masks stand for bits: `hash & mask' is hash % (mask + 1) as long as
\* mask + 1 is a power of two.
ASSUME InitialBucketsAssumption == \E n \in 0 .. 30 : InitialBuckets = 2 ^ n
ASSUME HashAssumption == Hash \in [Keys -> Nat]
\* An entry fits an empty page: serializeRow has refused a VARCHAR of more
\* than 255 bytes before.  Otherwise insertIntoBucketChain would loop.
ASSUME EntrySizeAssumption ==
  /\ EntrySize \in [Keys -> Nat]
  /\ \A k \in Keys : EntrySize[k] <= PageRoom
ASSUME MaxPerBucketAssumption == MaxPerBucket \in Nat \ {0}
\* The directory has room for all buckets (the code does not check it).
ASSUME DirectoryAssumption ==
  InitialBuckets + MaxInserts < DirPages * DirEntriesPerPage
ASSUME BoundsAssumption ==
  MaxFaults \in Nat /\ MaxRestarts \in Nat

VARIABLES meta,      \* idx.meta, the hashMeta in memory
          store,     \* the pages of the file, as the pool shows them
          fresh,     \* pages made by NewPage and never updated since
          op,        \* the Insert under way, see Idle
          result,    \* how the last Insert ended
          inserts,   \* Inserts begun; also the TID of the last one
          acked,     \* history: <<key, tid>> of the Inserts that returned nil
          faults,
          restarts

vars == <<meta, store, fresh, op, result, inserts, acked, faults, restarts>>

Nil == -1
EmptyBucket == [next |-> Nil, entries |-> <<>>]
ZeroBucket == [next |-> 0, entries |-> <<>>]
DataStartPage == 1 + DirPages

\* pc: next step; own: the entry being inserted; entry, cur: what
\* insertIntoBucketChain puts where; then: where it returns to; new: the page
\* allocated last; pending: entries drained and not yet put back.
Idle == [pc |-> "idle", own |-> <<>>, entry |-> <<>>, cur |-> 0,
         then |-> "idle", new |-> 0, pending |-> <<>>]

-----------------------------------------------------------------------------
(* Pure helpers. *)

ComputeBucketGE(hash) ==
  LET b == hash % (meta.highmask + 1)
  IN  IF b >= meta.maxBucket THEN hash % (meta.lowmask + 1) ELSE b
computeBucket(hash) ==
  LET b == hash % (meta.highmask + 1)
  IN  IF b > meta.maxBucket THEN hash % (meta.lowmask + 1) ELSE b

DirPage(b) == 1 + b \div DirEntriesPerPage
DirEntry(b) == b % DirEntriesPerPage
HeadPage(b) == store[DirPage(b)][DirEntry(b)]

\* The pages a walk from head visits; it ends at -1 and at 0.
Chain(head) ==
  LET pages == DOMAIN store \ (0 .. DirPages)
      nextOf == [p \in pages \cup {Nil, 0} |->
                   IF p \in pages THEN store[p].next ELSE Nil]
      at[i \in 0 .. Cardinality(pages)] ==
        IF i = 0 THEN head ELSE nextOf[at[i - 1]]
      IsPage(p) == p \notin {Nil, 0}
  IN  SelectSeq([i \in 1 .. Cardinality(pages) |-> at[i - 1]], IsPage)

\* The entries of a chain, in the order forEachEntry and drain see them.
ChainEntries(head) ==
  LET pages == Chain(head)
  IN  FlattenSeq([i \in DOMAIN pages |-> store[pages[i]].entries])

\* Bytes used by the entries of a page; free in the code is an offset.
Used(p) ==
  FoldLeft(LAMBDA sum, e : sum + EntrySize[e[1]], 0, store[p].entries)
HasRoom(p, e) == Used(p) + EntrySize[e[1]] <= PageRoom

OverLoaded == meta.recordCount > MaxPerBucket * meta.bucketCount

\* The TIDs Search(k) returns, in order.
MatchesHash(k, e) == Hash[e[1]] = Hash[k]
Matches(k, e) == Hash[e[1]] = Hash[k] /\ e[1] = k
Search(k) ==
  LET Found(e) == Matches(k, e)
      hits == SelectSeq(ChainEntries(HeadPage(computeBucket(Hash[k]))), Found)
  IN  [i \in DOMAIN hits |-> hits[i][2]]

-----------------------------------------------------------------------------

\* initializeNew, followed by the flush of its CREATE INDEX.
InitialMeta ==
  [bucketCount |-> InitialBuckets, lowmask |-> InitialBuckets - 1,
   highmask |-> InitialBuckets - 1, splitPointer |-> 0,
   maxBucket |-> InitialBuckets - 1, recordCount |-> 0,
   nextPageID |-> DataStartPage + InitialBuckets]

InitialDir(d) ==
  [i \in 0 .. DirEntriesPerPage - 1 |->
     LET b == (d - 1) * DirEntriesPerPage + i
     IN  IF b < InitialBuckets THEN DataStartPage + b ELSE 0]

Init ==
  /\ meta = InitialMeta
  /\ store = [p \in 0 .. DataStartPage + InitialBuckets - 1 |->
                IF p = 0 THEN InitialMeta
                ELSE IF p <= DirPages THEN InitialDir(p) ELSE EmptyBucket]
  /\ fresh = {d \in 1 .. DirPages : (d - 1) * DirEntriesPerPage >= InitialBuckets}
  /\ op = Idle
  /\ result = "none"
  /\ inserts = 0
  /\ acked = {}
  /\ faults = 0
  /\ restarts = 0

-----------------------------------------------------------------------------
(* Steps of an Insert. *)

historyVars == <<inserts, acked, restarts>>

\* Insert returns an error: nothing that was done is undone, what op holds
\* in memory is gone.
Fails ==
  /\ op' = Idle
  /\ result' = "error"
  /\ UNCHANGED <<store, fresh, historyVars>>

Fault == faults < MaxFaults /\ faults' = faults + 1

\* GetPage(p), a change in place, UpdatePage(p); op continues with next.
Commit(p, contents, next) ==
  \/ /\ p \in DOMAIN store
     /\ store' = [store EXCEPT ![p] = contents]
     /\ fresh' = fresh \ {p}
     /\ op' = next
     /\ UNCHANGED <<result, faults, historyVars>>
  \/ Fails /\ (IF p \in DOMAIN store THEN Fault ELSE UNCHANGED faults)

At(pc) == op.pc = pc
Goto(pc) == [op EXCEPT !.pc = pc]

\* insertIntoBucketChain(computeBucket(hash), e) begins.
StartPut(o) ==
  LET b == computeBucket(Hash[o.entry[1]]) IN
  \/ /\ DirPage(b) \in DOMAIN store
     /\ op' = [o EXCEPT !.pc = "put", !.cur = HeadPage(b)]
     /\ UNCHANGED <<store, fresh, faults>>
  \/ /\ op' = Idle
     /\ IF DirPage(b) \in DOMAIN store THEN Fault ELSE UNCHANGED faults
     /\ UNCHANGED <<store, fresh>>

Insert(k) ==
  /\ At("idle")
  /\ inserts < MaxInserts
  /\ inserts' = inserts + 1
  /\ StartPut([Idle EXCEPT !.own = <<k, inserts + 1>>,
                           !.entry = <<k, inserts + 1>>, !.then = "count"])
  /\ result' = IF op' = Idle THEN "error" ELSE "none"
  /\ UNCHANGED <<meta, acked, restarts>>

PutEntry ==
  /\ At("put")
  /\ HasRoom(op.cur, op.entry)
  /\ Commit(op.cur, [store[op.cur] EXCEPT !.entries = Append(@, op.entry)],
            Goto(op.then))
  /\ UNCHANGED meta

NextPageStays ==
  /\ At("put")
  /\ ~HasRoom(op.cur, op.entry)
  /\ store[op.cur].next # Nil
  /\ UNCHANGED <<op, meta, store, fresh, result, faults, historyVars>>
NextPage ==
  /\ At("put")
  /\ ~HasRoom(op.cur, op.entry)
  /\ store[op.cur].next # Nil
  /\ op' = [op EXCEPT !.cur = store[op.cur].next]
  /\ UNCHANGED <<meta, store, fresh, result, faults, historyVars>>

\* allocateDataPage: the page number is used up even if NewPage fails, on an
\* I/O error or because a page of that number is in the pool.
AllocateForgets(pc) ==
  LET p == meta.nextPageID IN
  /\ store' = (p :> ZeroBucket) @@ store
  /\ fresh' = fresh \cup {p}
  /\ op' = [op EXCEPT !.pc = pc, !.new = p]
  /\ UNCHANGED <<meta, result, faults, historyVars>>
Allocate(pc) ==
  LET p == meta.nextPageID IN
  /\ meta' = [meta EXCEPT !.nextPageID = p + 1]
  /\ \/ /\ store' = (p :> ZeroBucket) @@ store
        /\ fresh' = fresh \cup {p}
        /\ op' = [op EXCEPT !.pc = pc, !.new = p]
        /\ UNCHANGED <<result, faults, historyVars>>
     \/ Fails /\ (IF p \in DOMAIN store THEN UNCHANGED faults ELSE Fault)

AllocateOverflow ==
  /\ At("put")
  /\ ~HasRoom(op.cur, op.entry)
  /\ store[op.cur].next = Nil
  /\ Allocate("init")

InitOverflow ==
  /\ At("init")
  /\ Commit(op.new, EmptyBucket, Goto("link"))
  /\ UNCHANGED meta

LinkOverflow ==
  /\ At("link")
  /\ Commit(op.cur, [store[op.cur] EXCEPT !.next = op.new],
            [op EXCEPT !.pc = "put", !.cur = op.new])
  /\ UNCHANGED meta

\* recordCount++ and writeMeta
CountRecord ==
  /\ At("count")
  /\ meta' = [meta EXCEPT !.recordCount = @ + 1]
  /\ Commit(0, meta', Goto("grow"))

\* The load factor is low enough: Insert returns nil.
Return ==
  /\ At("grow")
  /\ ~OverLoaded
  /\ op' = Idle
  /\ result' = "ok"
  /\ acked' = acked \cup {op.own}
  /\ UNCHANGED <<meta, store, fresh, inserts, faults, restarts>>

-----------------------------------------------------------------------------
(* performSplit. *)

SplitAllocate ==
  /\ At("grow")
  /\ OverLoaded
  /\ Allocate("splitinit")

SplitInitSkipsDir ==
  /\ At("splitinit")
  /\ Commit(op.new, EmptyBucket, Goto("splitgrow"))
  /\ UNCHANGED meta
SplitInit ==
  /\ At("splitinit")
  /\ Commit(op.new, EmptyBucket, Goto("splitdir"))
  /\ UNCHANGED meta

\* setBucketHeadPageID
SplitDirOneOff ==
  /\ At("splitdir")
  /\ LET b == meta.maxBucket + 1
         d == DirPage(b) + 1
     IN  Commit(d, [store[d] EXCEPT ![DirEntry(b)] = op.new], Goto("splitgrow"))
  /\ UNCHANGED meta
SplitDir ==
  /\ At("splitdir")
  /\ LET b == meta.maxBucket + 1 IN
     Commit(DirPage(b), [store[DirPage(b)] EXCEPT ![DirEntry(b)] = op.new],
            Goto("splitgrow"))
  /\ UNCHANGED meta

\* The new bucket exists, before any entry is moved.
SplitGrow ==
  /\ At("splitgrow")
  /\ LET b == meta.maxBucket + 1 IN
     meta' = [meta EXCEPT
                !.maxBucket = b,
                !.bucketCount = b + 1,
                !.highmask = IF b > @ THEN 2 * @ + 1 ELSE @]
  /\ Commit(0, meta', Goto("drain"))

\* drainBucketChain: all entries to memory, the head page emptied, the
\* overflow pages left behind.
Drain ==
  /\ At("drain")
  /\ LET head == HeadPage(meta.splitPointer) IN
     Commit(head, EmptyBucket,
            [op EXCEPT !.pc = "move", !.pending = ChainEntries(head)])
  /\ UNCHANGED meta

Move ==
  /\ At("move")
  /\ op.pending # <<>>
  /\ StartPut([op EXCEPT !.entry = Head(op.pending), !.pending = Tail(@),
                         !.then = "move"])
  /\ result' = IF op' = Idle THEN "error" ELSE result
  /\ UNCHANGED <<meta, historyVars>>

SplitDoneKeepsLowmask ==
  /\ At("move")
  /\ op.pending = <<>>
  /\ meta' = [meta EXCEPT
                !.splitPointer = IF @ + 1 = meta.lowmask + 1 THEN 0 ELSE @ + 1]
  /\ Commit(0, meta', Goto("grow"))
SplitDone ==
  /\ At("move")
  /\ op.pending = <<>>
  /\ LET wraps == meta.splitPointer + 1 = meta.lowmask + 1 IN
     meta' = [meta EXCEPT
                !.splitPointer = IF wraps THEN 0 ELSE @ + 1,
                !.lowmask = IF wraps THEN meta.highmask ELSE @]
  /\ Commit(0, meta', Goto("grow"))

-----------------------------------------------------------------------------
(* The pool and the process. *)

Without(D) == [p \in DOMAIN store \ D |-> store[p]]

\* A fresh page is evicted.
DropFresh(p) ==
  /\ Fault
  /\ p \in fresh
  /\ store' = Without({p})
  /\ fresh' = fresh \ {p}
  /\ UNCHANGED <<meta, op, result, historyVars>>

\* loadMeta reads what writeMeta wrote last.
Restart ==
  /\ At("idle")
  /\ restarts < MaxRestarts
  /\ restarts' = restarts + 1
  /\ store' = Without(fresh)
  /\ fresh' = {}
  /\ meta' = store[0]
  /\ UNCHANGED <<op, result, inserts, acked, faults>>

\* The steps of a running Insert.
Running ==
  \/ PutEntry \/ NextPage \/ AllocateOverflow \/ InitOverflow \/ LinkOverflow
  \/ CountRecord \/ Return
  \/ SplitAllocate \/ SplitInit \/ SplitDir \/ SplitGrow \/ Drain \/ Move
  \/ SplitDone

Next ==
  \/ \E k \in Keys : Insert(k)
  \/ Running
  \/ \E p \in fresh : DropFresh(p)
  \/ Restart

Spec == Init /\ [][Next]_vars

\* The goroutine that runs Insert holds idx.mu and never blocks.
FairSpec == Spec /\ WF_vars(Running)

-----------------------------------------------------------------------------
(* Properties. *)

(* Search returns every TID inserted under the key, each once, whatever
   splits and restarts happened since: the split moved the entry to the bucket
   in which computeBucket now looks.  A page operation that fails inside
   performSplit loses the entries drained and not yet put back, so this is
   said of an index without such a failure. *)
SearchFindsAll ==
  At("idle") /\ faults = 0 =>
    \A k \in Keys :
      LET tids == Search(k) IN
      /\ \A t \in 1 .. inserts : <<k, t>> \in acked => Contains(tids, t)
      /\ IsInjective(tids)

(* Search never returns a TID of another key, also after a split that an
   I/O error cut short and a restart behind it. *)
SearchSound ==
  \A k \in Keys :
    LET tids == Search(k) IN
    \A j \in Keys \ {k} : \A t \in 1 .. inserts :
      <<j, t>> \in acked => ~Contains(tids, t)

(* The masks, the split pointer and the bucket count describe one linear
   hash table: lowmask + 1 buckets of the last full round and one more per
   bucket split in this round. *)
MasksAgree ==
  LET inSplit == op.pc # "idle" /\ meta.maxBucket = meta.lowmask + meta.splitPointer + 1
      n == meta.lowmask + 1
  IN  faults = 0 =>
        /\ \E i \in 0 .. 30 : n = 2 ^ i
        /\ meta.splitPointer \in 0 .. meta.lowmask
        /\ meta.bucketCount = meta.maxBucket + 1
        /\ meta.maxBucket = meta.lowmask + meta.splitPointer \/ inSplit
        /\ meta.highmask = IF meta.maxBucket >= n THEN 2 * n - 1 ELSE n - 1

(* Every bucket the meta data knows has a head page of its own, also in the
   middle of a split and after one that failed: a head of 0 would make
   insertIntoBucketChain write an entry into the meta page. *)
HeadsAllocated ==
  \A b \in 0 .. meta.maxBucket :
    /\ DirPage(b) \in DOMAIN store
    /\ HeadPage(b) \in DOMAIN store
    /\ HeadPage(b) >= DataStartPage

\* A failed insertion may have used up page numbers that no writeMeta recorded
\* and a restart has forgotten: a page may be in use twice.
NumbersForgotten ==
  /\ restarts > 0
  /\ inserts > Cardinality(acked) + (IF At("idle") THEN 0 ELSE 1)

(* The chains are disjoint and end, and the next page to be allocated is in
   none of them: no page is used twice, whichever step fails, until a
   restart forgets the page numbers a failed insertion used up. *)
ChainsWellFormed ==
  LET Heads == {HeadPage(b) : b \in 0 .. meta.maxBucket}
      Linked == {store[p].next : p \in DOMAIN store \ (0 .. DirPages)} \ {Nil, 0}
  IN  ~NumbersForgotten =>
      /\ \A b, c \in 0 .. meta.maxBucket : HeadPage(b) = HeadPage(c) => b = c
      /\ Heads \cap Linked = {}
      /\ \A p, q \in DOMAIN store \ (0 .. DirPages) :
           store[p].next = store[q].next /\ store[p].next \in Linked => p = q
      /\ \A h \in Heads : store[Chain(h)[Len(Chain(h))]].next = Nil
      /\ meta.nextPageID \notin DOMAIN store \cup Linked

(* An Insert only fails on an I/O error, or where the table outgrows a
   directory page whose successor never reached the file. *)
InsertSucceeds ==
  result = "error" =>
    faults > 0 \/ (restarts > 0 /\ DirPage(meta.maxBucket + 1) \notin DOMAIN store)

(* Every Insert returns: the chain walk ends, and splitting brings the load
   factor down, also after a failed page operation. *)
InsertEnds == ~At("idle") ~> (At("idle") \/ NumbersForgotten)

(* Search is exact: all TIDs of the key, each once, and none of another key. *)
SearchExact == SearchFindsAll /\ SearchSound

(* The pages form one linear hash table at every step of an insertion: masks,
   directory and chains agree. *)
TableWellFormed == MasksAgree /\ HeadsAllocated /\ ChainsWellFormed
==============================================================================
