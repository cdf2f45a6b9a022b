# GopherDB: a TLA+ development

GopherDB is a small SQL database written in Go: a TCP server, a lexer, parser and
semantic analyzer, a planner and optimizer, executors, and a storage engine with a
buffer pool, slotted heap pages, a catalog kept in heap files, and hash and B-tree
indexes kept in page files. This directory holds TLA+ models of it from the text a user
types to the pages in the files, the TLC configurations that check them on small
instances, and theorems about them that TLAPS checks for every instance.

## 1. The system

| component | state | operations | talks to |
|---|---|---|---|
| page files (`memory/manager`) | one file per table, index and catalog relation, pages of 8192 bytes | `Read`, `Write` of one page | file system |
| replacers (`memory/replacer`) | LRU list and map; clock ring, hand and bits | `Push`, `Delete`, `PickVictim` | called by the pool under its mutex |
| buffer pool (`memory/buffer`) | `pageTable`: key -> slot (page, dirty, pinned) | `GetPage`, `NewPage`, `UpdatePage`, `PinPage`, `UnpinPage`, `FlushPage`, `FlushAllPages`, `DirtyPages` | replacer, page files; every structure above |
| background writer (`memory/background`) | two tickers | `flushBatch`, checkpoint | pool |
| heap page (`memory/page`) | one 8 KiB buffer | `Write`, `Read`, `Size` | edited in place by everybody above the pool |
| table heap (`storage`) | none of its own; the table's `pagesCount` is in the catalog | `InsertRow`, `ScanTids`, `ReadRow` | pool, catalog |
| hash index (`index/disk_hash_index.go`) | meta page, directory pages, bucket chains, `hashMeta` in memory | `Insert`, `Search`, splits | pool, own mutex |
| B-tree index (`index/disk_btree_index.go`) | meta page, nodes, leaf chain | `Insert`, `Search`, `RangeSearch`, splits | pool, own mutex |
| index manager (`index/index_manager.go`) | map of open indexes | `GetOrCreate` | indexes |
| catalog (`catalog/manager`) | four maps, four heap files, next oids | `CreateTable`, `CreateIndex`, `UpdatePagesCount`, getters | pool, own mutex |
| analyzer (`sql/semantic`) | none | resolves names and types of one statement | catalog |
| planner, optimizer | none | one query at a time; index selection by key ranges | catalog |
| executors, SQL service | one statement | INSERT, SELECT, CREATE TABLE, CREATE INDEX, EXPLAIN; `FlushAllPages` after every statement that is not a SELECT | everything above |
| server (`internal/server`, `cmd/server`) | `running`, listener, wait group, sessions, background writer | `Start`, `Stop`, one goroutine per client | SQL service |
| CLI (`cmd/cli`) | text typed and not yet sent | `repl`, `splitStatementsWithRemainder`, `sendQuery` | server |
| lexer, parser | none that outlives a call | text to tokens to trees | - |
| protocol codec | none | one line of JSON per request and per response | server, CLI |
| tuple serializer | none | rows to bytes and back | heap, indexes |

How they interact: every client has a goroutine of its own, and all of them call the
same pool, catalog and indexes. Pool, replacer, catalog and each index have a mutex; a
**table has none**. A caller gets a slot from the pool, then edits the bytes of its page
*outside* the pool's mutex and calls `UpdatePage`; evictions and flushes may come in
between. Nothing is logged: durability rests on `FlushAllPages` before the answer.

What is hard, and what makes each component correct:

* buffer pool: the page a caller edits may be evicted, written half edited, or reloaded
  into another object. Correct: a read returns the last committed bytes; a clean slot
  can be dropped; the pool stays within its size; every dirty slot is written.
* replacers: deletions shift the ring under the hand. Correct: the victim is a
  candidate, the right one, and nobody is passed over for ever.
* heap page: two regions grow towards each other, with 16-bit offsets. Correct: every
  accepted record stays readable, no record is refused while it fits.
* table heap: several page operations per statement, no lock, `pagesCount` read by the
  analyzer and used later, a new page that is not dirty. Correct: an acknowledged row is
  found by every later SELECT, and a TID never leads to another row.
* indexes: multi-page splits with no log. Correct: every entry is in the bucket (leaf)
  the next search looks in; an insertion ends.
* catalog: maps change before the files. Correct: what a restart loads is what was
  acknowledged; oids are unique.
* server: shutdown races with sessions, with `Start` and with the exit of `main`; the
  flush before an answer may fail unnoticed. Correct: what was acknowledged is in the
  files, or in the pool if a flush failed; a stop ends; every request line is answered,
  in order (the CLI pairs answers with requests by their order alone).
* front end: a quote decides in two places, CLI and lexer, where a statement ends; what
  the analyzer lets through must not panic in the executor. Correct: both cut the text
  alike; a statement is read as it was written; a row is read as it was stored.

## 2. The modules and the code

| module | code | how it corresponds |
|---|---|---|
| `PageStore` | what callers rely on in the pool | abstract specification: committed and stable contents of pages, `fresh` pages that may vanish |
| `BufferPool` | `heap_buffer_pool_manager.go`, `buffer_slot.go`, `heap_page_file_manager.go`, `default_dirty_page_writer.go` | `pageTable`, `page`, `dirty`, `pinned` are the slots, `evictable` the replacer's candidates, `disk` the files. One action per method and outcome (hit, miss, error); `EditInPlace` is the caller's edit outside the mutex; `StartBatch`/`FlushBatchStep` are the background writer |
| `Replacer`, `LRUReplacer`, `ClockReplacer` | `memory/replacer` | the interface, and one action per method of each implementation |
| `HeapPage` | `heap_page.go` | a page byte by byte, 16-bit fields included |
| `TableHeap` | `table_heap.go`, with the pool and `UpdatePagesCount` as it uses them | a session is a small program counter over `InsertRow`, `ScanTids`, `ReadRow`; page objects have identities; `HeapPage.Write` is two steps because it is not atomic |
| `DiskHashIndex` | `disk_hash_index.go` | `op` is the insertion that holds `idx.mu`; one step per `UpdatePage` |
| `DiskBTreeIndex` | `disk_btree_index.go` | the same; one step per `writeNode` |
| `Catalog` | `default_catalog_manager.go` | `mem` is the maps and counters, `file` and `pool` the four files; `AppendNext` indexes and appends the next record of the running operation |
| `KeyRange` | `range.go`, `extract.go`, parts of `default_optimizer.go`, `filter_executor.go` and `RangeSearch` | pure operators under the names of the functions |
| `SqlEngine` | `sql_service.go`, `default_planner.go`, `default_optimizer.go`, the executors | a statement is a program counter; one step per call of catalog, heap or index; an index call that fails part way may drop any entries of the index, which is `damaged` from then on |
| `Server` | `server.go`, `cmd/server/main.go`, `codec.go`, the flush of `ExecuteWithContext` | `main` and `stop` are the program counters of the main and the signal goroutine, `session[c]` that of `handleClient`; `background` is both writers of `dirtyWriter` |
| `SqlLexer`, `SqlParser` | `sql_lexer.go`, `sql_parser.go` | one operator per function; text is a sequence of symbols, a keyword one symbol |
| `Cli` | `cmd/cli/main.go` | one action per line `repl` reads; `buf` is what is not sent yet |
| `Analyzer` | `analyzer.go` | one operator per `analyze*` and `resolve*` function, from statement and catalog to query tree or error |
| `RowCodec` | `heap_tuple_serializer.go`, `serializeRow`/`deserializeRow`, `filter_executor.go` | encoding byte by byte with a smaller base; `eval` of a filter on a decoded row, its panics included |
| `*Proofs` | - | the theorems of section 5 |
| `SetFacts` | - | lemmas about sets of numbers and about sequences that several proofs cite |
| `MC*` | - | constants and symmetry for TLC; `MCFrontEnd` also composes `Cli`, lexer, parser, analyzer and codec, and holds the reference definitions they are compared with |

`SqlEngine` extends `KeyRange` and uses heap and indexes as single steps; `TableHeap`,
`DiskHashIndex`, `DiskBTreeIndex` and `Catalog` use the pool as `PageStore` promises it,
which `BufferPool` is shown to implement. `Server` sees of a statement whether it changes
pages, and of the pool which changes are dirty and which are in the files.

An operator whose name extends that of its neighbour (`WriteBackNothing`,
`WaitGroupSkipped`, ...) is the neighbour with a plausible mistake in it; no
specification uses it. Each is there to show that the property it goes with would notice.

Conventions. An I/O error is nondeterministic and bounded by `MaxFaults`. `acked` is a
history variable: what a client has been told is done.

About `Server`. A *change* is a statement whose pages are marked dirty; the clean page of
`NewPage` (section 4) belongs to `TableHeap`. The stores of `listener`, `cancelFlush` and
`cancelCheckpt` in `Start` race with their reads in `Stop`; each order is a behaviour of
the model. `stop = "ignored"` is a `Stop` that found `running` false and returned. The
end of `main` ends the process (`exit`), whatever the other goroutines are doing. A
killed process is not a step of its own: what it leaves is `disk`, which the properties
speak of in every state. `wg.Add` panics when it lifts the counter from zero while a
`Wait` has not been released; the window between `Done` and the release is the session
state `"release"`.

## 3. What the runs check

| run | instance | shows |
|---|---|---|
| `buffer_pool` | 3 pages, 2 slots, batches of 1, 1 error, restarts, fair checkpointer | reads are never stale, clean pages are in the file, the books of the pool agree, a candidate for eviction is forgotten only after a failed write-back; the pool implements `PageStore`; the committed bytes of a dirty page get into its file, unless the process ends or a new edit begins before |
| `replacers` | 4 pages, both replacers fed the same calls | LRU order, second chances, no page immortal; both implement `Replacer` |
| `heap_page` | 300 bytes, records of several lengths | records stay readable up to the last byte; a record is refused only when it does not fit |
| `table_heap` | 1 writer, 1 reader, 2 pages of 3 rows, evictions, 1 restart | SELECT misses no acknowledged row of a page that reached the pool dirty or the file; TIDs stay readable, once their INSERT has marked its page dirty, and lead to the same row |
| `table_heap_lost` | 1 writer, 1 restart | **violated**: an acknowledged row is gone |
| `hash_index` | 1 bucket growing over two rounds of splits, colliding and equal hashes, 1 error, 1 restart | searches are exact, masks and directory agree inside splits, chains are well formed, insertions end |
| `btree_index` | 6 insertions of 5 keys, up to 3 levels, 1 error, 1 restart | point and range searches are exact, parents and leaf chain agree; after an error an answer may lack TIDs, but has none that is wrong or double |
| `btree_index_panic` | up to 7 rows with 3 values | **violated**: `writeNode` panics |
| `catalog` | 2 tables, 2 indexes, 1 error, 2 restarts at any step | acknowledged definitions survive; a cut-short CREATE TABLE leaves a prefix of the columns; without a failed append a restart inside any operation finds the maps as they were |
| `sql_engine` | 1 writer, 1 reader, 3 rows in pages of 2, 2 indexes, 4 WHERE clauses and none, 1 failing call | the chosen scan covers the WHERE clause, SELECT is exact, indexes agree with the table; complete only as long as no `Insert` of the index has failed part way |
| `server` | 2 clients, one with 2 lines in flight and one idle, 1 failed flush or `Accept`, a signal at any moment | answers match requests, acknowledged changes are safe, the last flush misses one session at most; a stop ends the process, every line is answered, dirty pages reach the files |
| `front_end` | 3 typed lines of up to 2 symbols; all WHERE clauses of up to 5 symbols; statements of every form | CLI and lexer agree where statements end; the parser builds the tree of the grammar and nothing else; a WHERE clause the analyzer accepts cannot panic; statements and rows are read back as written |

Bounds. They are the smallest with which the interesting cases happen: more pages than
slots (evictions on every path), a page that fills and a second one, a hash index that
completes a round of splits and starts the next, a B-tree whose inner node splits, a
catalog file with a second page, a table page that holds a row on disk when another is
written and the page is evicted before its `UpdatePage` (the third row), a table that gets a page after an index was created.
One error is enough for each error path, since after it the run goes on; two
independent errors are not explored. In `heap_page` the page is small enough to be
filled, and the records long enough that the 16-bit fields use both bytes. The pool
has two slots, so that two of them are dirty when `FlushAllPages` meets an error or a
batch of one has had its turn; the third page, which nobody edits, takes their slots, and
one of the other two has two possible contents. That the safety properties do not depend
on the sizes is proved (section 5). In `server` the idle client keeps the wait group above zero, or is the
connection `Accept` returns while `Stop` runs; the proofs cover any number of clients and
lines. In `front_end` two lines are needed for a literal or a doubled quote that spans
them and the third for what follows; five symbols hold two operators with three
operands, or a comparison in parentheses; integers have two bytes of two bits, so that
`MaxInt64` and the VARCHAR length have their edge within reach.

`CHECK_DEADLOCK FALSE` appears where a bound on insertions, restarts or typed lines, or
the end of the process after a panic, really stops the model.

Fairness. `Checkpoints` of `BufferPool` is weak fairness of `FlushAllPages` alone: the
checkpointer calls it every five seconds as long as the server runs. `FairSpec` of
`DiskHashIndex` assumes weak fairness of the steps of the insertion that holds the
index's mutex: it is a running goroutine that waits for nothing else. `FairSpec` of
`Server` assumes weak fairness of each goroutine, since Go's scheduler runs every one that
can run, and of the checkpointer's tick. Clients need not send anything, nor leave, and
the signal need never come. One thing is asked of a client: `WriteResponse` sets no
deadline and waits for a client that does not read, so `LinesAreAnswered` holds for
clients whose sockets take the responses.

## 4. What the code does not keep

Two disagreements have a run of their own (`findings` in `PROJECT.json`):

* `insertIntoNewPage` puts the new page into the pool with `NewPage`, which does not mark
  it dirty: `FlushAllPages` passes it over. Until a second row goes into the page an
  eviction or a restart loses it, though the INSERT was acknowledged (`AckedNeverLost`).
  `AckedReadable` in `table_heap` therefore speaks of pages outside `lost`.
* All TIDs of a value are stored under one key, and `splitLeaf` halves keys by number,
  not by bytes: when about 1360 rows share a value one half fits no page and `writeNode`
  panics (`NoPanic`). Long keys alone do not get there, a VARCHAR has 255 bytes at most.

Others were met while the properties were being stated. Each is a condition in a property
or in the instance of a passing run, and dropping the condition shows it:

* Two INSERTs into one table edit the same page without a lock; both are acknowledged and
  one row is overwritten. `table_heap` has one writing session.
* When a page is evicted between an INSERT's `HeapPage.Write` and its `UpdatePage`, the
  row is not in the file yet and the pool reads the page back without it. A SELECT that
  had already listed the slot fails on it (`TidsStayValid` excepts `Unfinished`); the
  INSERT's `UpdatePage` then brings the row back.
* A write-back that fails in `ensureSpaceLocked` has already taken the victim out of the
  replacer: the page stays in the pool and cannot be evicted until a `GetPage` or
  `UpdatePage` of it pushes it back (`CandidatesLostOnlyToErrors`); enough of them and the
  pool reports that all pages are pinned.
* A hash split that meets an error after `drainBucketChain` has lost the drained entries
  (`SearchExact` asks for `faults = 0` where it says that all are found). Directory pages
  that never got an entry are not dirty and are gone after a restart; insertions that need
  them fail (`InsertSucceeds`). A failed insertion followed by a restart can forget that a
  page number was given out; two chains then share a page.
* B-tree splits do not write `nextPageID` to the meta page unless the root changes: after
  an orderly restart the number of a live page is given out again (`reissued`), and a leaf
  is overwritten. The tree's properties hold until then.
* A leaf split that meets an error after its first write has cut the leaf and left the
  other half only in memory: entries of acknowledged rows are gone. The leaf's right
  sibling is then a page of zeros, whose sibling is page 0, the meta page, which read as
  a node leads back to the first leaf: a `RangeSearch` that gets there panics at a key
  without TIDs or goes in circles for ever with `idx.mu` locked. What it does answer is
  never wrong or double (`AnswersAreSound`).
* So a failed `idx.Insert`, of a hash or a B-tree index, can take rows out of the answers
  of later SELECTs through that index, rows of other statements that were acknowledged
  long before. `SqlEngine` calls such an index `damaged`; `IndexAgrees` and `SelectExact`
  do not ask it to be complete, only that it leads to no wrong row and to none twice.
* A failed append leaves its definition in the catalog's maps (`RestartIsTransparent` asks
  for `faults = 0`). The table or index can be used until the next restart, and then its
  oid, which names its file, goes to another.
* A SELECT may use an index while CREATE INDEX is filling it, or after CREATE INDEX failed
  half way, and lacks rows; `ScanTids` skips unreadable pages without an error
  (`SelectExact` and `IndexAgrees` except both).
* With two writing sessions `IndexAgrees` fails without any error: an INSERT between its
  `InsertRow` and its `ListIndexes` is entered twice when CREATE INDEX registers and scans
  in between, and SELECT then answers with the row twice; and CREATE INDEX does not see
  a page that was added after its analyzer read the table definition.
* `ExecuteWithContext` drops the error of `FlushAllPages` and answers ok; until the
  checkpointer succeeds the change is only in the pool (`AckedIsSafe`,
  `DirtyReachesDisk`).
* `Start` returns as soon as `running` is false and the listener closed, and `main` then
  ends the process while `Stop` may still wait for sessions: its last flush need not
  happen. The session of a connection that `Accept` had just returned is not waited for,
  and `wg.Add` may panic (`exit = "panic"`); `AtMostOneLateSession` and
  `StoppedIsDurable` bound what can be missed.
* A signal before `Start` has set `running` is swallowed: the goroutine that receives
  signals ends and later signals find no receiver. `StopEnds` excepts `"ignored"`.
* After its first statement the CLI's `buf` holds the newline behind the semicolon and is
  no longer empty, so `\q`, `\help`, `quit` and `exit` are taken for SQL and spoil the next
  statement, though the banner (`cmd/cli/main.go:37`) says "Type \\help for help, \\q to
  quit.". `Cli` has it so.
* The parser takes any token in an INSERT's VALUES for a string literal; an integer
  out of range is reported at the token that follows it. The lexer has no comments,
  which the sample in the repository's README (lines 26-41) uses.

## 5. What is proved

TLAPS checks these for every value of the constants.

`BufferPoolProofs` (assumptions: finitely many pages, positive sizes, `NoPage` is no
page). `NoStaleRead` alone is not inductive: an eviction must know that
what it drops is on disk, and a later hit that the slot and the owner's copy are the same
object. The inductive invariant is

    IndInv == TypeOK /\ SlotsConsistent /\ OwnerSeesDirtySlot /\ NoStaleRead /\ CleanIsDurable

with one lemma per conjunct and one step per action. From it follow `TypeCorrect`,
`SlotFlagsAgree`, `ReadsAreNotStale` and `CleanPagesAreDurable`; `PoolNeverOverflows`
adds a cardinality argument (a page enters only when a victim leaves or there is room),
and with `SlotFlagsAgree` gives `PoolStaysConsistent`. `OnlyErrorsLoseCandidates` counts:
a step adds a page to those that are resident, not pinned and no candidate only by a
failed write-back, which raises `faults`. `Refinement` shows that every step of the pool
is a step of `PageStore` or a stutter, so what the index and catalog modules assume of
the pool is what the code gives them.

`HeapPageProofs` (assumptions: `PageSize` in 10 .. 65535, records are sequences of bytes of any length).
`Layout` and `RecordsKept` with the type invariant are inductive; the proof is about
single bytes: a write changes the header, one new slot and the new record's bytes, and
these are disjoint from every older slot and record. For `NoSpaceIsLost` the records lie
one below the other without gaps (`Packed`), so `Upper` is the page size less the bytes
written, and a refusal stays right because space only shrinks (`StillRefused`); the sum
`Occupied` is shown to be those offsets by taking the least index where they differ.

`SqlEngineProofs` (assumptions: `Nil` is neither a key nor a range, one table's columns,
rows of integers, indexes on its columns with different names, and predicates that are
finite trees: `FiniteTreesAssumption` says that every set of them has one without an
operand in the set). `BuildIsExact`, `InvertMirrors` and `MergeIsIntersection` say that
the optimizer's ranges are exact for all keys; `MergeAndCovers` is the step from the
operands of an AND to the AND. `RangeCovers` is the induction over the predicate tree, done with a least bad
predicate instead of an induction theorem: `evalBool` and `extractRange` are recursive
functions, so it first shows that their recursions have solutions (`Body`, `Closed`,
`Solves`), then that no predicate can be the least whose range misses a row.
`PlansCover` carries this through planner and optimizer, for any number of writing and
reading sessions. `IndexesAgree` and `SelectsAreExact` have the hypothesis `OneWriter`:
with two writing sessions they are false (section 4). Their inductive invariant adds to
the type invariant that the catalog counts the pages of the heap (`HeapCounted`), that
only registered indexes have entries (`Registered`), `EntriesFit` and `Complete` for each
index, and what each statement knows at its step (`SessionFits`): which indexes the row of
an INSERT is still missing from, which rows CREATE INDEX has still to enter, and for a
SELECT that each row it owes is in its answer or among the TIDs it has still to read. A
plan on an index that is not complete owes nothing, which is how a SELECT planned while
CREATE INDEX runs is excepted. An `Insert` of an index that fails part way keeps any part
of its entries (`IndexInsertFailsStep`): entries stay right and single whatever is dropped
(`EntriesLost`), so `EntriesFit` survives; `Complete` is claimed only of indexes outside
`damaged`, and a scan of a damaged one owes no rows.

`TableHeapProofs` (assumptions: positive page capacity and number of pages; hypothesis
`OneWriter`, without which the first bullet of section 4 applies; any number of readers).
The inductive invariant has three parts. `Pool`: the catalog's count bounds the pages
with acknowledged rows, no two pages share an object, a clean page is in the file as it
is in the pool or lacks just the row whose INSERT has yet to call `UpdatePage`, and every
copy of the page of an acknowledged row has the row. `WriterOK`: what the inserting
session knows at each of its steps about its page object, which may have left the pool
and come back as another object. `ScanOK`: a row that a SELECT owes from the pages it
passed was read or its TID is yet to be read. From it follow `RowsStayReadable`,
`TidsNeverGoBad` and `ScansMissNothing`.

`ReplacerProofs` (assumption: the results "nothing yet" and `nil` are no pages). `LRUInv`
says that list, map and order of use agree, `ClockInv` that ring, map, bits and hand do;
with them each step keeps the policy (`PoliciesAreFollowed`) and is a step of `Replacer`
(`ReplacersImplement`). `NoSlotStarves` has the hypotheses that there are finitely many
pages and at least two (the bound `2N - 3` is about a page that others compete with). It
counts: `Ahead` is what the hand meets before a slot k, and as long as k has its bit the
picks it survived and the slots ahead that have none are together below N (`Turn`); once
its bit is gone they are at most `2N - 3`, since every pick then takes k or a slot ahead
of it that has no bit.

`CatalogProofs` (assumptions: a page has room for a record, the bounds are numbers). The
three properties of the catalog are proved for any number of tables, columns, indexes,
errors and restarts. A restart replaces the maps by what the files hold, so an invariant
about the maps alone is not inductive; `Inv` says what the files hold at every moment:

* `PagesFit`: the file is behind the pool page by page, and by one page at most, which is
  why `appendRecord` may ask the file for the last page (`Behind`);
* `MapsFit`: the maps agree by name and by oid, columns are at positions 0, 1, ..., every
  column and index has its table, the next oids are past all that are given out;
* `RecordsFit`: the maps know every record of the pool, and records come in the order they
  were given out, so the last record of a table is the one with the largest page count;
* `Anchored`, `NoGap`: a table that has columns or indexes is in the file, and so is every
  column but the last. A failed append ends its operation, and this is why it leaves a
  prefix of the columns;
* `Saved`: what was acknowledged is in the files; `OpFits`: what the running operation has
  saved already and what it has still to append.

The step `Restart` needs to know what `Replay` computes. That is an induction over
records, done with a least bad number of replayed records (`UpTo`, from `NatMin`): one
lemma per file says what the maps are after any number of its records (`LoadTypes`,
`LoadTables`, `LoadColumns`, `LoadIndexes`), and `LoadFits` puts them together. From
`Inv` follow `AckedStaysDefined` and `MapsStayWellFormed`.

`RestartsAreTransparent` needs, beside `Inv`, that without errors the pool is as the file
and the maps are what a restart would load (`Transparent`). An append must keep this. A
file determines its own part of the maps, whatever the other parts hold (`ReplayLocal`);
one record more in the file (`AppendSame`) is one `Index` more in the replay
(`ReplayGrows`), which is what `AppendNext` does to the maps (`AppendTransparent`); and the next oid is one past the largest
exactly because oids are given out one by one (`NextAfterNew`). `Return` at boot
recomputes the next oids and finds them as they are (`RecomputeTwice`).

`SetFacts`: `NatMin` is the least-element form of induction, from the library's theorem
that the strict subset order on a finite set is well founded; the others say what
appending, removing and enumerating do to a sequence without repetitions.

`ServerProofs` (assumptions: finitely many clients, `NoId` is no number). All four safety
properties of the server follow from one inductive invariant, whose parts are

* `Arrivals`: a connection is in the backlog, in the hands of `Accept` or has its session,
  so no client gets a second session and `wg.Add` counts each once;
* `AllProgress`: how many lines a session has taken and answered at each place of
  `handleClient`, and which id the response in preparation carries. `AnswersMatch` needs
  it, since `WriteResponse` knows only its reply;
* `AckedSafe`: a change is in pool or files from the moment its statement reaches the
  flush, and a reply that says ok is about a change that is safe. Flushes never take a
  change out of the union of the two (`FlushKeeps`, `PoolGrows`);
* `WaitGroupCounts`, `Releasing`: `wg` is the number of sessions between `wg.Add` and
  `wg.Done`, and at most one session is about to release a waiting `Stop`, with `wg` zero;
* `Stopping`, `Late`: past its `wg.Wait` the listener is closed and the accept loop can
  not hand out a connection, so only the one accepted before can start a session;
* `StoppedSafe`: after the last flush only that session acknowledges changes.

`ResponsesMatch`, `AckedStaysSafe`, `OneLateSession` and `StopIsDurable` are then
implications without a step.

## 6. What is only model-checked

Liveness (`DirtyIsFlushed`, `InsertEnds`, `StopEnds`, `DirtyReachesDisk`,
`LinesAreAnswered`), which needs fairness and `ENABLED`. The front end, whose operators
recurse over text and trees and are compared with reference definitions. All of
`DiskHashIndex` and `DiskBTreeIndex`: their invariants speak of the states inside a split,
where a chain or a subtree is in no consistent state by itself, and of trees and chains
reached by recursion through pages.

## 7. What is not modelled

Torn page writes and crashes inside an index insertion (there is no log: no property
survives them); catalog records longer than a page; directory overflow of a hash index
with more than 64 * 2045 buckets; the byte format of JSON and of catalog records, the
printing of tables, positions in error messages, upper and lower case, and the check for
UTF-8 (characters are single bytes); the projection of a SELECT and the text of EXPLAIN;
the retry of an index creation that failed.

## 8. Plan

Order so far: the pool and what it promises (everything else stands on it), pages and
table heap (rows), indexes (the most intricate code), catalog (recovery), engine
(composition), server, front end. Left, in this order:

1. Proofs. `TableWellFormed` of the hash index: masks, directory and chains agree at each
   step of an insertion; the chains as sets of page numbers instead of by recursion. Then
   `SearchExact` from it, and the same for the B-tree.
2. `SqlEngine` with the index manager's map and failed creations, and with restarts:
   which statements leave table and index apart.
