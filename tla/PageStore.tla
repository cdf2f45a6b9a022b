------------------------------ MODULE PageStore ------------------------------
(***************************************************************************)
(* What the buffer pool promises to the structures built on it (catalog    *)
(* files, hash and B-tree index files): a volatile page store in front of  *)
(* stable storage.                                                         *)
(*                                                                         *)
(* The owner of a page fetches it, edits its bytes in place and commits    *)
(* the edit with UpdatePage.  Whatever happens in between, a fetch returns *)
(* the last committed contents.  Three weaknesses are part of the promise, *)
(* because the code has them:                                              *)
(*   - a page made by NewPage is `fresh' until its first UpdatePage, and a *)
(*     fresh page may be dropped by any other operation;                   *)
(*   - a write-back may expose an edit that was not committed yet;         *)
(*   - a commit that fails leaves the page as stable storage has it.       *)
(***************************************************************************)
EXTENDS Naturals

CONSTANTS Keys,      \* page keys (file, page number)
          Contents,  \* possible bytes of a page
          NoPage     \* no such page / no copy held

VARIABLES store,     \* store[k]: the committed contents of page k
          stable,    \* stable[k]: what a restarted process would read
          work,      \* work[k]: the copy its owner is working on
          fresh,     \* pages created and never committed since
          editing    \* pages whose copy has uncommitted edits

vars == <<store, stable, work, fresh, editing>>

Init ==
  /\ store = [k \in Keys |-> NoPage]
  /\ stable = [k \in Keys |-> NoPage]
  /\ work = [k \in Keys |-> NoPage]
  /\ fresh = {}
  /\ editing = {}

\* Any operation may write pages back, but no fresh one; a page under edit
\* may be written back with its edit.
WriteBack ==
  /\ stable' \in [Keys -> Contents \cup {NoPage}]
  /\ \A k \in Keys :
       \/ stable'[k] = stable[k]
       \/ k \notin fresh /\ stable'[k] = store[k]
       \/ k \in editing \ fresh /\ stable'[k] = work[k]

\* The store after the fresh pages of D were dropped.
Without(D) == [k \in Keys |-> IF k \in D THEN stable[k] ELSE store[k]]

Settle(D) ==
  /\ store' = Without(D)
  /\ fresh' = fresh \ D
  /\ UNCHANGED <<work, editing>>

Fetch(k, D) ==
  /\ k \notin editing \cup D
  /\ store[k] # NoPage
  /\ work' = [work EXCEPT ![k] = store[k]]
  /\ store' = Without(D)
  /\ fresh' = fresh \ D
  /\ UNCHANGED editing

Create(k, v, D) ==
  /\ k \notin editing \cup D
  /\ store' = [Without(D) EXCEPT ![k] = v]
  /\ work' = [work EXCEPT ![k] = v]
  /\ fresh' = (fresh \ D) \cup {k}
  /\ UNCHANGED editing

Edit(k, v) ==
  /\ work[k] # NoPage
  /\ work' = [work EXCEPT ![k] = v]
  /\ editing' = editing \cup {k}
  /\ UNCHANGED <<store, fresh>>

Commit(k, D) ==
  /\ k \in editing \ D
  /\ store' = [Without(D) EXCEPT ![k] = work[k]]
  /\ work' = [work EXCEPT ![k] = NoPage]
  /\ fresh' = (fresh \ D) \ {k}
  /\ editing' = editing \ {k}

Abandon(k, D) ==
  /\ k \in editing \ D
  /\ store' = [Without(D) EXCEPT ![k] = stable[k]]
  /\ work' = [work EXCEPT ![k] = NoPage]
  /\ fresh' = (fresh \ D) \ {k}
  /\ editing' = editing \ {k}

Release(k) ==
  /\ k \notin editing
  /\ work' = [work EXCEPT ![k] = NoPage]
  /\ UNCHANGED <<store, fresh, editing>>

Operation ==
  \/ \E D \in SUBSET fresh :
       \/ Settle(D)
       \/ \E k \in Keys : Fetch(k, D) \/ Commit(k, D) \/ Abandon(k, D)
       \/ \E k \in Keys, v \in Contents : Create(k, v, D)
  \/ \E k \in Keys : Release(k) \/ \E v \in Contents : Edit(k, v)

Restart ==
  /\ store' = stable
  /\ work' = [k \in Keys |-> NoPage]
  /\ fresh' = {}
  /\ editing' = {}
  /\ UNCHANGED stable

Next ==
  \/ WriteBack /\ Operation
  \/ Restart

Spec == Init /\ [][Next]_vars
==============================================================================
