---------------------------- MODULE ColumnStore ----------------------------
(***************************************************************************)
(* ColumnStore and CStoreSession (src/stdb/storage/column_store.{h,cc}).   *)
(* The column store owns the table columns_ : series id -> NB+tree, guarded *)
(* by table_lock_.  A write session looks a tree up under the lock once and *)
(* keeps it in its own cache_; later writes to that series go to the tree   *)
(* directly, without the table lock.  A write that seals a leaf returns the *)
(* tree's new roots (the rescue point), which the caller stores in the      *)
(* metadata catalog.  close(ids) closes some columns (eviction of inactive  *)
(* series), close() closes all of them at shutdown.                         *)
(*                                                                          *)
(* An NB+tree is abstracted to three numbers: n samples appended, of which  *)
(* the first `sealed` lie in sealed (persisted) leaves, and whether it is   *)
(* initialized.  A rescue point is the number of samples its roots reach.   *)
(* Each append holds the tree's own lock (spec section 5), so it is one     *)
(* step; a section under table_lock_ is one step.                           *)
(***************************************************************************)
EXTENDS Naturals, FiniteSets

CONSTANTS
  Ids,                 \* series ids
  Sessions,            \* writer threads, one CStoreSession each
  Owner,               \* Owner[s]: the series session s writes
  LeafCap,             \* samples per NB+tree leaf
  MaxWrites,           \* bound: samples appended per series
  QuiesceBeforeClose   \* whether close() starts only after every session ended

VARIABLES
  created,   \* DOMAIN columns_
  tree,      \* tree[id] = [n, sealed, init] of columns_[id]
  cache,     \* cache[s] : the ids in session s's cache_
  spc,       \* session state: "run", "publish" (roots in hand), "done"
  out,       \* out[s] : [id, roots] returned through rescue_points
  catalog,   \* rescue point stored in the metadata catalog per id
  closer,    \* phase of ColumnStore::close(): "open", "scan", "closed"
  scanned    \* DOMAIN columns_ when close() began its unlocked scan

vars == <<created, tree, cache, spc, out, catalog, closer, scanned>>

NoTree == [n |-> 0, sealed |-> 0, init |-> FALSE]

Init ==
  /\ created = {}
  /\ tree = [id \in Ids |-> NoTree]
  /\ cache = [s \in Sessions |-> {}]
  /\ spc = [s \in Sessions |-> "run"]
  /\ out = [s \in Sessions |-> [id |-> CHOOSE id \in Ids : TRUE, roots |-> 0]]
  /\ catalog = [id \in Ids |-> 0]
  /\ closer = "open"
  /\ scanned = {}

-----------------------------------------------------------------------------
(* NB+tree operations (NBTreeExtentsList; modelled from the spec).          *)

\* append: an uninitialized tree is initialized from its roots first; the
\* sample fills the open leaf, and a full leaf is sealed (OK_FLUSH_NEEDED).
Append(t) ==
  LET n == t.n + 1
  IN [n |-> n, init |-> TRUE,
      sealed |-> IF n - t.sealed = LeafCap THEN n ELSE t.sealed]

FlushNeeded(t) == Append(t).sealed # t.sealed

\* get_roots: the rescue point reaches the sealed leaves.
Roots(t) == t.sealed

\* close: the open leaf is written out, the roots reach every sample.
Closed(t) == [n |-> t.n, sealed |-> t.n, init |-> FALSE]

-----------------------------------------------------------------------------
(* Column store and session operations (column_store.cc).                   *)

\* ColumnStore::create_new_column, called when a session meets a new series:
\* BadArg (nothing changes) when the column exists.
create_new_column(s, id) ==
  /\ spc[s] = "run" /\ id \in Owner[s]
  /\ created' = created \cup {id}
  /\ tree' = IF id \in created THEN tree
             ELSE [tree EXCEPT ![id] = [NoTree EXCEPT !.init = TRUE]]
  /\ UNCHANGED <<cache, spc, out, catalog, closer, scanned>>

\* Mutant of TakeRoots: the roots are read before the append sealed the leaf.
TakeRoots_before_append(s, id, t) ==
  IF FlushNeeded(t)
  THEN spc' = [spc EXCEPT ![s] = "publish"] /\ out' = [out EXCEPT ![s] = [id |-> id, roots |-> Roots(t)]]
  ELSE UNCHANGED <<spc, out>>

\* The caller of a write that returned OK_FLUSH_NEEDED gets the roots.
TakeRoots(s, id, t) ==
  IF FlushNeeded(t)
  THEN spc' = [spc EXCEPT ![s] = "publish"] /\ out' = [out EXCEPT ![s] = [id |-> id, roots |-> Roots(Append(t))]]
  ELSE UNCHANGED <<spc, out>>

\* Mutant of cstore_write: the tree goes into the cache even when no
\* column was found.
cstore_write_cache_on_miss(s, id) ==
  /\ cache' = [cache EXCEPT ![s] = @ \cup {id}]
  /\ IF id \in created
     THEN tree' = [tree EXCEPT ![id] = Append(tree[id])] /\ TakeRoots(s, id, tree[id])
     ELSE UNCHANGED <<tree, spc, out>>

\* ColumnStore::write, under table_lock_: FAIL_BAD_ID for an id with no
\* column; otherwise append, hand back the roots on OK_FLUSH_NEEDED and put
\* the tree in the session's cache.
cstore_write(s, id) ==
  IF id \in created
  THEN /\ tree' = [tree EXCEPT ![id] = Append(tree[id])]
       /\ cache' = [cache EXCEPT ![s] = @ \cup {id}]
       /\ TakeRoots(s, id, tree[id])
  ELSE UNCHANGED <<tree, cache, spc, out>>

\* CStoreSession::write: a cache hit appends to the cached tree without the
\* table lock and hands back the roots on OK_FLUSH_NEEDED; a miss goes
\* through ColumnStore::write.
session_write(s, id) ==
  /\ spc[s] = "run" /\ id \in Owner[s]
  /\ tree[id].n < MaxWrites
  /\ IF id \in cache[s]
     THEN /\ tree' = [tree EXCEPT ![id] = Append(tree[id])]
          /\ TakeRoots(s, id, tree[id])
          /\ UNCHANGED cache
     ELSE cstore_write(s, id)
  /\ UNCHANGED <<created, catalog, closer, scanned>>

\* The caller stores the roots it got in the metadata catalog (spec 4.2).
publish_roots(s) ==
  /\ spc[s] = "publish"
  /\ catalog' = [catalog EXCEPT ![out[s].id] = out[s].roots]
  /\ spc' = [spc EXCEPT ![s] = "run"]
  /\ UNCHANGED <<created, tree, cache, out, closer, scanned>>

\* The connection ends; the session with its cache is destroyed
\* (CStoreSession::close does nothing).
session_end(s) ==
  /\ spc[s] = "run"
  /\ spc' = [spc EXCEPT ![s] = "done"]
  /\ cache' = [cache EXCEPT ![s] = {}]
  /\ UNCHANGED <<created, tree, out, catalog, closer, scanned>>

\* StandaloneDatabase::create_session: a new connection gets a new
\* CStoreSession over the worker's column store, with an empty cache.  With
\* QuiesceBeforeClose the server accepts no connection once close() began.
create_session(s) ==
  /\ spc[s] = "done"
  /\ QuiesceBeforeClose => closer = "open"
  /\ spc' = [spc EXCEPT ![s] = "run"]
  /\ cache' = [cache EXCEPT ![s] = {}]
  /\ UNCHANGED <<created, tree, out, catalog, closer, scanned>>

\* One id of ColumnStore::iterate, the loop behind scan, filter and the
\* aggregates: under table_lock_, a missing column ends the query with
\* NotFound, and an uninitialized tree (evicted or closed) is force_init'ed
\* from its roots before its operator is made.  Only the initialization
\* changes state.
iterate(id) ==
  /\ id \in created /\ ~tree[id].init
  /\ tree' = [tree EXCEPT ![id].init = TRUE]
  /\ UNCHANGED <<created, cache, spc, out, catalog, closer, scanned>>

Inactive(id) == \A s \in Sessions : id \in Owner[s] => spc[s] = "done"

\* One iteration of ColumnStore::close(ids) (under table_lock_): an
\* initialized tree is closed and its roots returned.  The Inactive guard
\* and the catalog store are the eviction caller's (spec 4.2), which is
\* not in src.
close_column(id) ==
  /\ Inactive(id)
  /\ id \in created /\ tree[id].init
  /\ tree' = [tree EXCEPT ![id] = Closed(tree[id])]
  /\ catalog' = [catalog EXCEPT ![id] = Roots(Closed(tree[id]))]
  /\ UNCHANGED <<created, cache, spc, out, closer, scanned>>

\* ColumnStore::close(), first part: the memory report walks columns_
\* without table_lock_.
close_scan ==
  /\ closer = "open"
  /\ QuiesceBeforeClose => \A s \in Sessions : spc[s] = "done"
  /\ closer' = "scan"
  /\ scanned' = created
  /\ UNCHANGED <<created, tree, cache, spc, out, catalog>>

\* Mutant of close_commit: the mapping takes get_roots() before close()
\* writes the open leaf out.
close_commit_without_flush ==
  /\ closer = "scan"
  /\ closer' = "closed"
  /\ tree' = [id \in Ids |-> IF id \in created /\ tree[id].init
                             THEN Closed(tree[id]) ELSE tree[id]]
  /\ catalog' = [id \in Ids |-> IF id \in created /\ tree[id].init
                                THEN Roots(tree[id]) ELSE catalog[id]]
  /\ UNCHANGED <<created, cache, spc, out, scanned>>

\* ColumnStore::close(), second part, under table_lock_: every initialized
\* tree is closed and its roots form the mapping stored in the catalog.
close_commit ==
  /\ closer = "scan"
  /\ closer' = "closed"
  /\ tree' = [id \in Ids |-> IF id \in created /\ tree[id].init
                             THEN Closed(tree[id]) ELSE tree[id]]
  /\ catalog' = [id \in Ids |-> IF id \in created /\ tree[id].init
                                THEN Roots(Closed(tree[id])) ELSE catalog[id]]
  /\ UNCHANGED <<created, cache, spc, out, scanned>>

Next ==
  \/ \E s \in Sessions, id \in Ids :
       create_new_column(s, id) \/ session_write(s, id)
  \/ \E s \in Sessions : publish_roots(s) \/ session_end(s) \/ create_session(s)
  \/ \E id \in Ids : close_column(id) \/ iterate(id)
  \/ close_scan \/ close_commit

\* A session thread goes on from a write to storing its roots.  New
\* connections, queries, eviction and shutdown are not promised to happen.
Fairness == \A s \in Sessions : WF_vars(publish_roots(s))

Spec == Init /\ [][Next]_vars /\ Fairness

-----------------------------------------------------------------------------
TypeOK ==
  /\ created \subseteq Ids
  /\ tree \in [Ids -> [n : 0..MaxWrites, sealed : 0..MaxWrites, init : BOOLEAN]]
  /\ cache \in [Sessions -> SUBSET created]
  /\ spc \in [Sessions -> {"run", "publish", "done"}]
  /\ out \in [Sessions -> [id : Ids, roots : 0..MaxWrites]]
  /\ catalog \in [Ids -> 0..MaxWrites]
  /\ closer \in {"open", "scan", "closed"}
  /\ scanned \subseteq Ids

(***************************************************************************)
(* ColumnStore::close() iterates columns_ for its memory report before it  *)
(* takes table_lock_.  No create_new_column (an insert into the           *)
(* unordered_map, which may rehash it) may happen while that scan runs.    *)
(***************************************************************************)
NoMapMutationDuringUnlockedScan ==
  closer = "scan" => created = scanned

(***************************************************************************)
(* Once close() has returned, every sample a write acknowledged is reached *)
(* by the rescue point the catalog holds for its series: nothing written   *)
(* before shutdown is left in a leaf the final mapping does not cover,     *)
(* whether the tree was closed by close(), evicted by close(ids) earlier,  *)
(* or written again after an eviction.                                     *)
(***************************************************************************)
CloseCommitsEverything ==
  closer = "closed" => \A id \in created : catalog[id] = tree[id].n

(***************************************************************************)
(* Every sealed leaf is eventually reachable from the catalog: whenever a  *)
(* write seals a leaf (OK_FLUSH_NEEDED), the roots reaching it are stored, *)
(* with no eviction or shutdown needed to get them there.                  *)
(***************************************************************************)
SealedLeavesReachCatalog ==
  \A id \in Ids, k \in 1..MaxWrites :
    (tree[id].sealed >= k) ~> (catalog[id] >= k)

=============================================================================
