----------------------------- MODULE Recovery -----------------------------
(***************************************************************************)
(* Crash recovery of the worker database: the write path through the WAL   *)
(* and the column store, crashes, and the restart that                     *)
(* StandaloneDatabase::initialize runs (src/stdb/core/standalone_database. *)
(* cc): ColumnStore::open_or_restore over the catalog's rescue points,      *)
(* replay of the WAL through the database's recovery hooks, republication   *)
(* of rescue points, and clearing of the WAL.                              *)
(*                                                                          *)
(* A sample is identified by its number within its series (its timestamp); *)
(* a client numbers samples 1, 2, ... per series.  An NB+tree is the       *)
(* sequence of samples it holds, of which the first `sealed` are in sealed  *)
(* leaves; persisted[id] is what the block store holds for the series, and  *)
(* a rescue point reaches its first `roots` samples.  The WAL driver, the   *)
(* NB+tree and the catalog are not in src and are modelled from the spec    *)
(* (sections 4.2, 4.5); the hooks and the column store are the code's.      *)
(***************************************************************************)
EXTENDS Naturals, Sequences, SequencesExt

CONSTANTS
  Ids,          \* series ids
  LeafCap,      \* samples per NB+tree leaf
  MaxWrites,    \* bound: samples a client writes per series
  MaxCrashes,   \* bound: crashes in a behaviour
  ForceInit,    \* the force_init argument of open_or_restore
  ReplayHook    \* "standalone": StandaloneDatabase::recovery_write;
                \* "column_store": ColumnStore::recovery_write

VARIABLES
  phase,        \* "run", "down" (crashed), "closed" (shut down),
                \* "open", "replay", "clear" (recovery steps)
  created,      \* DOMAIN columns_
  tree,         \* tree[id] = [seq, sealed, init]
  persisted,    \* samples in the series' sealed leaves on the block store
  catalog,      \* catalog[id] = [has, roots, closed]: stored rescue point
  pend,         \* roots a write returned and the session has not stored yet
  frame,        \* the session's WAL frame in memory, per series
  wal,          \* WAL records on disk since the last clear, per series
  rcur,         \* replay cursor into wal[id]
  rescue_points,\* ColumnStore::rescue_points_
  committed,    \* history: samples whose WAL frame was flushed
  issued,       \* history: last sample number the client wrote per series
  crashes       \* number of crashes so far

vars == <<phase, created, tree, persisted, catalog, pend, frame, wal, rcur,
          rescue_points, committed, issued, crashes>>

NoTree == [seq |-> <<>>, sealed |-> 0, init |-> FALSE]
NoEntry == [has |-> FALSE, roots |-> 0, closed |-> FALSE]

Init ==
  /\ phase = "run"
  /\ created = {}
  /\ tree = [id \in Ids |-> NoTree]
  /\ persisted = [id \in Ids |-> <<>>]
  /\ catalog = [id \in Ids |-> NoEntry]
  /\ pend = [id \in Ids |-> 0]
  /\ frame = [id \in Ids |-> <<>>]
  /\ wal = [id \in Ids |-> <<>>]
  /\ rcur = [id \in Ids |-> 1]
  /\ rescue_points = [id \in Ids |-> 0]
  /\ committed = [id \in Ids |-> {}]
  /\ issued = [id \in Ids |-> 0]
  /\ crashes = 0

-----------------------------------------------------------------------------
(* NB+tree (spec 4.2).                                                      *)

\* append: the sample fills the open leaf; a full leaf is sealed and written.
AppendSample(t, k) ==
  LET s == Append(t.seq, k)
  IN [seq |-> s, init |-> TRUE,
      sealed |-> IF Len(s) - t.sealed = LeafCap THEN Len(s) ELSE t.sealed]

\* append with allow_duplicates during recovery: a sample the tree already
\* holds is accepted without changing it, so replay is idempotent.
RecoveryAppend(t, k) ==
  IF k \in ToSet(t.seq) THEN [t EXCEPT !.init = TRUE] ELSE AppendSample(t, k)

\* close: the open leaf is written; the roots reach every sample.
CloseTree(t) == [seq |-> t.seq, sealed |-> Len(t.seq), init |-> FALSE]

Sealed(t) == SubSeq(t.seq, 1, t.sealed)

\* repair_status: rescue points not written by close() need repair.
NeedsRepair(id) == ~catalog[id].closed

\* ColumnStore::close() / close(ids): every initialized tree is closed,
\* which writes its open leaf, and its roots are returned.
OpenTrees == {id \in created : tree[id].init}

\* The caller stores each returned rescue point in the catalog
\* (recovery_update_rescue_points during recovery, the worker database's
\* close at shutdown).
UpdateRescuePoints(ids) ==
  [id \in Ids |-> IF id \in ids
                  THEN [has |-> TRUE, roots |-> Len(tree[id].seq), closed |-> TRUE]
                  ELSE catalog[id]]

CloseOpenTrees ==
  /\ tree' = [id \in Ids |-> IF id \in OpenTrees THEN CloseTree(tree[id]) ELSE tree[id]]
  /\ persisted' = [id \in Ids |-> IF id \in OpenTrees THEN tree[id].seq ELSE persisted[id]]
  /\ catalog' = UpdateRescuePoints(OpenTrees)

-----------------------------------------------------------------------------
(* Normal operation.                                                        *)

\* ColumnStore::create_new_column for a new series: an initialized empty tree.
create_column(id) ==
  /\ phase = "run"
  /\ id \notin created /\ ~catalog[id].has
  /\ created' = created \cup {id}
  /\ tree' = [tree EXCEPT ![id] = [NoTree EXCEPT !.init = TRUE]]
  /\ UNCHANGED <<phase, persisted, catalog, pend, frame, wal, rcur,
                 rescue_points, committed, issued, crashes>>

\* A session write: the record goes into the WAL frame, the sample into
\* the tree (ColumnStore::write); a sealed leaf returns the new roots.
write(id) ==
  /\ phase = "run"
  /\ id \in created /\ pend[id] = 0 /\ issued[id] < MaxWrites
  /\ LET k == issued[id] + 1
         t == AppendSample(tree[id], k)
     IN /\ issued' = [issued EXCEPT ![id] = k]
        /\ frame' = [frame EXCEPT ![id] = Append(@, k)]
        /\ tree' = [tree EXCEPT ![id] = t]
        /\ persisted' = [persisted EXCEPT ![id] = Sealed(t)]
        /\ pend' = IF t.sealed # tree[id].sealed
                   THEN [pend EXCEPT ![id] = t.sealed] ELSE pend
  /\ UNCHANGED <<phase, created, catalog, wal, rcur, rescue_points, committed, crashes>>

\* The session stores the roots it got in the catalog.
publish(id) ==
  /\ phase = "run" /\ pend[id] # 0
  /\ catalog' = [catalog EXCEPT ![id] = [has |-> TRUE, roots |-> pend[id], closed |-> FALSE]]
  /\ pend' = [pend EXCEPT ![id] = 0]
  /\ UNCHANGED <<phase, created, tree, persisted, frame, wal, rcur,
                 rescue_points, committed, issued, crashes>>

\* The WAL frame is flushed (session close or volume rotation).
FlushedWal == [id \in Ids |-> wal[id] \o frame[id]]
FlushedCommitted == [id \in Ids |-> committed[id] \cup ToSet(frame[id])]

flush_frame ==
  /\ phase = "run"
  /\ \E id \in Ids : frame[id] # <<>>
  /\ wal' = FlushedWal
  /\ committed' = FlushedCommitted
  /\ frame' = [id \in Ids |-> <<>>]
  /\ UNCHANGED <<phase, created, tree, persisted, catalog, pend, rcur,
                 rescue_points, issued, crashes>>

\* StandaloneDatabase::close: the server database, then the worker database
\* closes: sessions end (frames flushed) and ColumnStore::close() closes
\* every initialized tree, whose roots are stored.
shutdown ==
  /\ phase = "run"
  /\ phase' = "closed"
  /\ wal' = FlushedWal
  /\ committed' = FlushedCommitted
  /\ frame' = [id \in Ids |-> <<>>]
  /\ CloseOpenTrees
  /\ pend' = [id \in Ids |-> 0]
  /\ UNCHANGED <<created, rcur, rescue_points, issued, crashes>>

\* The process dies: memory is lost, the block store, WAL and catalog stay.
crash ==
  /\ phase # "down" /\ crashes < MaxCrashes
  /\ phase' = "down"
  /\ crashes' = crashes + 1
  /\ created' = {}
  /\ tree' = [id \in Ids |-> NoTree]
  /\ pend' = [id \in Ids |-> 0]
  /\ frame' = [id \in Ids |-> <<>>]
  /\ rescue_points' = [id \in Ids |-> 0]
  /\ UNCHANGED <<persisted, catalog, wal, rcur, committed, issued>>

\* StandaloneDatabase::initialize after a crash or a clean shutdown.
restart ==
  /\ phase \in {"down", "closed"}
  /\ phase' = "open"
  /\ created' = {}
  /\ tree' = [id \in Ids |-> NoTree]
  /\ UNCHANGED <<persisted, catalog, pend, frame, wal, rcur, rescue_points,
                 committed, issued, crashes>>

-----------------------------------------------------------------------------
(* Recovery (spec 4.5, steps 2-5).                                          *)

\* Mutant of recover_open: the replay cursor is not reset for a new recovery.
recover_open_keeps_cursor ==
  /\ phase = "open"
  /\ LET listed == {id \in Ids : catalog[id].has}
         restored(id) == SubSeq(persisted[id], 1, catalog[id].roots)
     IN /\ created' = listed
        /\ tree' = [id \in Ids |->
                      IF id \in listed
                      THEN [seq |-> restored(id), sealed |-> catalog[id].roots, init |-> ForceInit]
                      ELSE NoTree]
        /\ persisted' = [id \in Ids |-> IF id \in listed THEN restored(id) ELSE <<>>]
        /\ rescue_points' = [id \in Ids |->
                               IF id \in listed /\ NeedsRepair(id) /\ ~ForceInit
                               THEN catalog[id].roots ELSE 0]
  /\ phase' = "replay"
  /\ UNCHANGED <<rcur, catalog, pend, frame, wal, committed, issued, crashes>>

\* ColumnStore::open_or_restore(mapping, ForceInit): a tree per catalogued
\* series from its rescue points; a tree needing repair is initialized and,
\* without force_init, closed again with its roots kept in rescue_points_.
recover_open ==
  /\ phase = "open"
  /\ LET listed == {id \in Ids : catalog[id].has}
         restored(id) == SubSeq(persisted[id], 1, catalog[id].roots)
     IN /\ created' = listed
        /\ tree' = [id \in Ids |->
                      IF id \in listed
                      THEN [seq |-> restored(id), sealed |-> catalog[id].roots, init |-> ForceInit]
                      ELSE NoTree]
        /\ persisted' = [id \in Ids |-> IF id \in listed THEN restored(id) ELSE <<>>]
        /\ rescue_points' = [id \in Ids |->
                               IF id \in listed /\ NeedsRepair(id) /\ ~ForceInit
                               THEN catalog[id].roots ELSE 0]
  /\ rcur' = [id \in Ids |-> 1]
  /\ phase' = "replay"
  /\ UNCHANGED <<catalog, pend, frame, wal, committed, issued, crashes>>

\* StandaloneDatabase::recovery_create_new_column: ColumnStore::
\* create_new_column for a series the replay meets without a column.
ReplayColumn(id) ==
  IF id \in created THEN tree[id] ELSE [NoTree EXCEPT !.init = TRUE]

\* The recovery_write hook the replay calls: ColumnStore::recovery_write
\* appends with allow_duplicates; StandaloneDatabase::recovery_write has an
\* empty body (undefined behaviour), which the build compiles to writing
\* nothing.
ReplayWrite(t, k) ==
  IF ReplayHook = "column_store" THEN RecoveryAppend(t, k) ELSE t

\* Mutant of recover_replay: a record of a series with no column is dropped
\* (recovery_write's FAIL_BAD_ID) instead of creating the column.
recover_replay_missing_column_skipped(id) ==
  /\ phase = "replay"
  /\ rcur[id] <= Len(wal[id])
  /\ LET k == wal[id][rcur[id]]
         t == ReplayWrite(tree[id], k)
     IN IF id \in created
        THEN tree' = [tree EXCEPT ![id] = t] /\ persisted' = [persisted EXCEPT ![id] = Sealed(t)]
        ELSE UNCHANGED <<tree, persisted>>
  /\ rcur' = [rcur EXCEPT ![id] = @ + 1]
  /\ UNCHANGED <<phase, created, catalog, pend, frame, wal, rescue_points, committed, issued, crashes>>

\* One WAL record replayed: the column is created if missing
\* (recovery_create_new_column) and the sample goes through recovery_write.
recover_replay(id) ==
  /\ phase = "replay"
  /\ rcur[id] <= Len(wal[id])
  /\ LET t == ReplayWrite(ReplayColumn(id), wal[id][rcur[id]])
     IN /\ created' = created \cup {id}
        /\ tree' = [tree EXCEPT ![id] = t]
        /\ persisted' = [persisted EXCEPT ![id] = Sealed(t)]
  /\ rcur' = [rcur EXCEPT ![id] = @ + 1]
  /\ UNCHANGED <<phase, catalog, pend, frame, wal, rescue_points, committed, issued, crashes>>

\* Mutant of recover_publish: rescue points are republished (and the WAL
\* cleared) before every record has been replayed.
recover_publish_before_replay ==
  /\ phase = "replay"
  /\ CloseOpenTrees
  /\ phase' = "clear"
  /\ UNCHANGED <<created, pend, frame, wal, rcur, rescue_points, committed, issued, crashes>>

\* After replay, ColumnStore::close(ids) closes the replayed trees and
\* recovery_update_rescue_points stores their roots.
recover_publish ==
  /\ phase = "replay"
  /\ \A id \in Ids : rcur[id] > Len(wal[id])
  /\ CloseOpenTrees
  /\ phase' = "clear"
  /\ UNCHANGED <<created, pend, frame, wal, rcur, rescue_points, committed, issued, crashes>>

\* The WAL is cleared and the database opens for writes.
recover_clear ==
  /\ phase = "clear"
  /\ wal' = [id \in Ids |-> <<>>]
  /\ phase' = "run"
  /\ UNCHANGED <<created, tree, persisted, catalog, pend, frame, rcur,
                 rescue_points, committed, issued, crashes>>

Next ==
  \/ \E id \in Ids : create_column(id) \/ write(id) \/ publish(id) \/ recover_replay(id)
  \/ flush_frame \/ shutdown \/ crash \/ restart
  \/ recover_open \/ recover_publish \/ recover_clear

\* Recovery runs to its end on the thread that calls initialize; a session
\* stores the roots it got.  Crashes, restarts, writes and shutdown are not
\* forced.
Fairness ==
  /\ WF_vars(recover_open) /\ WF_vars(recover_publish) /\ WF_vars(recover_clear)
  /\ \A id \in Ids : WF_vars(recover_replay(id)) /\ WF_vars(publish(id))

Spec == Init /\ [][Next]_vars /\ Fairness

-----------------------------------------------------------------------------
\* The samples the catalog's rescue point reaches, and those in the WAL.
Reachable(id) == ToSet(SubSeq(persisted[id], 1, catalog[id].roots))
Logged(id) == ToSet(wal[id])

TypeOK ==
  /\ phase \in {"run", "down", "closed", "open", "replay", "clear"}
  /\ created \subseteq Ids
  /\ \A id \in Ids :
       /\ tree[id].sealed <= Len(tree[id].seq)
       /\ catalog[id].roots <= Len(persisted[id])
       /\ phase \in {"replay", "clear"} => rcur[id] \in 1..Len(wal[id]) + 1
  /\ crashes \in 0..MaxCrashes

(***************************************************************************)
(* Spec section 3: a committed write (its WAL frame flushed) is reachable   *)
(* from the series' stored rescue point or is in the WAL, at every point of *)
(* every behaviour: across writes that seal leaves before their roots are   *)
(* stored, crashes at any step, open_or_restore, replay and the WAL clear.  *)
(***************************************************************************)
CommittedDurable ==
  \A id \in Ids : committed[id] \subseteq Reachable(id) \cup Logged(id)

(***************************************************************************)
(* Spec property 7: once recovery has finished and writes are accepted     *)
(* again, every committed sample is in its series' tree: the samples the   *)
(* rescue points lost were put back by recovery_write.                     *)
(***************************************************************************)
CommittedPresentAfterRecovery ==
  phase = "run" => \A id \in Ids : committed[id] \subseteq ToSet(tree[id].seq)

=============================================================================
