# TLA+ models of stdb

These are TLA+ specifications of the parts of stdb (`src/stdb`) whose
behaviour depends on interleavings, chunking or shutdown order. TLC checks
them. Each module translates specific code. PROJECT.json maps every
definition to the lines it models.

## The system and its parts

| Part | Source | State / operations | Module |
|---|---|---|---|
| Read buffer | `protocol/protocolparser.cc` 27–145 | vector `buffer_`, `rpos_`, `wpos_`, `cons_`, `buffers_allocated_`; pull, push, read/get, consume, discard | `ReadBuffer`, abstract `StreamWindow` |
| RESP parser | `protocol/protocolparser.cc` 148–616 | `idmap_`, `values_`, `events_`, read buffer; parse_next → worker → parse_dict / parse_ids / parse_timestamp / parse_values → DbSession::write | `RespParser` |
| OpenTSDB parser | `protocol/protocolparser.cc` 620–962 | line reader over the same buffer; put / STATS / VERSION / ignored commands | `OpenTSDBParser` |
| Column store | `storage/column_store.{h,cc}` | `columns_` (id → NB+tree) under `table_lock_`; create_new_column, write, close(), close(ids), open_or_restore, recovery_write | `ColumnStore` |
| Write session | `storage/column_store.cc` 169–208 | `cache_` (id → tree); write through the cache without the table lock | `ColumnStore` |
| NB+tree, metadata catalog | not in `src` (spec §4.2, §4.3) | append / get_roots / close; the stored rescue points | `ColumnStore`, `Recovery`, modelled from the spec |
| Standalone database, recovery | `core/standalone_database.cc`, `storage/column_store.cc` 17–55, 158–167 | initialize, recovery hooks, open_or_restore, recovery_write | `Recovery` |
| WAL | not in `src` (spec §4.5) | frame flush, replay, clear | `Recovery`, modelled from the spec |
| Series index, query engine, TCP server, RWLock, CRC32C | headers only or absent | — | see "Not modelled" |

How the parts interact: the TCP server pulls a region of a connection's
ReadBuffer, fills it and pushes it back, then calls `parse_next`. The
parser's `worker()` reads PDUs (protocol data units, one message each)
out of the buffer. It consumes each whole PDU and writes its samples
through a DbSession. In the standalone database that session is a
CStoreSession. The session appends to a column's NB+tree. When a write
seals a leaf it returns the tree's roots (its rescue point). The caller
stores these roots in the metadata catalog. At shutdown, `close()`
closes every tree, and its mapping goes to the catalog.

## Modules

### StreamWindow, ReadBuffer, MCReadBuffer

`StreamWindow` is the abstract contract a parser relies on. It states no
buffer layout. The stream has three marks: consumed ≤ read-to ≤ received.
A read returns the next stream bytes, discard goes back to the last
consume, and the server fills at most one region at a time.

`ReadBuffer` has one action for each method, and each action translates
the method's whole body.
- A byte is represented by its ordinal in the stream. A zero-filled byte
  is 0.
- `pull` models both branches: rotation with `std::copy`, and doubling
  with `resize`.
- `read(n)` stands for `read` and for n calls of `get`.
- `WindowRefinement` instantiates `StreamWindow` with the stream
  positions `received - (wpos - cons)` and `received - (wpos - rpos)`.
  It checks the abstract spec as a PROPERTY.

Bounds: BUFFER_SIZE 2, N_BUF 4, vector at most 16 bytes, 14 stream
bytes. These bounds are enough for the vector to rotate several times,
to double once, and for a region to be pulled when rotation is possible
and when it is not.

### RespParser, MCRespParser

**The stream.** The client's stream is a sequence of RESP elements. An
element is a simple string, an integer, an array header or a bulk
string. Byte-level framing (`RESPStream`) is not modelled, because it
is not in `src`. `parse_next(k)` delivers the next k elements as one
TCP chunk and starts `worker()`. Chunk sizes 1..MaxChunk make TLC cut
every stream at every position.

**Parser actions.** `parse_dict` models one iteration of the
dictionary loop. `worker_pdu` models one iteration of the PDU loop.
Each returns to `idle` when its input is incomplete (the `discard` and
`return` paths). Each fails on a protocol error (the
`ProtocolParserError` throw). The helpers DictPairs, ParsePdu,
ParseValues and ArrayValues follow the code's loops. They return the
code's partial updates of `idmap_`, `values_` and `events_`.

**Nondeterministic inputs.**
- `order` is the unspecified iteration order of an `unordered_multimap`
  equal_range.
- `WriteMayFail` lets DbSession::write fail after any sample of a row.

**Reference decoder.** `Units`, `ProtocolSamples` and the helpers
before them are a reference decoder. It is written from the protocol
described in the header comment of `RESPProtocolParser`, and it
decodes the whole stream at once.

**Streams checked.** `MCWellFormed` has seven streams. Together they
cover:
- dictionaries;
- compound rows;
- events;
- ISO timestamps;
- an unknown name;
- an odd-sized dictionary;
- an array one value short;
- a non-integer uid;
- a bulk-string series name.

### ColumnStore, MCColumnStore

**State.** Sessions, an eviction worker and the shutdown thread share
`columns_`. Each session is a connection thread with its own
`CStoreSession`. An NB+tree is abstracted to three things:
- the number of samples appended;
- the length of the sealed prefix (persisted leaves);
- `init`.

`Append` seals a leaf every `LeafCap` samples (OK_FLUSH_NEEDED).
`Roots` is the sealed prefix. `Closed` writes the open leaf out.
Appending to a closed tree re-opens it from its roots. These operators
and the catalog update are modelled from the spec, because their code
is not in `src`.

**Actions.**
- `session_write` is the whole of `CStoreSession::write`: the cached
  path, or on a miss the helper `cstore_write`. That helper is
  `ColumnStore::write`, which fails with FAIL_BAD_ID for an id with no
  column. The float and event payloads
  differ only in the append overload, so they are one action.
- `close()` is two steps. `close_scan` is the unlocked memory-report
  loop. `close_commit` is the locked commit.
- `close_column` is one iteration of `close(ids)` over an inactive
  series, which is what the spec's eviction of inactive series does.
  `close(ids)` itself has no caller in `src`. Two parts of the action
  belong to that caller, not to `close(ids)`: the `Inactive` guard and
  the storing of the returned roots in the catalog.
- `session_end` drops the session and its cache (`CStoreSession::close`
  does nothing). `create_session` is `StandaloneDatabase::create_session`:
  a later connection for the same series starts with an empty cache, so
  its first write goes through `ColumnStore::write` again. This is how a
  series is written again after eviction: the write re-opens the closed
  tree from its roots. Under `QuiesceBeforeClose`, no connection is
  accepted once `close()` has begun.
- `iterate` is one id of `ColumnStore::iterate`, the loop behind `scan`,
  `filter` and the aggregates. Under the table lock it `force_init`s a
  tree that eviction or `close()` left uninitialized. This is the only
  state a query changes. The operators it builds are left out. So a
  closed tree can be re-opened by a reader, and a later `close()` or
  eviction must close it again.

**Bounds and configurations.** All configurations use 2 sessions,
LeafCap 2 and 4 writes per series. That gives two sealed leaves, an open
leaf at shutdown, and eviction before and after sealing.
- The passing configuration (174,813 states) has 3 series. The second
  session writes two of them through one cache, and no series has two
  writers, as `column_store.h` assumes. It starts `close()` only after
  the sessions end (`QuiesceBeforeClose`).
- The violation configurations have 2 series, one per session.
- If `Owner` gives both sessions the same series, which spec §5 permits,
  TLC reports `SealedLeavesReachCatalog` violated. Two sessions store
  their roots in either order, so older roots can overwrite newer ones
  (hazard at `column_store.cc:146`). No run records this case.
- The violation configurations drop one of these assumptions each.

### OpenTSDBLine, OpenTSDBParser, MCOpenTSDBParser

**The stream.** A telnet stream is a sequence of lines. Each line is the
sequence of bytes `read_line` returns, newline included (one-character
strings). `read_line` always stops just past a newline, so `rpos_` and
`cons_` are counted in lines and `wpos_` in bytes. `parse_next(k)`
pushes k bytes, so a chunk may end inside a line.

**The lexer (OpenTSDBLine).** The bytes go through the code's own steps:
- `message_dispatch` tries the command prefixes in the code's order;
- `SkipSpaces` is the loop over redundant spaces after `put `;
- `skip_element` is the two loops over an element and its blanks;
- `TagsTrailing` is the backward loop over the tags' trailing blanks.
`PutLayout` takes the sizes exactly as `worker()` computes them and
models `std::rotate`; `SplitPut` cuts the series name, timestamp and
value out of the rotated bytes. `Tokens` and `ProtocolPut` are the
reference: the protocol's words, found without any of that arithmetic.
`Using` binds a value once. TLC re-evaluates a LET definition at every
use while it records coverage, so the nested skips need it.

**Timestamps and values.** `Lead` is the number `strtoull` reads from
a token's leading digits. The code and the spec compare that number
only with 0xFFFFFFFF and 2^32. A small stand-in for 0xFFFFFFFF (5)
therefore keeps the outcome of every comparison. A value is accepted
when `strtod` reads all of it; values are digit strings.

**Actions.** There is one action per case of `worker()`'s switch: put,
STATS/VERSION (reply), ignored commands, and unknown. There is also
`worker_wait`, for when no complete line fits the quota. `Parsed`
tabulates the put case's parse of every line a stream may contain.
It is constant-level, so TLC computes it once.

**Inputs.** `MCWellFormed` holds seven hand-written streams. They cover
known and rejected metrics, seconds and nanoseconds, a word as timestamp
or value, a put without tags, the reply and ignored commands, and an
unknown line. It also holds every one-line stream `put ` + b + newline,
for each word b of at most 8 bytes over {"3", " "}. That is 511 lines,
which reach:
- every short-argument error;
- redundant spaces;
- every count of blanks between fields and at the end;
- lines of exactly the 13-byte quota.

No stream has a line longer than the quota. Such a line stalls the
connection (hazard at `protocolparser.cc:777`). `read_line` returns a
negative count for it, so every later `parse_next` ends in
`worker_wait`: nothing is consumed and no error is raised, and a put
behind the long line is never read. No run checks this stall. A
STATS or VERSION line before a put strands the put the same way, because
`worker()` returns after the reply (`protocolparser.cc:929`). The tsdb
streams keep reply commands last. So the tsdb run states no liveness
property: any drain property would hold there only because the streams
avoid both cases.

**Reference.** `ProtocolTs`, `Broken` and `ProtocolSamples` decode the
stream as spec §6 states the protocol.

### Recovery, MCRecovery

**State.** A sample is named by its number within its series. A tree is
the sequence of samples it holds, and its first `sealed` samples are in
sealed leaves.
- `persisted` is what the block store holds.
- A catalog entry is the stored rescue point: how many samples it
  reaches, and whether `close()` wrote it.
- `frame` is the session's unflushed WAL frame, and `wal` the flushed
  records.
- `committed` is the history of samples whose frame was flushed.

**Normal operation.** `write` models `ColumnStore::write`. `publish`
stores the roots a sealing write returned. `flush_frame` flushes the WAL
frame. `shutdown` is `StandaloneDatabase::close`: the sessions end,
then `ColumnStore::close()` runs.
- `CloseOpenTrees` is the loop `close()` and `close(ids)` share: every
  initialized tree is closed.
- `UpdateRescuePoints` stores the returned roots in the catalog, which
  is what `recovery_update_rescue_points` does.
Both `shutdown` and `recover_publish` use them.

**Crashes and recovery.** `crash` loses all memory: trees, `columns_`,
frames and `rescue_points_`. It keeps the block store, the catalog and
the WAL. `restart` is `initialize`. Recovery runs these steps:
1. `recover_open` is `open_or_restore`: repair when the rescue point was
   not written by `close()`, `force_init`, and the `rescue_points_`
   stash.
2. `recover_replay` replays one record. It creates a missing column
   (`recovery_create_new_column`), then calls the hook `ReplayWrite`.
3. `recover_publish` is `close(ids)` with the roots republished.
4. `recover_clear` clears the WAL.

A crash may also happen at any recovery step.

**The replay hook.** `ReplayHook` selects the hook.
- `"column_store"` is `ColumnStore::recovery_write`, which appends with
  allow_duplicates.
- `"standalone"` is `StandaloneDatabase::recovery_write`, the database's
  own hook. Its body is empty, which is undefined behaviour. It is
  modelled as writing nothing.

The WAL driver, the NB+tree and the catalog are not in `src` and are
modelled from spec §4.2 and §4.5.

**Bounds.** 2 series, LeafCap 2, 3 writes per series and 2 crashes. With
these bounds:
- a leaf is sealed with its roots published or not;
- a crash can fall between any two steps, including during recovery;
- a second recovery replays records whose samples the restored tree
  already holds.

## Runs

| Run | Checks | Result |
|---|---|---|
| readbuffer | TypeOK, PulledRegionFits, WindowRefinement | pass (45,598 states): pull always leaves BUFFER_SIZE bytes after `wpos_`; reads return exactly the next stream bytes through every rotation |
| resp | DbErrorLosesOnlyFailingRow, WrittenMatchesProtocol, ParseErrorsAreReal, DrainsDeliveredStream | pass: for every chunking, the samples written are exactly those of the consumed messages; a failed write loses only the rest of its own row, which `consume()` has already dropped, and every earlier row is stored whole; a parse error is thrown only at the first broken message; a delivered stream is drained |
| resp_dict_row | WrittenMatchesProtocol | violation: with the multimap's reversed order a dictionary row writes value 3 to series 2 |
| resp_event_int | WrittenMatchesProtocol | violation: an INTEGER value for an event series writes the previous event's body |
| cstore | TypeOK, CloseCommitsEverything, SealedLeavesReachCatalog | pass (174,813 states), with reconnecting sessions and queries that re-open evicted trees: close() leaves every acknowledged sample reachable from the catalog; every sealed leaf reaches the catalog without needing eviction or shutdown |
| cstore_scan_race | NoMapMutationDuringUnlockedScan | violation: create_new_column runs during close()'s unlocked scan |
| cstore_write_after_close | CloseCommitsEverything | violation: a cached write after close() is in no mapping |
| tsdb | TypeOK, WrittenMatchesProtocol, ParseErrorsAreReal | pass: every put handled is written once, in order, with its timestamp converted as the protocol says; parse errors only for broken lines |
| tsdb_iso_timestamp | WrittenMatchesProtocol | violation: an ISO timestamp such as 20141210T074343 is read by strtoull as 20141210 Unix seconds |
| tsdb_unconsumed_commands | BufferedBytesBounded | violation: STATS/VERSION/ignored lines are never consumed, so the buffer keeps growing |
| recovery | TypeOK, CommittedDurable, CommittedPresentAfterRecovery | pass (113,381 states): with ColumnStore::recovery_write, every committed sample stays reachable from the catalog or in the WAL through up to two crashes at any step; after recovery every committed sample is in its tree, through re-replays after crashes during recovery |
| recovery_standalone | CommittedPresentAfterRecovery | violation: through StandaloneDatabase::recovery_write (empty body), a committed sample past the last rescue point is missing after recovery |

Every property of a passing run has a mutant in PROJECT.json that
breaks it. A mutant is a plausible bug in the mapped code: rpos_ not
shifted on rotation, rotating on any consumed prefix, an inverted
dictionary parity test, a missing consume, a consume moved after the
write loop, worker returning after one PDU, close() taking get_roots() before flushing, a write reading its
roots before the append, a value cut with its trailing blank, a consume before
parsing, republishing rescue points before replay ends, a replay that
skips a missing column, ColumnStore::write caching a tree it did not find,
and a replay cursor kept across a restart.

`message_dispatch` compares prefixes, not words: a line `statsd` is
answered as STATS and `helpme` skipped as HELP. The tsdb streams use
exact command words only, and no run checks this case.

## Fairness

- **RespParser.** `worker()` runs to its return on the thread that
  called `parse_next`, so `parse_dict` and `worker_pdu` are weakly fair.
  Nothing forces the client to send more.
- **ColumnStore.** A session thread goes on from a write to storing its
  roots, so `publish_roots` is weakly fair. New connections, eviction and
  shutdown are not promised, so they have no fairness.

- **OpenTSDBParser.** `worker()` likewise runs to its return, so every
  busy step is weakly fair.
- **Recovery.** `initialize` runs recovery to its end on its thread, so
  the recovery steps are weakly fair. A session stores the roots it got,
  so `publish` is weakly fair too. Crashes, restarts, writes and shutdown
  are not forced. No liveness property is checked on this model: the
  recovery driver's loop is modelled from the spec, so its termination
  would say nothing about the code.

In the parser and column-store models a state with nothing left to do is a legitimate end: an
idle connection, or a database that has shut down. So their
configurations set CHECK_DEADLOCK FALSE. The recovery model always
can shut down or restart, so its deadlock check stays on.

## Not modelled, and why

- **Byte-level RESP framing** (`RESPStream`) is not in `src`.
- **Text.** Floating-point syntax (`strtod` of signs, points and
  exponents), the ISO-8601 grammar (`Utility::parse_timestamp`, a
  given set of tokens here) and the wording of replies and errors are
  not modelled. The OpenTSDB lexer itself is modelled byte by byte.
- **Payload types.** `CStoreSession::write`'s FAIL_BAD_VALUE for a third
  payload type is unreachable from the parsers and is not modelled.
- **Not in `src`.** The NB+tree's internals, the block store, the WAL's
  shards, volumes and CRC-checked frames, the series index, the SQLite
  catalog and the query engine. Only their interfaces appear as headers.
  The parts the recovery protocol needs are modelled from the spec.
- **RWLock.** `rwlock.h` declares it. Its `SharedLock` alias takes the
  write lock, which costs throughput but not correctness.
- **CRC32C** is a pure checksum over bytes.

## Plan

1. A series-index module (spec-modelled PlainSeriesMatcher) for the
   name ↔ id bijection that `name_to_param_id_list` uses. Recovery
   would then also replay name declarations.
2. Several WAL shards in Recovery, with replay in `(shard, record)`
   order. Spec §5 allows several sessions to write one series, and each
   session has its own shard. Replaying shard by shard then presents
   that series' samples out of timestamp order. An ordering invariant
   over the trees, together with `CommittedPresentAfterRecovery`, would
   judge it. The model gives each series one WAL sequence, so this
   case is outside its reach today.
3. The query cursor and its operators, if their code reaches `src`.
