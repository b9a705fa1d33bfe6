----------------------------- MODULE RespParser -----------------------------
(***************************************************************************)
(* RESPProtocolParser (src/stdb/protocol/protocolparser.cc): one client    *)
(* connection.  The server pushes chunks of the client's byte stream and   *)
(* calls parse_next, which runs worker(): first parse_dict (dictionary     *)
(* arrays mapping user ids to series ids), then a loop that parses one PDU *)
(* (ids, timestamp, values), consume()s it and writes its samples to the   *)
(* DbSession.  An incomplete element makes the helper return false, the    *)
(* worker discard()s back to the last consumed position and returns.       *)
(*                                                                         *)
(* The stream is a sequence of RESP elements; a chunk ends between two     *)
(* elements (a chunk ending inside an element takes the same path as one   *)
(* ending before it: next_type or read_* fails and the helper returns      *)
(* false).  The read buffer is the StreamWindow that ReadBuffer refines;   *)
(* rpos_ is back at cons_ at the end of every step (consume or discard),   *)
(* so only cons (consumed elements) and wpos (received elements) are kept. *)
(***************************************************************************)
EXTENDS Integers, Sequences, SequencesExt

CONSTANTS
  Streams,        \* candidate client streams (sequences of Elements)
  SeriesIds,      \* name_to_param_id_list: name -> ids (<<>>: bad name)
  Words,          \* STRING payloads that are not numbers (names, bodies)
  Uids,           \* user ids a dictionary may bind
  NoBody,         \* the empty std::string events_ slots start with
  Undef,          \* a values_ slot never assigned
  MAX_ROW_WIDTH,  \* STDB_LIMITS_MAX_ROW_WIDTH (slots of paramids_/values_)
  MaxChunk,       \* most elements one push delivers
  WriteMayFail    \* whether DbSession::write may return an error

Names == DOMAIN SeriesIds

\* RESP element constructors: +string, :integer, *array header, $bulk
RStr(x) == [t |-> "STRING", v |-> x]
RInt(x) == [t |-> "INTEGER", v |-> x]
RArr(n) == [t |-> "ARRAY", v |-> n]
RBulk == [t |-> "BULK_STR", v |-> 0]

IsNumeric(x) == x \notin Words

VARIABLES
  stream,    \* the bytes the client sends, as RESP elements
  order,     \* iteration order of equal keys in the unordered_multimap
  wpos,      \* elements pushed into the read buffer
  cons,      \* elements consumed (rdbuf_.cons_)
  pc,        \* "idle" (between parse_next calls), "dict", "data", "failed"
  failure,   \* what stopped the connection: "none", "parse", "db"
  idmap,     \* idmap_ : uid -> series ids in insertion order
  values,    \* values_ member array
  events,    \* events_ member array
  written    \* history: samples passed to DbSession::write with status Ok

vars == <<stream, order, wpos, cons, pc, failure, idmap, values, events, written>>

Slots == 1..MAX_ROW_WIDTH

Init ==
  /\ stream \in Streams
  /\ order \in {"insertion", "reversed"}
  /\ wpos = 0 /\ cons = 0
  /\ pc = "idle" /\ failure = "none"
  /\ idmap = [u \in Uids |-> <<>>]
  /\ values = [k \in Slots |-> Undef]
  /\ events = [k \in Slots |-> NoBody]
  /\ written = <<>>

Avail(i) == i <= wpos

\* name_to_param_id_list into an array of MAX_ROW_WIDTH ids
ValidName(e) ==
  /\ e.t = "STRING" /\ e.v \in Names
  /\ SeriesIds[e.v] # <<>> /\ Len(SeriesIds[e.v]) <= MAX_ROW_WIDTH

\* update_dict: a uid already bound is left alone (the false is ignored)
UpdateDict(map, uid, row) ==
  IF map[uid] # <<>> THEN map ELSE [map EXCEPT ![uid] = row]

\* read_dict: the equal_range of an unordered_multimap, whose order the
\* standard leaves unspecified (libstdc++ puts a new equal key first).
ReadDict(uid) ==
  IF uid \notin Uids THEN <<>>
  ELSE IF order = "insertion" THEN idmap[uid] ELSE Reverse(idmap[uid])

Outcome(res, pos, map) == [res |-> res, pos |-> pos, map |-> map]

\* The loop over the pairs of a dictionary array whose header is at h:
\* pairs already read stay in idmap_ whatever happens to a later pair.
RECURSIVE DictPairs(_, _, _, _)
DictPairs(h, j, n, map) ==
  IF j > n \div 2 THEN Outcome("ok", h + n, map)
  ELSE LET ni == h + 2 * j - 1
           ui == ni + 1
       IN IF ~Avail(ni) THEN Outcome("again", h, map)
          ELSE IF ~ValidName(stream[ni]) THEN Outcome("parse", h, map)
          ELSE IF ~Avail(ui) THEN Outcome("again", h, map)
          ELSE IF stream[ui].t # "INTEGER" THEN Outcome("parse", h, map)
          ELSE DictPairs(h, j + 1, n,
                         UpdateDict(map, stream[ui].v, SeriesIds[stream[ni].v]))

\* Mutant of parse_dict: the parity test of the dictionary size inverted.
parse_dict_parity_inverted ==
  /\ pc = "dict"
  /\ LET h == cons + 1
     IN IF ~Avail(h)
        THEN /\ pc' = "idle"
             /\ UNCHANGED <<cons, idmap, failure>>
        ELSE IF stream[h].t # "ARRAY"
        THEN /\ pc' = "data"
             /\ UNCHANGED <<cons, idmap, failure>>
        ELSE IF stream[h].v % 2 = 0
        THEN /\ pc' = "failed" /\ failure' = "parse"
             /\ UNCHANGED <<cons, idmap>>
        ELSE LET r == DictPairs(h, 1, stream[h].v, idmap)
             IN /\ idmap' = r.map
                /\ cons' = IF r.res = "ok" THEN r.pos ELSE cons
                /\ pc' = CASE r.res = "ok"    -> "dict"
                           [] r.res = "again" -> "idle"
                           [] OTHER           -> "failed"
                /\ failure' = IF r.res = "parse" THEN "parse" ELSE failure
  /\ UNCHANGED <<stream, order, wpos, values, events, written>>

\* RESPProtocolParser::parse_dict, one iteration of its while loop
parse_dict ==
  /\ pc = "dict"
  /\ LET h == cons + 1
     IN IF ~Avail(h)
        THEN /\ pc' = "idle"
             /\ UNCHANGED <<cons, idmap, failure>>
        ELSE IF stream[h].t # "ARRAY"
        THEN /\ pc' = "data"
             /\ UNCHANGED <<cons, idmap, failure>>
        ELSE IF stream[h].v % 2 # 0
        THEN /\ pc' = "failed" /\ failure' = "parse"
             /\ UNCHANGED <<cons, idmap>>
        ELSE LET r == DictPairs(h, 1, stream[h].v, idmap)
             IN /\ idmap' = r.map
                /\ cons' = IF r.res = "ok" THEN r.pos ELSE cons
                /\ pc' = CASE r.res = "ok"    -> "dict"
                           [] r.res = "again" -> "idle"
                           [] OTHER           -> "failed"
                /\ failure' = IF r.res = "parse" THEN "parse" ELSE failure
  /\ UNCHANGED <<stream, order, wpos, values, events, written>>

PduOutcome(res, pos, ids, ts, vals, evs) ==
  [res |-> res, pos |-> pos, ids |-> ids, ts |-> ts, vals |-> vals, evs |-> evs]

\* The loop of parse_values over an array of values: element i + k
\* carries the value of ids[k]; slots filled before a failure stay filled.
RECURSIVE ArrayValues(_, _, _, _, _, _)
ArrayValues(i, k, ids, ts, vals, evs) ==
  IF k > Len(ids) THEN PduOutcome("ok", i + Len(ids), ids, ts, vals, evs)
  ELSE LET e == stream[i + k]
       IN IF ~Avail(i + k) THEN PduOutcome("again", 0, ids, ts, vals, evs)
          ELSE IF ids[k] > 0 /\ (e.t = "INTEGER" \/ (e.t = "STRING" /\ IsNumeric(e.v)))
          THEN ArrayValues(i, k + 1, ids, ts, [vals EXCEPT ![k] = e.v], evs)
          ELSE IF ids[k] < 0 /\ e.t = "STRING"
          THEN ArrayValues(i, k + 1, ids, ts, vals, [evs EXCEPT ![k] = e.v])
          ELSE PduOutcome("parse", 0, ids, ts, vals, evs)

\* parse_values for a PDU whose value part starts at element i
ParseValues(i, ids, ts) ==
  LET e == stream[i]
      one == Len(ids) = 1
      ok(vals, evs) == PduOutcome("ok", i, ids, ts, vals, evs)
      bad == PduOutcome("parse", 0, ids, ts, values, events)
  IN IF ~Avail(i) THEN PduOutcome("again", 0, ids, ts, values, events)
     ELSE CASE e.t = "INTEGER" /\ one -> ok([values EXCEPT ![1] = e.v], events)
            [] e.t = "STRING" /\ one /\ ids[1] > 0 /\ IsNumeric(e.v)
                                   -> ok([values EXCEPT ![1] = e.v], events)
            [] e.t = "STRING" /\ one /\ ids[1] < 0
                                   -> ok(values, [events EXCEPT ![1] = e.v])
            [] e.t = "ARRAY" /\ e.v = Len(ids)
                                   -> ArrayValues(i, 1, ids, ts, values, events)
            [] OTHER -> bad

\* parse_ids, parse_timestamp and parse_values for the PDU at element i
ParsePdu(i) ==
  LET e == stream[i]
      ids == CASE e.t = "STRING" /\ ValidName(e) -> SeriesIds[e.v]
               [] e.t = "INTEGER" -> SubSeq(ReadDict(e.v), 1,
                                       IF Len(ReadDict(e.v)) < MAX_ROW_WIDTH
                                       THEN Len(ReadDict(e.v)) ELSE MAX_ROW_WIDTH)
               [] OTHER -> <<>>
      t == stream[i + 1]
      fail(res) == PduOutcome(res, 0, <<>>, 0, values, events)
  IN IF ~Avail(i) THEN fail("again")
     ELSE IF ids = <<>> THEN fail("parse")
     ELSE IF ~Avail(i + 1) THEN fail("again")
     ELSE IF ~(t.t = "INTEGER" \/ (t.t = "STRING" /\ IsNumeric(t.v)))
     THEN fail("parse")
     ELSE ParseValues(i + 2, ids, t.v)

\* The samples worker() builds from a parsed row: a float sample for a
\* positive id, an event sample with the events_ slot for the others.
RowSamples(r) ==
  [k \in 1..Len(r.ids) |->
     [id |-> r.ids[k], ts |-> r.ts,
      val |-> IF r.ids[k] > 0 THEN r.vals[k] ELSE r.evs[k]]]

\* Mutant of worker_pdu: the rdbuf_.consume() after a parsed PDU is missing.
worker_pdu_no_consume ==
  /\ pc = "data"
  /\ LET r == ParsePdu(cons + 1)
         row == RowSamples(r)
     IN /\ values' = r.vals
        /\ events' = r.evs
        /\ CASE r.res = "again" ->
                  /\ pc' = "idle"
                  /\ UNCHANGED <<cons, failure, written>>
              [] r.res = "parse" ->
                  /\ pc' = "failed" /\ failure' = "parse"
                  /\ UNCHANGED <<cons, written>>
              [] r.res = "ok" ->
                  /\ UNCHANGED cons
                  /\ \E nok \in IF WriteMayFail THEN 0..Len(row) ELSE {Len(row)} :
                       /\ written' = written \o SubSeq(row, 1, nok)
                       /\ IF nok = Len(row)
                          THEN UNCHANGED <<pc, failure>>
                          ELSE pc' = "failed" /\ failure' = "db"
  /\ UNCHANGED <<stream, order, wpos, idmap>>

\* Mutant of worker_pdu: worker() returns after each PDU instead of looping.
worker_pdu_returns_after_one ==
  /\ pc = "data"
  /\ LET r == ParsePdu(cons + 1)
         row == RowSamples(r)
     IN /\ values' = r.vals
        /\ events' = r.evs
        /\ CASE r.res = "again" ->
                  /\ pc' = "idle"
                  /\ UNCHANGED <<cons, failure, written>>
              [] r.res = "parse" ->
                  /\ pc' = "failed" /\ failure' = "parse"
                  /\ UNCHANGED <<cons, written>>
              [] r.res = "ok" ->
                  /\ cons' = r.pos
                  /\ \E nok \in IF WriteMayFail THEN 0..Len(row) ELSE {Len(row)} :
                       /\ written' = written \o SubSeq(row, 1, nok)
                       /\ IF nok = Len(row)
                          THEN pc' = "idle" /\ UNCHANGED failure
                          ELSE pc' = "failed" /\ failure' = "db"
  /\ UNCHANGED <<stream, order, wpos, idmap>>

\* Mutant of worker_pdu: rdbuf_.consume() after the write loop, so a
\* DatabaseError leaves the PDU unconsumed.
worker_pdu_consume_after_write ==
  /\ pc = "data"
  /\ LET r == ParsePdu(cons + 1)
         row == RowSamples(r)
     IN /\ values' = r.vals
        /\ events' = r.evs
        /\ CASE r.res = "again" ->
                  /\ pc' = "idle"
                  /\ UNCHANGED <<cons, failure, written>>
              [] r.res = "parse" ->
                  /\ pc' = "failed" /\ failure' = "parse"
                  /\ UNCHANGED <<cons, written>>
              [] r.res = "ok" ->
                  /\ \E nok \in IF WriteMayFail THEN 0..Len(row) ELSE {Len(row)} :
                       /\ written' = written \o SubSeq(row, 1, nok)
                       /\ IF nok = Len(row)
                          THEN cons' = r.pos /\ UNCHANGED <<pc, failure>>
                          ELSE pc' = "failed" /\ failure' = "db" /\ UNCHANGED cons
  /\ UNCHANGED <<stream, order, wpos, idmap>>

\* One iteration of the loop of RESPProtocolParser::worker: parse a PDU,
\* discard and return when it is incomplete, consume it and write its
\* samples in row order otherwise; an error status throws DatabaseError.
worker_pdu ==
  /\ pc = "data"
  /\ LET r == ParsePdu(cons + 1)
         row == RowSamples(r)
     IN /\ values' = r.vals
        /\ events' = r.evs
        /\ CASE r.res = "again" ->
                  /\ pc' = "idle"
                  /\ UNCHANGED <<cons, failure, written>>
              [] r.res = "parse" ->
                  /\ pc' = "failed" /\ failure' = "parse"
                  /\ UNCHANGED <<cons, written>>
              [] r.res = "ok" ->
                  /\ cons' = r.pos
                  /\ \E nok \in IF WriteMayFail THEN 0..Len(row) ELSE {Len(row)} :
                       /\ written' = written \o SubSeq(row, 1, nok)
                       /\ IF nok = Len(row)
                          THEN UNCHANGED <<pc, failure>>
                          ELSE pc' = "failed" /\ failure' = "db"
  /\ UNCHANGED <<stream, order, wpos, idmap>>

\* The server pushes the next chunk (ReadBuffer::push) and calls
\* parse_next, whose worker() starts with parse_dict.
parse_next(k) ==
  /\ pc = "idle"
  /\ wpos + k <= Len(stream)
  /\ wpos' = wpos + k
  /\ pc' = "dict"
  /\ UNCHANGED <<stream, order, cons, failure, idmap, values, events, written>>

Next ==
  \/ \E k \in 1..MaxChunk : parse_next(k)
  \/ parse_dict
  \/ worker_pdu

\* worker() runs to its return on the thread that called parse_next.
Fairness == WF_vars(parse_dict) /\ WF_vars(worker_pdu)

Spec == Init /\ [][Next]_vars /\ Fairness

-----------------------------------------------------------------------------
(***************************************************************************)
(* The protocol as the comment on RESPProtocolParser defines it, decoded   *)
(* from the whole stream at once: dictionary arrays of (name, :id) pairs   *)
(* only before any other message; a PDU is a name or a dictionary id, a    *)
(* timestamp (integer, or an ISO string) and one value, or an array with   *)
(* one value per series of a compound name, in the name's order.  Units    *)
(* lists the messages in stream order: [end |-> last element, samples |->  *)
(* what it writes, err |-> whether it breaks the protocol]; decoding stops *)
(* at the first broken message.                                            *)
(***************************************************************************)
ProtocolIds(e, dict) ==
  CASE e.t = "STRING" /\ e.v \in Names -> SeriesIds[e.v]
    [] e.t = "INTEGER" /\ e.v \in Uids -> dict[e.v]
    [] OTHER -> <<>>

ProtocolValue(e, id, single) ==
  \/ e.t = "INTEGER" /\ (single \/ id > 0)
  \/ e.t = "STRING" /\ (IsNumeric(e.v) \/ id < 0)

BrokenAt(i) == [end |-> i, samples |-> <<>>, err |-> TRUE]

RECURSIVE Units(_, _, _)
Units(i, dictOK, dict) ==
  IF i > Len(stream) THEN <<>>
  ELSE LET e == stream[i]
           n == e.v
           pairs == 1..(n \div 2)
           bound(u) == {j \in pairs : stream[i + 2 * j].v = u}
           dict2 == [u \in Uids |->
                      IF dict[u] # <<>> \/ bound(u) = {} THEN dict[u]
                      ELSE SeriesIds[stream[i + 2 * Min(bound(u)) - 1].v]]
           ids == ProtocolIds(e, dict)
           w == Len(ids)
           ts == stream[i + 1]
           val == stream[i + 2]
           array == val.t = "ARRAY"
           last == IF array THEN i + 2 + w ELSE i + 2
           vals == IF array THEN [k \in 1..w |-> stream[i + 2 + k].v] ELSE <<val.v>>
       IN IF e.t = "ARRAY"
          THEN IF /\ dictOK /\ n % 2 = 0 /\ i + n <= Len(stream)
                  /\ \A j \in pairs : /\ ValidName(stream[i + 2 * j - 1])
                                      /\ stream[i + 2 * j].t = "INTEGER"
               THEN <<[end |-> i + n, samples |-> <<>>, err |-> FALSE]>>
                      \o Units(i + n + 1, TRUE, dict2)
               ELSE <<BrokenAt(i)>>
          ELSE IF /\ w > 0 /\ i + 2 <= Len(stream) /\ last <= Len(stream)
                  /\ ts.t = "INTEGER" \/ (ts.t = "STRING" /\ IsNumeric(ts.v))
                  /\ IF array THEN /\ val.v = w
                                   /\ \A k \in 1..w : ProtocolValue(stream[i + 2 + k], ids[k], FALSE)
                              ELSE w = 1 /\ ProtocolValue(val, ids[1], TRUE)
               THEN <<[end |-> last, err |-> FALSE,
                       samples |-> [k \in 1..w |-> [id |-> ids[k], ts |-> ts.v, val |-> vals[k]]]]>>
                      \o Units(last + 1, FALSE, dict)
               ELSE <<BrokenAt(i)>>

ProtocolUnits == Units(1, TRUE, [u \in Uids |-> <<>>])

\* The samples of the well-formed messages that end within the first c elements
ProtocolSamples(c) ==
  LET done == SelectSeq(ProtocolUnits, LAMBDA u : ~u.err /\ u.end <= c)
  IN FlattenSeq([k \in DOMAIN done |-> done[k].samples])

-----------------------------------------------------------------------------
(***************************************************************************)
(* Exactly once, in order, with the right series: whatever the chunking of *)
(* the stream by the network, the samples worker() has written are the     *)
(* samples of the messages consumed so far, as the protocol defines them   *)
(* -- none lost on a discard, none written twice after a partial PDU,      *)
(* each value paired with its own series id.  After a failing write the    *)
(* written samples are a prefix of them.                                   *)
(***************************************************************************)
WrittenMatchesProtocol ==
  IF failure = "db" THEN IsPrefix(written, ProtocolSamples(cons))
  ELSE written = ProtocolSamples(cons)

(***************************************************************************)
(* A failed write loses only its own row: rdbuf_.consume() runs before the *)
(* write loop, so when consumer_->write fails and worker() throws          *)
(* DatabaseError, every earlier row is stored whole, the failing row is    *)
(* consumed with only the samples before the failing one stored, and       *)
(* nothing after it is written.                                            *)
(***************************************************************************)
DbErrorLosesOnlyFailingRow ==
  failure = "db" =>
    /\ IsPrefix(ProtocolSamples(cons - 1), written)
    /\ IsPrefix(written, ProtocolSamples(cons))
    /\ written # ProtocolSamples(cons)

(***************************************************************************)
(* The parser rejects a connection only for a real protocol error: when it *)
(* throws ProtocolParserError, the message right after the last consumed   *)
(* one is the first broken message of the stream.                          *)
(***************************************************************************)
ParseErrorsAreReal ==
  failure = "parse" =>
    \E u \in ToSet(ProtocolUnits) : u.err /\ u.end = cons + 1

(***************************************************************************)
(* Once the client's whole stream has arrived, worker() processes every    *)
(* message in it (or stops on an error): no complete PDU is left waiting   *)
(* in the read buffer for a chunk that will never come.                    *)
(***************************************************************************)
DrainsDeliveredStream ==
  (wpos = Len(stream)) ~> (pc = "failed" \/ cons = Len(stream))

=============================================================================
