--------------------------- MODULE OpenTSDBParser ---------------------------
(***************************************************************************)
(* OpenTSDBProtocolParser (src/stdb/protocol/protocolparser.cc 639-948).   *)
(* The server pushes chunks of the telnet stream into the parser's         *)
(* ReadBuffer and calls parse_next; worker() takes complete lines with     *)
(* read_line (at most buffer_len bytes), dispatches on the command and, for *)
(* a put, converts it to a sample and writes it.                           *)
(*                                                                          *)
(* The stream is a sequence of lines, each the bytes read_line returns    *)
(* (OpenTSDBLine), newline included.  read_line always stops just past a   *)
(* newline, so rpos_ and cons_ are line boundaries: they are counted in    *)
(* lines, wpos_ in bytes.  The line is taken apart by the code's own       *)
(* message_dispatch, skip_element and rotation (OpenTSDBLine).             *)
(*                                                                          *)
(* strtoull reads a timestamp's leading digits; the code and the spec only *)
(* compare the number with 0xFFFFFFFF (U32Max) and 2^32, so a small        *)
(* stand-in for U32Max keeps every comparison's outcome.                   *)
(***************************************************************************)
EXTENDS OpenTSDBLine

CONSTANTS
  Streams,       \* the telnet streams a client may send
  SeriesOk(_),   \* whether series_to_param_id accepts a name (its words)
  IsoTokens,     \* timestamp tokens Utility::parse_timestamp accepts
  Quota,         \* buffer_len of worker(): longest line read_line returns
  U32Max,        \* 0xFFFFFFFF
  MaxChunk,      \* largest chunk the server pushes at once
  WriteMayFail   \* whether DbSession::write may fail

VARIABLES
  stream,    \* the lines the client sends
  wpos,      \* bytes pushed into the read buffer (wpos_)
  next,      \* lines read by read_line (rpos_)
  consd,     \* lines consumed (cons_)
  pc,        \* "idle" (between parse_next calls), "busy" (in worker), "failed"
  failure,   \* "none", "parse" (ProtocolParserError), "db" (DatabaseError)
  written    \* history: samples DbSession::write accepted

vars == <<stream, wpos, next, consd, pc, failure, written>>

\* Bytes of the stream up to the end of line i.
RECURSIVE End(_)
End(i) == IF i = 0 THEN 0 ELSE End(i - 1) + Len(stream[i])
Total == End(Len(stream))

Init ==
  /\ stream \in Streams
  /\ wpos = 0 /\ next = 0 /\ consd = 0
  /\ pc = "idle" /\ failure = "none"
  /\ written = <<>>

-----------------------------------------------------------------------------
\* read_line: the next line is returned only when all of it has arrived and
\* it fits in the quota; otherwise the result is <= 0 and rpos_ stays.
LineReady == next < Len(stream) /\ End(next + 1) <= wpos /\ Len(stream[next + 1]) <= Quota

Line == stream[next + 1]
Command == message_dispatch(Line)

DigitSet == {"0", "1", "2", "3", "4", "5", "6", "7", "8", "9"}
DigitVal(c) == CHOOSE d \in 0..9 : <<"0", "1", "2", "3", "4", "5", "6", "7", "8", "9">>[d + 1] = c

\* strtoull: the number the token's leading digits spell (0 when none).
Lead(tok) ==
  LET nd == {i \in DOMAIN tok : tok[i] \notin DigitSet}
      stop == IF nd = {} THEN Len(tok) ELSE (CHOOSE i \in nd : \A j \in nd : i <= j) - 1
  IN FoldLeft(LAMBDA acc, c : 10 * acc + DigitVal(c), 0, SubSeq(tok, 1, stop))

\* strtod reads the whole value token.
IsNumber(tok) == tok # <<>> /\ ToSet(tok) \subseteq DigitSet

\* Mutant of CodeTs: from_unix_time is not applied to small values.
CodeTs_no_upconvert(t) ==
  IF Lead(t) = 0
  THEN IF t \in IsoTokens THEN [unit |-> "iso", tok |-> t] ELSE [unit |-> "error", tok |-> t]
  ELSE [unit |-> "ns", tok |-> t]

\* The timestamp block of worker(): strtoull, then seconds below 0xFFFFFFFF
\* (from_unix_time), the ISO parser only when strtoull read 0.
CodeTs(t) ==
  IF Lead(t) = 0
  THEN IF t \in IsoTokens THEN [unit |-> "iso", tok |-> t] ELSE [unit |-> "error", tok |-> t]
  ELSE [unit |-> IF Lead(t) < U32Max THEN "s" ELSE "ns", tok |-> t]

\* A put is converted when it has metric, timestamp, value and tags,
\* series_to_param_id accepts the name, the timestamp converts and strtod
\* reads the whole value.
PutOk(l) ==
  Using(SplitPut(l), LAMBDA f :
    f.ok /\ SeriesOk(Tokens(f.name)) /\ CodeTs(f.ts).unit # "error" /\ IsNumber(f.val))

PutSample(l) ==
  Using(SplitPut(l), LAMBDA f : [name |-> Tokens(f.name), ts |-> CodeTs(f.ts), val |-> f.val])

\* Every line a client may send, and worker's parse of each.
Lines == UNION {Range(s) : s \in Streams}
Parsed == [l \in Lines |-> [ok |-> PutOk(l), sample |-> PutSample(l)]]

Fail(kind) ==
  /\ pc' = "failed" /\ failure' = kind
  /\ UNCHANGED <<next, consd, written>>

\* worker(): no complete line to read, return to the server.
worker_wait ==
  /\ pc = "busy" /\ ~LineReady
  /\ pc' = "idle"
  /\ UNCHANGED <<stream, wpos, next, consd, failure, written>>

worker_put ==
  /\ pc = "busy" /\ LineReady
  /\ Command = "PUT"
  /\ IF ~Parsed[Line].ok THEN Fail("parse")
     ELSE \/ /\ written' = Append(written, Parsed[Line].sample)
             /\ next' = next + 1 /\ consd' = next + 1
             /\ UNCHANGED <<pc, failure>>
          \/ WriteMayFail /\ Fail("db")
  /\ UNCHANGED <<stream, wpos>>

\* worker(), cases STATS and VERSION: the line is read and the reply
\* returned at once, without rdbuf_.consume().
worker_reply ==
  /\ pc = "busy" /\ LineReady
  /\ Command \in {"STATS", "VERSION"}
  /\ next' = next + 1
  /\ pc' = "idle"
  /\ UNCHANGED <<stream, wpos, consd, failure, written>>

\* worker(), default case (rollup, histogram, help, dropcaches): the line is
\* read and skipped, without rdbuf_.consume().
worker_ignore ==
  /\ pc = "busy" /\ LineReady
  /\ Command \in {"ROLLUP", "HISTOGRAM", "HELP", "DROPCACHES"}
  /\ next' = next + 1
  /\ UNCHANGED <<stream, wpos, consd, pc, failure, written>>

\* worker(), case UNKNOWN: ProtocolParserError.
worker_unknown ==
  /\ pc = "busy" /\ LineReady
  /\ Command = "UNKNOWN"
  /\ Fail("parse")
  /\ UNCHANGED <<stream, wpos>>

\* The server pushes k more bytes (ReadBuffer::push) and calls parse_next.
parse_next(k) ==
  /\ pc = "idle"
  /\ wpos + k <= Total
  /\ wpos' = wpos + k
  /\ pc' = "busy"
  /\ UNCHANGED <<stream, next, consd, failure, written>>

Next ==
  \/ \E k \in 1..MaxChunk : parse_next(k)
  \/ worker_wait
  \/ worker_put
  \/ worker_reply
  \/ worker_ignore
  \/ worker_unknown

\* worker() runs to its return on the thread that called parse_next.
Fairness == WF_vars(pc = "busy" /\ Next)

Spec == Init /\ [][Next]_vars /\ Fairness

-----------------------------------------------------------------------------
(***************************************************************************)
(* The telnet protocol as the spec states it (section 6, "Timestamp        *)
(* format"): a put has a metric, a timestamp, a value and tags; the        *)
(* timestamp is a 64-bit integer, read as seconds when below 2^32 and as   *)
(* nanoseconds otherwise, or a basic ISO-8601 string.  The longest valid   *)
(* line fits in buffer_len, whose size the code derives from the longest   *)
(* series name; a longer line cannot be a valid message.                   *)
(***************************************************************************)
ProtocolTs(t) ==
  CASE IsNumber(t)    -> [unit |-> IF Lead(t) <= U32Max THEN "s" ELSE "ns", tok |-> t]
    [] t \in IsoTokens -> [unit |-> "iso", tok |-> t]
    [] OTHER          -> [unit |-> "error", tok |-> t]

\* The telnet commands, by their first word.
PutWord == <<"p", "u", "t">>
KnownWords == {PutWord, <<"r", "o", "l", "l", "u", "p">>,
               <<"h", "i", "s", "t", "o", "g", "r", "a", "m">>,
               <<"s", "t", "a", "t", "s">>, <<"v", "e", "r", "s", "i", "o", "n">>,
               <<"h", "e", "l", "p">>,
               <<"d", "r", "o", "p", "c", "a", "c", "h", "e", "s">>}
FirstWord(l) == IF Tokens(l) = <<>> THEN <<>> ELSE Tokens(l)[1]

Broken(l) ==
  \/ Len(l) > Quota
  \/ FirstWord(l) \notin KnownWords
  \/ /\ FirstWord(l) = PutWord
     /\ LET f == ProtocolPut(l)
        IN ~f.ok \/ ~SeriesOk(f.name) \/ ~IsNumber(f.val) \/ ProtocolTs(f.ts).unit = "error"

\* The samples of the put lines among the first c lines.
ProtocolSamples(c) ==
  LET puts == SelectSeq(SubSeq(stream, 1, c), LAMBDA l : FirstWord(l) = PutWord)
      f(k) == ProtocolPut(puts[k])
  IN [k \in DOMAIN puts |-> [name |-> f(k).name, ts |-> ProtocolTs(f(k).ts), val |-> f(k).val]]

-----------------------------------------------------------------------------
TypeOK ==
  /\ wpos \in 0..Total
  /\ consd <= next /\ next <= Len(stream) /\ End(next) <= wpos
  /\ pc \in {"idle", "busy", "failed"}
  /\ failure \in {"none", "parse", "db"}
  /\ (pc = "failed") <=> (failure # "none")

(***************************************************************************)
(* Every put the worker has handled is written once, in order, with the    *)
(* timestamp the protocol gives its token (seconds below 2^32 upconverted, *)
(* nanoseconds above, ISO strings as times), whatever the chunking.        *)
(***************************************************************************)
WrittenMatchesProtocol ==
  written = ProtocolSamples(next)

(***************************************************************************)
(* worker() throws ProtocolParserError only for a line the protocol        *)
(* rejects: the line it was reading is broken.                             *)
(***************************************************************************)
ParseErrorsAreReal ==
  failure = "parse" => Broken(stream[next + 1])

(***************************************************************************)
(* Between two parse_next calls the read buffer holds no more than the     *)
(* incomplete line at its end: lines worker() has handled are consumed, so *)
(* ReadBuffer::pull can rotate instead of doubling the vector.             *)
(***************************************************************************)
BufferedBytesBounded ==
  pc = "idle" => wpos - End(consd) < Quota

=============================================================================
