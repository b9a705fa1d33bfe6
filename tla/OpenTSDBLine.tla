--------------------------- MODULE OpenTSDBLine ---------------------------
(***************************************************************************)
(* How OpenTSDBProtocolParser::worker takes a telnet line apart            *)
(* (src/stdb/protocol/protocolparser.cc 657-745, 784-850): message_dispatch *)
(* picks the command from the line's first bytes; for a put, skip_element   *)
(* walks over the metric, the timestamp and the value, the tags' trailing   *)
(* blanks are counted, and std::rotate moves the tags next to the metric so *)
(* that metric and tags form one series name, followed by the timestamp    *)
(* and the value.                                                          *)
(*                                                                          *)
(* A line is a sequence of one-character strings ending in "\n", as        *)
(* read_line returns it.  Positions are 1-based indices into the line; a    *)
(* quota is the number of bytes from a position to the line's end (pend).  *)
(***************************************************************************)
EXTENDS Naturals, Sequences, SequencesExt

SP == " "
NL == "\n"
Blank(c) == c \in {SP, NL}

\* The commands message_dispatch tries, in its order, with the bytes each
\* is_* helper compares (is_put compares the four bytes "put ").
CmdPrefixes == <<
  [kind |-> "PUT",        word |-> <<"p", "u", "t", " ">>],
  [kind |-> "ROLLUP",     word |-> <<"r", "o", "l", "l", "u", "p">>],
  [kind |-> "HISTOGRAM",  word |-> <<"h", "i", "s", "t">>],
  [kind |-> "STATS",      word |-> <<"s", "t", "a", "t", "s">>],
  [kind |-> "VERSION",    word |-> <<"v", "e", "r", "s", "i", "o", "n">>],
  [kind |-> "HELP",       word |-> <<"h", "e", "l", "p">>],
  [kind |-> "DROPCACHES", word |-> <<"d", "r", "o", "p", "c", "a", "c", "h", "e", "s">>] >>

\* message_dispatch: the first command whose bytes the line begins with
\* (len >= the command's length and std::equal), else UNKNOWN.
message_dispatch(line) ==
  LET hits == SelectSeq(CmdPrefixes, LAMBDA c : IsPrefix(c.word, line))
  IN IF hits = <<>> THEN "UNKNOWN" ELSE Head(hits).kind

\* skip_element, first loop: over the element, up to a space or newline.
RECURSIVE SkipWord(_, _, _)
SkipWord(s, p, q) ==
  IF q > 0 /\ ~Blank(s[p]) THEN SkipWord(s, p + 1, q - 1) ELSE [p |-> p, quota |-> q]

\* skip_element, second loop: over the spaces and newlines after it.
RECURSIVE SkipBlanks(_, _, _, _)
SkipBlanks(s, p, q, n) ==
  IF q > 0 /\ Blank(s[p])
  THEN SkipBlanks(s, p + 1, q - 1, n + 1)
  ELSE [p |-> p, quota |-> q, ntrailing |-> n]

\* skip_element(buffer, len): the position after the element and its
\* trailing blanks, the quota left, and the number of trailing blanks.
skip_element(s, p, q) ==
  LET w == SkipWord(s, p, q) IN SkipBlanks(s, w.p, w.quota, 0)

\* worker's loop over redundant spaces after "put " (spaces only).
RECURSIVE SkipSpaces(_, _, _)
SkipSpaces(s, p, q) ==
  IF q > 0 /\ s[p] = SP THEN SkipSpaces(s, p + 1, q - 1) ELSE [p |-> p, quota |-> q]

\* worker's tags_trailing loop: c walks back from the tags' last byte while
\* c > b and *c is a space or newline.
RECURSIVE TagsTrailing(_, _, _)
TagsTrailing(s, b, c) ==
  IF c > b /\ Blank(s[c]) THEN 1 + TagsTrailing(s, b, c - 1) ELSE 0

\* F applied to the value of e, which is evaluated once however often F
\* uses it (a LET definition is evaluated at each use when TLC records
\* coverage, so the nested skips below would be evaluated exponentially often).
Using(e, F(_)) == CHOOSE r \in {F(x) : x \in {e}} : TRUE

NoFields == [ok |-> FALSE, name |-> <<>>, ts |-> <<>>, val |-> <<>>]

\* The PUT case of worker up to the rotation: "put " and redundant spaces
\* are skipped, skip_element walks over metric, timestamp and value, the
\* sizes are taken as the code takes them, and std::rotate(a, b, pend) puts
\* the tags (from b) after the metric.
PutLayout(line) ==
  Using(SkipSpaces(line, 5, Len(line) - 4), LAMBDA st :
  Using(skip_element(line, st.p, st.quota), LAMBDA a :
  Using(skip_element(line, a.p, a.quota), LAMBDA t :
  Using(skip_element(line, t.p, t.quota), LAMBDA v :
    [short |-> \E e \in {a, t, v} : e.p = Len(line) + 1,
     name_size |-> v.quota + st.quota - a.quota,
     timestamp_size |-> a.quota - t.quota,
     timestamp_trailing |-> t.ntrailing,
     value_size |-> t.quota - v.quota,
     value_trailing |-> v.ntrailing,
     tags_trailing |-> TagsTrailing(line, v.p, v.p + v.quota - 1),
     rotated |-> SubSeq(line, st.p, a.p - 1) \o SubSeq(line, v.p, Len(line))
                   \o SubSeq(line, a.p, v.p - 1)]))))

\* Mutant of SplitPut: the value is read with its trailing blanks
\* (value_size instead of value_size - value_trailing).
SplitPut_value_with_trailing(line) ==
  Using(PutLayout(line), LAMBDA l :
    LET tsAt == l.name_size + 1
        valAt == l.name_size + l.timestamp_size + 1
    IN IF l.short THEN NoFields
       ELSE [ok |-> TRUE,
             name |-> SubSeq(l.rotated, 1, l.name_size - l.tags_trailing),
             ts |-> SubSeq(l.rotated, tsAt, tsAt + l.timestamp_size - l.timestamp_trailing - 1),
             val |-> SubSeq(l.rotated, valAt, valAt + l.value_size - 1)])

\* The fields worker hands on: fewer than metric, timestamp, value and tags
\* throws "not enough arguments" (a, b or the tags at pend); the series
\* name is the first name_size - tags_trailing bytes after the rotation,
\* then come the timestamp and the value, each up to its trailing blanks.
SplitPut(line) ==
  Using(PutLayout(line), LAMBDA l :
    LET tsAt == l.name_size + 1
        valAt == l.name_size + l.timestamp_size + 1
    IN IF l.short THEN NoFields
       ELSE [ok |-> TRUE,
             name |-> SubSeq(l.rotated, 1, l.name_size - l.tags_trailing),
             ts |-> SubSeq(l.rotated, tsAt, tsAt + l.timestamp_size - l.timestamp_trailing - 1),
             val |-> SubSeq(l.rotated, valAt, valAt + l.value_size - l.value_trailing - 1)])

-----------------------------------------------------------------------------
(***************************************************************************)
(* The telnet protocol, for reference: a line is a command word followed   *)
(* by arguments separated by blanks; a put is                              *)
(*     put <metric> <timestamp> <value> <tag> ...                           *)
(* and its series name is the metric with its tags.                        *)
(***************************************************************************)

\* The words of s: the maximal runs of bytes that are not blanks, in order.
Tokens(s) ==
  LET starts == {i \in DOMAIN s : ~Blank(s[i]) /\ (i = 1 \/ Blank(s[i - 1]))}
      wordEnd(i) == CHOOSE j \in i..Len(s) : ~Blank(s[j]) /\ (j = Len(s) \/ Blank(s[j + 1]))
      kth(k) == CHOOSE i \in starts : Cardinality({j \in starts : j < i}) = k - 1
  IN [k \in 1..Cardinality(starts) |-> SubSeq(s, kth(k), wordEnd(kth(k)))]

\* A put's fields as the protocol defines them, the name as its words.
ProtocolPut(line) ==
  LET w == Tokens(line)
  IN IF Len(w) >= 5
     THEN [ok |-> TRUE, name |-> <<w[2]>> \o SubSeq(w, 5, Len(w)), ts |-> w[3], val |-> w[4]]
     ELSE NoFields

=============================================================================
