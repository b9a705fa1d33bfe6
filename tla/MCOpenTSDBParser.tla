------------------------- MODULE MCOpenTSDBParser -------------------------
(* Telnet streams for OpenTSDBParser.  A word of the protocol is written   *)
(* with one byte: c, m (known metrics), b (a metric series_to_param_id     *)
(* rejects), h (a tag), 3 (a Unix time in seconds), 9 (one in             *)
(* nanoseconds), w (a word), 2T (an ISO-8601 time); 1, 2, 4 are values.    *)
EXTENDS OpenTSDBParser

\* 5 stands for 0xFFFFFFFF: 3 is below it, 9 and 33 above.
MCU32Max == 5

\* series_to_param_id accepts a known metric with at least one tag.
MCSeriesOk(words) == Len(words) >= 2 /\ words[1] \in {<<"c">>, <<"m">>, <<"3">>}

MCIsoTokens == {<<"2", "T">>}

Put(m, t, v) == <<"p", "u", "t", " ", m, " ">> \o t \o <<" ", v, " ", "h", "\n">>
Stats   == <<"s", "t", "a", "t", "s", "\n">>
Version == <<"v", "e", "r", "s", "i", "o", "n", "\n">>
Help    == <<"h", "e", "l", "p", "\n">>
Unknown == <<"x", "\n">>
NoTags  == <<"p", "u", "t", " ", "c", " ", "3", " ", "1", "\n">>

\* Every put line of at most 13 bytes whose arguments are made of 3s and
\* spaces: missing arguments, redundant and trailing spaces, long words.
MCAllShortPuts == { << <<"p", "u", "t", " ">> \o b \o <<"\n">> >> : b \in BoundedSeq({"3", " "}, 8) }

MCWellFormed == {
  << Put("c", <<"3">>, "1"), Help, Put("m", <<"9">>, "2"), Stats >>,
  << Put("c", <<"3">>, "1"), Put("b", <<"3">>, "1") >>,
  << Put("c", <<"9">>, "4"), Put("c", <<"w">>, "1") >>,
  << Put("c", <<"3">>, "w") >>,
  << NoTags, Version >>,
  << Help, Unknown >>,
  << Put("c", <<"3">>, "1"), Put("m", <<"9">>, "2"), Help,
     Put("c", <<"9">>, "4"), Put("m", <<"3">>, "4"), Version >> } \cup MCAllShortPuts

MCIso        == { << Put("c", <<"2", "T">>, "1") >> }
MCCommands   == { << Version, Help, Version >> }

=============================================================================
