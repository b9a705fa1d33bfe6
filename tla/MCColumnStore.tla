--------------------------- MODULE MCColumnStore ---------------------------
(* Two writer sessions and two or three series for ColumnStore. *)
EXTENDS ColumnStore

CONSTANTS s1, s2, x, y, z

\* Each connection writes its own series, as column_store.h assumes.
MCOwnDisjoint == [s \in {s1, s2} |-> IF s = s1 THEN {x} ELSE {y}]

\* The same, with the second connection writing two series through one cache.
MCOwnTwoSeries == [s \in {s1, s2} |-> IF s = s1 THEN {x} ELSE {y, z}]

=============================================================================
