----------------------------- MODULE ReadBuffer -----------------------------
(***************************************************************************)
(* ReadBuffer (src/stdb/protocol/protocolparser.cc): the growable byte     *)
(* buffer between the TCP server and a protocol parser.  The server pulls  *)
(* a region, fills it and pushes it back; the parser reads from rpos_,     *)
(* commits with consume() (cons_ := rpos_) or rolls back with discard()    *)
(* (rpos_ := cons_).  pull() makes room by moving the unconsumed tail to   *)
(* the front, or by doubling the vector.                                   *)
(*                                                                         *)
(* A byte is modelled by its ordinal in the connection's stream (1, 2,     *)
(* ...); 0 is a byte the vector was zero-filled with.  Positions are       *)
(* 0-based as in the code, so byte k of the vector is buffer[k + 1].       *)
(***************************************************************************)
EXTENDS Naturals, Sequences

CONSTANTS
  BUFFER_SIZE,   \* ReadBuffer::BUFFER_SIZE (RDBUF_SIZE in the parsers)
  N_BUF,         \* ReadBuffer::N_BUF, initial size in BUFFER_SIZE units
  MaxLen,        \* bound: largest vector size the model lets pull() reach
  MaxStream      \* bound: total bytes received on the connection

ASSUME BUFFER_SIZE \in Nat \ {0} /\ N_BUF \in Nat \ {0}

VARIABLES
  buffer,        \* buffer_ : the vector's bytes
  rpos,          \* rpos_   : read position
  wpos,          \* wpos_   : write position
  cons,          \* cons_   : consumed part
  allocated,     \* buffers_allocated_
  received,      \* history: stream bytes pushed so far
  lastRead       \* history: the bytes the last read returned

vars == <<buffer, rpos, wpos, cons, allocated, received, lastRead>>

Bytes == 0..MaxStream

\* ReadBuffer::ReadBuffer : buffer_(buffer_size*N_BUF, 0), all marks 0
Init ==
  /\ buffer = [i \in 1..BUFFER_SIZE * N_BUF |-> 0]
  /\ rpos = 0 /\ wpos = 0 /\ cons = 0
  /\ allocated = 0
  /\ received = 0
  /\ lastRead = <<>>

\* std::copy(begin + cons_, end, begin): the tail moves to the front, the
\* last cons_ bytes keep their old contents.
Rotated(buf, off) ==
  [i \in 1..Len(buf) |-> IF i <= Len(buf) - off THEN buf[i + off] ELSE buf[i]]

\* Mutant of pull: the rotation leaves rpos_ where it was.
pull_rpos_not_shifted ==
  /\ allocated = 0
  /\ allocated' = 1
  /\ LET sz == Len(buffer) - wpos
     IN IF sz < BUFFER_SIZE
        THEN IF cons + sz > BUFFER_SIZE
             THEN /\ buffer' = Rotated(buffer, cons)
                  /\ wpos' = wpos - cons
                  /\ cons' = 0
                  /\ UNCHANGED rpos
             ELSE /\ 2 * Len(buffer) <= MaxLen
                  /\ buffer' = buffer \o [i \in 1..Len(buffer) |-> 0]
                  /\ UNCHANGED <<rpos, wpos, cons>>
        ELSE UNCHANGED <<buffer, rpos, wpos, cons>>
  /\ UNCHANGED <<received, lastRead>>

\* Mutant of pull: rotates whenever anything was consumed, however little.
pull_rotate_any_consumed ==
  /\ allocated = 0
  /\ allocated' = 1
  /\ LET sz == Len(buffer) - wpos
     IN IF sz < BUFFER_SIZE
        THEN IF cons > 0
             THEN /\ buffer' = Rotated(buffer, cons)
                  /\ wpos' = wpos - cons
                  /\ rpos' = rpos - cons
                  /\ cons' = 0
             ELSE /\ 2 * Len(buffer) <= MaxLen
                  /\ buffer' = buffer \o [i \in 1..Len(buffer) |-> 0]
                  /\ UNCHANGED <<rpos, wpos, cons>>
        ELSE UNCHANGED <<buffer, rpos, wpos, cons>>
  /\ UNCHANGED <<received, lastRead>>

\* ReadBuffer::pull: rotate when the consumed prefix frees enough room,
\* double the vector otherwise; hand out the region at wpos_.
pull ==
  /\ allocated = 0
  /\ allocated' = 1
  /\ LET sz == Len(buffer) - wpos
     IN IF sz < BUFFER_SIZE
        THEN IF cons + sz > BUFFER_SIZE
             THEN /\ buffer' = Rotated(buffer, cons)
                  /\ wpos' = wpos - cons
                  /\ rpos' = rpos - cons
                  /\ cons' = 0
             ELSE /\ 2 * Len(buffer) <= MaxLen
                  /\ buffer' = buffer \o [i \in 1..Len(buffer) |-> 0]
                  /\ UNCHANGED <<rpos, wpos, cons>>
        ELSE UNCHANGED <<buffer, rpos, wpos, cons>>
  /\ UNCHANGED <<received, lastRead>>

\* ReadBuffer::push: the server wrote `size` bytes of the stream into the
\* pulled region.
push(size) ==
  /\ allocated = 1
  /\ received + size <= MaxStream
  /\ allocated' = 0
  /\ buffer' = [i \in 1..Len(buffer) |->
                  IF wpos < i /\ i <= wpos + size
                  THEN received + (i - wpos) ELSE buffer[i]]
  /\ wpos' = wpos + size
  /\ received' = received + size
  /\ UNCHANGED <<rpos, cons, lastRead>>

\* Mutant of read: to_read is not clamped to wpos_ - rpos_.
read_unclamped(n) ==
  /\ allocated = 0
  /\ rpos + n <= Len(buffer)
  /\ lastRead' = [i \in 1..n |-> buffer[rpos + i]]
  /\ rpos' = rpos + n
  /\ UNCHANGED <<buffer, wpos, cons, allocated, received>>

\* ReadBuffer::read (and n calls of get()): copy the next n bytes.
read(n) ==
  /\ allocated = 0
  /\ rpos + n <= wpos
  /\ lastRead' = [i \in 1..n |-> buffer[rpos + i]]
  /\ rpos' = rpos + n
  /\ UNCHANGED <<buffer, wpos, cons, allocated, received>>

\* ReadBuffer::consume
consume ==
  /\ allocated = 0
  /\ cons' = rpos
  /\ UNCHANGED <<buffer, rpos, wpos, allocated, received, lastRead>>

\* ReadBuffer::discard
discard ==
  /\ allocated = 0
  /\ rpos' = cons
  /\ UNCHANGED <<buffer, wpos, cons, allocated, received, lastRead>>

Next ==
  \/ pull
  \/ \E size \in 0..BUFFER_SIZE : push(size)
  \/ \E n \in 1..BUFFER_SIZE : read(n)
  \/ consume
  \/ discard

Spec == Init /\ [][Next]_vars

-----------------------------------------------------------------------------
TypeOK ==
  /\ buffer \in Seq(Bytes)
  /\ {rpos, wpos, cons} \subseteq 0..MaxLen
  /\ cons <= rpos /\ rpos <= wpos /\ wpos <= Len(buffer)
  /\ allocated \in {0, 1}
  /\ received \in 0..MaxStream
  /\ lastRead \in Seq(Bytes)

(***************************************************************************)
(* pull()'s promise to the server ("Size of the buffer is guaranteed to be *)
(* at least BUFFER_SIZE bytes"): while a region is out, at least           *)
(* BUFFER_SIZE bytes lie between wpos_ and the end of the vector, so the   *)
(* server's write stays inside the vector whatever was consumed before.    *)
(***************************************************************************)
PulledRegionFits ==
  allocated = 1 => Len(buffer) - wpos >= BUFFER_SIZE

(***************************************************************************)
(* Refinement: the ReadBuffer, rotations and growth included, behaves as   *)
(* the abstract StreamWindow whose marks are the stream positions of       *)
(* cons_, rpos_ and wpos_; every read returns exactly the next bytes of    *)
(* the stream, so no rotation loses, repeats or reorders unconsumed data.  *)
(***************************************************************************)
Window == INSTANCE StreamWindow WITH
            consumed <- received - (wpos - cons),
            readto   <- received - (wpos - rpos),
            pulled   <- allocated = 1

WindowRefinement == Window!Spec

=============================================================================
