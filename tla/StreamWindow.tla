---------------------------- MODULE StreamWindow ----------------------------
(***************************************************************************)
(* What a protocol parser is promised by its read buffer, with no buffer   *)
(* layout at all.  The bytes a connection has received form one stream,    *)
(* numbered 1, 2, 3, ... in arrival order.  Three marks split it:          *)
(*   consumed : bytes the parser has committed (a whole PDU was handled),  *)
(*   readto   : bytes the parser has read in the PDU it is working on,     *)
(*   received : bytes the server has pushed in.                            *)
(* A read returns the next bytes of the stream, a discard goes back to the *)
(* last commit, a consume commits what was read.  The server fills at most *)
(* one region at a time (pull ... push).                                   *)
(***************************************************************************)
EXTENDS Naturals, Sequences

CONSTANTS
  BUFFER_SIZE,   \* most bytes the server pushes into one pulled region
  MaxStream      \* bound: total bytes received on the connection

VARIABLES
  received,      \* number of stream bytes pushed so far
  consumed,      \* number of stream bytes committed by consume()
  readto,        \* number of stream bytes read so far
  lastRead,      \* the stream bytes returned by the last read
  pulled         \* TRUE between pull() and push()

vars == <<received, consumed, readto, lastRead, pulled>>

Init ==
  /\ received = 0
  /\ consumed = 0
  /\ readto = 0
  /\ lastRead = <<>>
  /\ pulled = FALSE

Pull ==
  /\ ~pulled
  /\ pulled' = TRUE
  /\ UNCHANGED <<received, consumed, readto, lastRead>>

Push(size) ==
  /\ pulled
  /\ received + size <= MaxStream
  /\ pulled' = FALSE
  /\ received' = received + size
  /\ UNCHANGED <<consumed, readto, lastRead>>

Read(n) ==
  /\ ~pulled
  /\ readto + n <= received
  /\ readto' = readto + n
  /\ lastRead' = [i \in 1..n |-> readto + i]
  /\ UNCHANGED <<received, consumed, pulled>>

Consume ==
  /\ ~pulled
  /\ consumed' = readto
  /\ UNCHANGED <<received, readto, lastRead, pulled>>

Discard ==
  /\ ~pulled
  /\ readto' = consumed
  /\ UNCHANGED <<received, consumed, lastRead, pulled>>

Next ==
  \/ Pull
  \/ \E size \in 0..BUFFER_SIZE : Push(size)
  \/ \E n \in 1..BUFFER_SIZE : Read(n)
  \/ Consume
  \/ Discard

Spec == Init /\ [][Next]_vars

=============================================================================
