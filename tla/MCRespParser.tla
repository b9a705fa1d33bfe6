---------------------------- MODULE MCRespParser ----------------------------
(* Client streams for the RESP parser.  Series: cpu (id 1), mem (id 2), *)
(* the compound cpumem (ids 1, 2), the event series evt (id -1) and   *)
(* bad (no tag, rejected by the index).  Dictionary ids 7 and 8.         *)
EXTENDS RespParser

\* series names and event bodies, as model values
CONSTANTS cpu, mem, cpumem, evt, bad, b1, b2

MCSeriesIds ==
  [n \in {cpu, mem, cpumem, evt, bad} |->
     CASE n = cpu -> <<1>> [] n = mem -> <<2>> [] n = cpumem -> <<1, 2>>
       [] n = evt -> <<-1>> [] n = bad -> <<>>]

MCWords == {cpu, mem, cpumem, evt, bad, b1, b2}

\* Streams the protocol comment allows and that keep clear of the cases the
\* violation runs below single out, plus malformed ones for the error paths.
MCWellFormed == {
  \* two dictionary arrays, then PDUs by id, by name, with an ISO timestamp
  << RArr(2), RStr(cpu), RInt(7), RArr(2), RStr(evt), RInt(8),
     RInt(8), RInt(1), RStr(b1), RInt(7), RStr(2), RInt(5), RStr(mem), RInt(3), RStr(4) >>,
  \* a row of the compound name, then an event value
  << RStr(cpumem), RInt(1), RArr(2), RInt(3), RStr(4),
     RStr(evt), RInt(2), RStr(b2), RStr(cpu), RInt(3), RInt(5) >>,
  \* a good PDU, then a series name the index rejects
  << RStr(mem), RInt(1), RInt(3), RStr(bad), RInt(2), RInt(4) >>,
  \* a dictionary with an odd number of elements
  << RArr(3), RStr(cpu), RInt(7), RStr(mem) >>,
  \* a row whose array is one value short, after a good row
  << RStr(cpumem), RInt(1), RArr(2), RInt(3), RInt(4),
     RStr(cpumem), RInt(2), RArr(1), RInt(3) >>,
  \* a dictionary pair whose id is not an integer; a bulk string as id
  << RArr(2), RStr(cpu), RStr(b1) >>,
  << RStr(cpu), RInt(1), RInt(2), RBulk >>
}

\* A dictionary binding a compound name, then a row sent by its id.
MCDictRow == { << RArr(2), RStr(cpumem), RInt(7), RInt(7), RInt(1), RArr(2), RInt(3), RInt(4) >> }

\* An event series written once with a string, then with an integer.
MCEventInt == { << RStr(evt), RInt(1), RStr(b1), RStr(evt), RInt(2), RInt(4) >> }

=============================================================================
