CONSTANTS
  Streams <- MCEventInt
  SeriesIds <- MCSeriesIds
  Words <- MCWords
  Uids = {7, 8}
  NoBody = NoBody
  Undef = Undef
  cpu = cpu
  mem = mem
  cpumem = cpumem
  evt = evt
  bad = bad
  b1 = b1
  b2 = b2
  MAX_ROW_WIDTH = 2
  MaxChunk = 3
  WriteMayFail = TRUE

SPECIFICATION Spec

INVARIANT WrittenMatchesProtocol


\* The client stops sending and the connection stays idle, or an error
\* ended it: both are final states of a connection.
CHECK_DEADLOCK FALSE
