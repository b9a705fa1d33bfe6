\* A client sending only version and ignored commands.
CONSTANTS
  Streams <- MCCommands
  SeriesOk <- MCSeriesOk
  IsoTokens <- MCIsoTokens
  Quota = 13
  U32Max <- MCU32Max
  MaxChunk = 3
  WriteMayFail = TRUE
SPECIFICATION Spec
INVARIANT BufferedBytesBounded
\* An idle connection whose client sent everything, or one an error ended.
CHECK_DEADLOCK FALSE
