\* An ISO-8601 timestamp in a put (the example in worker's own comment).
CONSTANTS
  Streams <- MCIso
  SeriesOk <- MCSeriesOk
  IsoTokens <- MCIsoTokens
  Quota = 13
  U32Max <- MCU32Max
  MaxChunk = 3
  WriteMayFail = TRUE
SPECIFICATION Spec
INVARIANT WrittenMatchesProtocol
\* An idle connection whose client sent everything, or one an error ended.
CHECK_DEADLOCK FALSE
