\* Streams whose reply command, if any, is their last line.
CONSTANTS
  Streams <- MCWellFormed
  SeriesOk <- MCSeriesOk
  IsoTokens <- MCIsoTokens
  Quota = 13
  U32Max <- MCU32Max
  MaxChunk = 3
  WriteMayFail = TRUE
SPECIFICATION Spec
 
INVARIANT WrittenMatchesProtocol
INVARIANT ParseErrorsAreReal
\* An idle connection whose client sent everything, or one an error ended.
CHECK_DEADLOCK FALSE
