CONSTANTS
  BUFFER_SIZE <- MCBufferSize
  N_BUF <- MCNBuf
  MaxLen <- MCMaxLen
  MaxStream <- MCMaxStream

SPECIFICATION Spec

INVARIANT TypeOK
INVARIANT PulledRegionFits
PROPERTY WindowRefinement

CHECK_DEADLOCK FALSE
