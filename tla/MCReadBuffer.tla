---------------------------- MODULE MCReadBuffer ----------------------------
(* ReadBuffer with a 2-byte region and an 8-byte initial vector (N_BUF = 4 *)
(* as in the code), growing at most once, over a 14-byte stream.           *)
EXTENDS ReadBuffer

MCBufferSize == 2
MCNBuf == 4
MCMaxLen == 16
MCMaxStream == 14
=============================================================================
