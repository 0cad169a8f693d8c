------------------------- MODULE MCReliableChannel -------------------------
(* A few control packets, a window of two and a small buffer.               *)
EXTENDS ReliableChannel
=============================================================================
