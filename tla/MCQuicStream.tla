---------------------------- MODULE MCQuicStream ----------------------------
(* Small instances of QuicStream for TLC.                                  *)
EXTENDS QuicStream
=============================================================================
