------------------------- MODULE MCRetryTransport -------------------------
(* Instances of RetryTransport for TLC.                                     *)
EXTENDS RetryTransport, TLC
=============================================================================
