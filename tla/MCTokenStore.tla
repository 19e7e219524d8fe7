----------------------------- MODULE MCTokenStore -----------------------------
(* Instances of TokenStore for TLC.                                          *)
EXTENDS TokenStore, TLC

CONSTANTS add, remove, s1, s2, c1, c2
=============================================================================
