---------------------------- MODULE MCGmailWatch ----------------------------
(* Instances of GmailWatch for TLC.  Requests are interchangeable in the    *)
(* runs that check safety only.                                             *)
EXTENDS GmailWatch, TLC

RequestSymmetry == Permutations(Requests)
=============================================================================
