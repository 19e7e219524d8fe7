---------------------------- MODULE MCConfigStore ----------------------------
(* Instances of ConfigStore for TLC.                                        *)
EXTENDS ConfigStore, TLC

CONSTANTS p1, p2, p3
=============================================================================
