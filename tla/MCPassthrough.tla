---------------------------- MODULE MCPassthrough ----------------------------
(* Instances of Passthrough for TLC.                                        *)
EXTENDS Passthrough

CONSTANTS l1, l2, c1, c2, c3
==============================================================================
