----------------------------- MODULE MCHeldWaits -----------------------------
(* Instances of HeldWaits for TLC.                                          *)
EXTENDS HeldWaits, TLC

CONSTANTS w1, w2, n1, e1, f1, f2
==============================================================================
