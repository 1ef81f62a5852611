------------------------------ MODULE MCTxnPins ------------------------------
(* An instance of the pins alone, whatever calls and pauses come.            *)
EXTENDS TxnPins, TLC

CONSTANTS m1, m2, x1, x2
===============================================================================
