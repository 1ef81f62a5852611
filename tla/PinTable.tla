------------------------------ MODULE PinTable ------------------------------
(***************************************************************************)
(* What the router relies on when it remembers which node accepted a       *)
(* transaction: the last node named is found for at least TTL, and nothing *)
(* is kept for 3 * TTL.  TxnPins is shown to implement this.               *)
(***************************************************************************)
EXTENDS Naturals

CONSTANTS Txns, Nodes, TTL, None

VARIABLES
  pin, \* the node a lookup of each transaction is sent to first, or None
  age  \* the time since each pin was last set, Oldest without a pin

vars == <<pin, age>>

Oldest == 3 * TTL

Init ==
  /\ pin = [t \in Txns |-> None]
  /\ age = [t \in Txns |-> Oldest]

Remember(t, n) ==
  /\ pin' = [pin EXCEPT ![t] = n]
  /\ age' = [age EXCEPT ![t] = 0]

\* A unit of time passes, and the pins of the transactions in gone expire.
TimePasses(gone) ==
  /\ pin' = [t \in Txns |-> IF t \in gone THEN None ELSE pin[t]]
  /\ age' = [t \in Txns |-> IF pin'[t] = None THEN Oldest ELSE age[t] + 1]
  /\ \A t \in Txns : pin[t] # None =>
       IF t \in gone THEN age[t] + 1 >= TTL ELSE age[t] + 1 < Oldest

Next ==
  \/ \E t \in Txns, n \in Nodes : Remember(t, n)
  \/ \E gone \in SUBSET Txns : TimePasses(gone)

Spec == Init /\ [][Next]_vars
=============================================================================
