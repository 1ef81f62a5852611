------------------------------- MODULE TxnPins -------------------------------
(***************************************************************************)
(* txnPins: which node accepted a transaction, in two generations that are *)
(* rotated by the calls themselves, never by a timer.                      *)
(***************************************************************************)
EXTENDS Naturals

CONSTANTS
  Txns,  \* transaction identifiers
  Nodes, \* upstreams
  TTL,   \* txnPins.ttl
  None   \* no node

ASSUME PinsAssumption == TTL \in Nat \ {0} /\ None \notin Nodes

VARIABLES
  cur, prev, \* txid -> upstream, None where the map has no entry
  since,     \* the time since rotated; beyond 2 * TTL it makes no difference
  age        \* history: the time since each pin was last set, 3 * TTL without a pin

pinVars == <<cur, prev, since, age>>

Empty == [t \in Txns |-> None]

PinsInit ==
  /\ cur = Empty /\ prev = Empty
  /\ since = 0
  /\ age = [t \in Txns |-> 3 * TTL]

\* (mutant) the time of the rotation is not noted
RotatedUntimed ==
  IF since >= 2 * TTL THEN <<Empty, Empty, since>>
  ELSE IF since >= TTL THEN <<Empty, cur, since>>
  ELSE <<cur, prev, since>>

\* rotate: the generations (cur, prev) and the time since the rotation.
Rotated ==
  IF since >= 2 * TTL THEN <<Empty, Empty, 0>>
  ELSE IF since >= TTL THEN <<Empty, cur, 0>>
  ELSE <<cur, prev, since>>

\* What recall finds: it rotates, then looks into cur and prev.
Recalled(t) == IF Rotated[1][t] # None THEN Rotated[1][t] ELSE Rotated[2][t]

Remember(t, n) ==
  /\ cur' = [Rotated[1] EXCEPT ![t] = n]
  /\ prev' = Rotated[2]
  /\ since' = Rotated[3]
  /\ age' = [age EXCEPT ![t] = 0]

\* recall, for what it leaves behind.
Recall ==
  /\ cur' = Rotated[1]
  /\ prev' = Rotated[2]
  /\ since' = Rotated[3]
  /\ UNCHANGED age

\* A unit of time passes.
PinsAge ==
  /\ since' = IF since < 2 * TTL THEN since + 1 ELSE since
  /\ UNCHANGED <<cur, prev>>
  /\ age' = [t \in Txns |-> IF Recalled(t)' = None THEN 3 * TTL ELSE age[t] + 1]

PinsNext ==
  \/ \E t \in Txns, n \in Nodes : Remember(t, n)
  \/ Recall
  \/ PinsAge

PinsSpec == PinsInit /\ [][PinsNext]_pinVars

\* What recall returns is the table.
Table == INSTANCE PinTable WITH pin <- [t \in Txns |-> Recalled(t)]

\* The last node remembered is found for at least TTL, whatever calls come in
\* between, and a pin never lives as long as 3 * TTL (txnPins.rotate).
PinsKeepTheirPromise == Table!Spec

\* What the comment of txnPins and the example configuration say of a pin: it
\* lives between ttl and 2 * ttl.  The lower bound is part of Table!Spec; this
\* is the upper one, of the pins a lookup would be sent to.  It does not hold:
\* the generations rotate when the next call comes, not every ttl.
PinLivesTwoTTL == \A t \in Txns : Recalled(t) # None => age[t] <= 2 * TTL
==============================================================================
