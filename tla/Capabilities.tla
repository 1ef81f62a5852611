---------------------------- MODULE Capabilities ----------------------------
(***************************************************************************)
(* What a node can do, as its agent tells the others (domain/types.go).    *)
(***************************************************************************)
EXTENDS Integers

CONSTANTS
  DefaultNonArchivalWindow,   \* rounds a non-archival algod keeps
  StockMaxExtraOpcodeBudget,  \* stock algod's limit on the extra budget
  MaxSimulateGroups,          \* the fork's ceilings
  MaxSimulateRounds,
  MaxExtraOpcodeBudget,
  MaxResourceLimitMultiplier

ASSUME WindowAssumption == DefaultNonArchivalWindow \in Nat

ASSUME CeilingsAssumption ==
  /\ StockMaxExtraOpcodeBudget \in Nat /\ MaxSimulateGroups \in Nat
  /\ MaxSimulateRounds \in Nat /\ MaxExtraOpcodeBudget \in Nat
  /\ MaxResourceLimitMultiplier \in Nat

NoLimits == [groups |-> 0, rounds |-> 0, budget |-> 0, multiplier |-> 0]  \* a nil *SimulateLimits
NoOverride == [kind |-> "unset", n |-> 0]                                 \* a nil *Archival

\* The archival modes (Archival).
Archivals == [kind : {"full", "trailing", "since", "none"}, n : Nat]

Larger(a, b) == IF a > b THEN a ELSE b
Smaller(a, b) == IF a < b THEN a ELSE b

\* OldestRoundFor: the earliest round an archival mode serves at lastRound.
OldestRoundFor(a, lastRound) ==
  IF a.kind = "full" THEN 0
  ELSE IF a.kind = "trailing" THEN Larger(lastRound - a.n, 0)
  ELSE IF a.kind = "since" THEN a.n
  ELSE Larger(lastRound - DefaultNonArchivalWindow, 0)

\* CapabilityOverrides.Apply, for the one override that depends on a round:
\* the others replace a flag by a constant.
Apply(override, caps, lastRound) ==
  IF override = NoOverride THEN caps
  ELSE [caps EXCEPT !.archival = override,
                    !.oldest = OldestRoundFor(override, lastRound)]

\* Capabilities.SimulateLimits: what the node allows, read as the fork reads
\* its own configuration.
SimulateLimits(caps) ==
  LET l == caps.simulate
      budget == IF l.budget = 0 THEN StockMaxExtraOpcodeBudget ELSE l.budget
  IN IF l = NoLimits
     THEN [groups |-> 1, rounds |-> 0, budget |-> StockMaxExtraOpcodeBudget, multiplier |-> 1]
     ELSE [groups |-> Smaller(Larger(l.groups, 1), MaxSimulateGroups),
           rounds |-> Smaller(l.rounds, MaxSimulateRounds),
           budget |-> Smaller(budget, MaxExtraOpcodeBudget),
           multiplier |-> Smaller(Larger(l.multiplier, 1), MaxResourceLimitMultiplier)]
=============================================================================
