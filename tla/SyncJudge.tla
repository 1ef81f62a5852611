------------------------------ MODULE SyncJudge ------------------------------
(***************************************************************************)
(* The health of one upstream over time: SyncJudge and ReturnHysteresis of *)
(* internal/domain/health.go, as operators on the judge's state.           *)
(*                                                                         *)
(* Instants are kept as ages, counted in units of time up to a cap at      *)
(* which nothing changes any more: behind is how long the upstream has     *)
(* been a round too far behind, and -1 when it is not.                     *)
(***************************************************************************)
EXTENDS Integers

CONSTANTS
  Tolerance,  \* rounds behind that are no lag at all
  Grace,      \* how long one round more is tolerated, in units of time
  Required    \* synced rounds before a recovered upstream is trusted again

ASSUME JudgeAssumption ==
  /\ Tolerance \in Nat
  /\ Grace \in Nat
  /\ Required \in Nat \ {0}

Judges(Rounds) ==
  [behind : -1 .. Grace, lastRound : Rounds, seen : BOOLEAN,
   streak : 0 .. Required, trusted : BOOLEAN]

\* NewSyncJudge: trusted until the first outage.
NewJudge == [behind |-> -1, lastRound |-> 0, seen |-> FALSE, streak |-> 0, trusted |-> TRUE]

\* (mutant) every observation starts the grace anew
BehindAnew(j, reachable, round, best) ==
  IF reachable /\ best > round + Tolerance THEN 0 ELSE -1

\* How long the upstream has been behind, this observation included.
Behind(j, reachable, round, best) ==
  IF reachable /\ best > round + Tolerance
  THEN IF j.behind = -1 THEN 0 ELSE j.behind
  ELSE -1

Lags(j, reachable, round, best) ==
  /\ reachable
  /\ best > round + Tolerance
  /\ \/ best > round + Tolerance + 1
     \/ Behind(j, reachable, round, best) >= Grace

\* ReturnHysteresis.Observe on anything but synced: the trust is gone.
Distrust(j) == [j EXCEPT !.streak = 0, !.trusted = FALSE]

\* ReturnHysteresis.Observe on synced: the streak counts towards trust.
Credit(j) ==
  IF j.trusted THEN j
  ELSE [j EXCEPT !.streak = @ + 1, !.trusted = j.streak + 1 >= Required]

\* SyncJudge.Judge: the judge after one observation.
Judge(j0, reachable, round, best) ==
  LET j == [j0 EXCEPT !.behind = Behind(j0, reachable, round, best)] IN
  IF ~reachable THEN IF j.seen THEN Distrust(j) ELSE j
  ELSE IF Lags(j0, reachable, round, best) THEN Distrust(j)
  ELSE IF ~j.seen \/ round # j.lastRound
       THEN Credit([j EXCEPT !.seen = TRUE, !.lastRound = round])
  ELSE j

\* SyncJudge.Judge: the health it publishes.
Health(j0, reachable, round, best) ==
  IF ~reachable THEN "offline"
  ELSE IF Lags(j0, reachable, round, best) THEN "lagging"
  ELSE IF Judge(j0, reachable, round, best).trusted THEN "synced" ELSE "lagging"

\* One unit of time later.
Aged(j) == [j EXCEPT !.behind = IF @ = -1 \/ @ = Grace THEN @ ELSE @ + 1]
=============================================================================
