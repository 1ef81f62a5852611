------------------------------ MODULE Routing ------------------------------
(* What the router decides from one snapshot of the fleet: the class of a   *)
(* request (domain/classify.go), which upstreams may serve it               *)
(* (eligible.go), in which order they are tried (select.go), and what is    *)
(* relaxed when nobody fits (router.go, handleDefault).  Pure operators: no *)
(* variables.  A path is one of a few names and a round is a number; the    *)
(* parsing of either is left out.                                           *)
EXTENDS Capabilities, FiniteSets, Sequences, SequencesExt

CONSTANT Tolerance  \* SyncTolerance

NoRound == -1  \* a nil *uint64

-----------------------------------------------------------------------------
(* Classification (domain/classify.go).                                    *)

NoNeeds ==
  [asked |-> FALSE, groups |-> 0, rounds |-> 0, budget |-> 0, fork |-> FALSE,
   dev |-> FALSE, span |-> FALSE, latest |-> FALSE]

Plain ==
  [round |-> NoRound, high |-> 0, window |-> "block", anyRound |-> FALSE,
   timeTravel |-> FALSE, dev |-> FALSE, broadcast |-> FALSE, pending |-> FALSE,
   wait |-> NoRound, localOnly |-> FALSE, agent |-> FALSE, idempotent |-> TRUE,
   simulate |-> FALSE, needs |-> NoNeeds, limits |-> FALSE, deltas |-> FALSE,
   ahead |-> FALSE]

\* A round of the state, within a plain node's lookback or from the history.
AtRound(c, r) ==
  [c EXCEPT !.round = r, !.window = "state", !.anyRound = TRUE]

\* (mutant) any node that has the round will do
HistoryOrState(c, r) == AtRound(c, r)

\* The same, of an endpoint whose round a stock node ignores.
HistoryOnly(c, r) == [AtRound(c, r) EXCEPT !.timeTravel = TRUE]

\* Classify: path names the route, r the round in it, q the ?round= of the
\* query; NoRound when missing or unreadable.
Classify(method, path, r, q) ==
  LET c == [Plain EXCEPT !.idempotent = method \in {"GET", "HEAD"}]
      stored == [c EXCEPT !.round = r, !.ahead = r # NoRound /\ method = "GET"]
  IN CASE path = "mesh" -> [c EXCEPT !.agent = TRUE, !.localOnly = TRUE]
       [] path \in {"node", "admin", "pool"} -> [c EXCEPT !.localOnly = TRUE]
       [] path = "versions" -> [c EXCEPT !.timeTravel = TRUE]
       [] path \in {"block", "stateproof"} -> stored
       [] path = "header" -> [stored EXCEPT !.anyRound = TRUE]
       [] path = "delta" ->
            IF r = NoRound THEN c
            ELSE [stored EXCEPT !.window = "delta", !.deltas = method = "GET"]
       [] path = "deltagroups" -> [c EXCEPT !.round = r]
       [] path = "deltatxn" -> c
       [] path = "boxes" -> IF q = NoRound THEN c ELSE AtRound(c, q)
       [] path \in {"account", "box"} -> IF q = NoRound THEN c ELSE HistoryOnly(c, q)
       [] path = "supply" ->
            IF q = NoRound THEN [c EXCEPT !.localOnly = TRUE] ELSE HistoryOnly(c, q)
       [] path = "wait" -> [c EXCEPT !.wait = r]
       [] path = "teal" -> [c EXCEPT !.dev = TRUE, !.idempotent = TRUE]
       [] path = "transactions" ->
            IF method = "POST" THEN [c EXCEPT !.broadcast = TRUE, !.idempotent = FALSE] ELSE c
       [] path = "pending" -> [c EXCEPT !.pending = TRUE]
       [] path = "limits" -> [c EXCEPT !.limits = method = "GET"]
       [] path = "simulate" -> [c EXCEPT !.idempotent = TRUE, !.simulate = TRUE]
       [] OTHER -> c

Heavy(c) == c.simulate \/ c.deltas

\* ApplySimulate: what the body of a simulation asks of the node.  A round of
\* 0 is the node's latest.
ApplySimulate(c, b) ==
  LET named == {r \in Range(b.rounds) : r # 0}
      span == b.round = 0 /\ named # {}
      n == [NoNeeds EXCEPT !.asked = TRUE, !.groups = b.groups, !.rounds = Len(b.rounds),
              !.budget = Larger(b.budget, 0), !.fork = b.fork, !.dev = b.dev, !.span = span,
              !.latest = b.round = 0 /\ 0 \in Range(b.rounds)]
      asked == [c EXCEPT !.needs = n]
  IN IF b.round # 0 THEN AtRound(asked, b.round)
     ELSE IF span THEN [AtRound(asked, Min(named)) EXCEPT !.high = Max(named)]
     ELSE asked

\* Relaxed: the classes selection falls back to, in order.
Relaxed(c) ==
  LET roundless == [c EXCEPT !.round = NoRound, !.high = 0, !.window = "block",
                             !.anyRound = FALSE]
      needless(k) == [k EXCEPT !.needs = NoNeeds]
  IN IF ~c.needs.asked THEN <<>>
     ELSE IF c.needs.span THEN <<roundless, needless(roundless)>>
     ELSE <<needless(c)>>

-----------------------------------------------------------------------------
(* Eligibility (domain/eligible.go).                                       *)

Reachable(u) == u.health \in {"online", "lagging", "synced"}

\* inSync: a judgement is trusted, a merely online upstream compared.
InSync(u, best) ==
  u.health = "synced" \/ (u.health = "online" /\ u.last + Tolerance >= best)

\* (mutant) every state window begins a round late.
StateOldestLate(u, w) == Larger(u.last - u.caps.lookback, 0) + 1

\* stateOldest: the oldest round a plain node answers in window w.
StateOldest(u, w) ==
  Larger(u.last - u.caps.lookback, 0) + (IF w = "delta" THEN 1 ELSE 0)

\* stateWindowCovers: an unknown lookback falls back to the block window.
StateWindowCovers(u, r, w) ==
  r >= (IF u.caps.lookback = 0 THEN u.caps.oldest ELSE StateOldest(u, w))

\* The round the class names is one the node answers, by what it advertises.
Covers(u, c) ==
  /\ c.round <= u.last /\ c.high <= u.last
  /\ IF u.caps.timeTravel
     THEN c.anyRound \/ c.round >= u.caps.oldest
     ELSE IF c.window = "block" THEN c.round >= u.caps.oldest
          ELSE StateWindowCovers(u, c.round, c.window)

\* SimulateNeeds.Fits
Fits(n, caps) ==
  LET l == SimulateLimits(caps) IN
  /\ n.fork => caps.simulate # NoLimits
  /\ n.dev => caps.dev
  /\ n.groups <= l.groups /\ n.rounds <= l.rounds /\ n.budget <= l.budget

Eligible(u, c, best) ==
  /\ ~u.excluded /\ Reachable(u) /\ ~u.draining
  /\ ~u.breaker /\ ~u.throttled /\ ~(u.busy /\ Heavy(c))
  /\ c.localOnly => u.kind = "local"
  /\ c.timeTravel => u.caps.timeTravel
  /\ IF c.round # NoRound
     THEN Covers(u, c) /\ (c.needs.asked /\ c.needs.latest => InSync(u, best))
     ELSE c.localOnly \/ InSync(u, best)
  /\ c.wait # NoRound => c.wait <= u.last + 1
  /\ c.dev => u.caps.dev
  /\ c.needs.asked => Fits(c.needs, u.caps)
  /\ c.broadcast => ~u.caps.follow

\* BestRound, of the upstreams a request may go to.
BestRound(us) ==
  Max({0} \cup {u.last : u \in {v \in us : Reachable(v) /\ ~v.excluded}})

\* (mutant) only those that are in good health count.
CouldServeNow(us, c) == \E u \in us : Eligible(u, c, u.last)

\* CouldServe: somebody has what the class needs, were it in good health.
CouldServe(us, c) ==
  \E u \in us :
    Eligible([u EXCEPT !.health = "synced", !.draining = FALSE, !.breaker = FALSE,
                       !.throttled = FALSE, !.busy = FALSE], c, u.last)

-----------------------------------------------------------------------------
(* Selection (domain/select.go).                                           *)

\* Score: the measured part is one number of the upstream.
Score(u, best) ==
  u.measured + 50 * Larger(best - u.last, 0)
    - (IF u.kind = "local" THEN 2 ELSE 0) + (IF u.kind = "external" THEN 100 ELSE 0)

MinInt32 == -2147483647 - 1
MaxInt32 == 2147483647

\* effectiveTier: the local node first in fallback mode, externals always last.
EffectiveTier(mode, u) ==
  CASE u.kind = "local" /\ mode = "fallback" -> MinInt32
    [] u.kind = "external" -> MaxInt32 \div 2 + u.tier
    [] OTHER -> u.tier

\* stateWindowEdge: a heartbeat can trail its node by a round, so that a peer
\* whose window begins at the round may already have lost it.
StateWindowEdge(u, c) ==
  /\ c.round # NoRound /\ c.window # "block"
  /\ ~u.caps.timeTravel /\ u.kind # "local"
  /\ u.caps.lookback # 0 /\ u.last >= u.caps.lookback
  /\ c.round = StateOldest(u, c.window)

\* A node on the edge of its state window while a history is at hand.
Risky(elig, c, u) == StateWindowEdge(u, c) /\ \E v \in elig : v.caps.timeTravel

\* Select's order of the upstreams elig: tier, edge, score, and the ID.
Before(mode, elig, c, best) ==
  {p \in elig \X elig :
     LET u == p[1]
         v == p[2]
         tu == EffectiveTier(mode, u)
         tv == EffectiveTier(mode, v)
     IN \/ tu < tv
        \/ (tu = tv /\ ~Risky(elig, c, u) /\ Risky(elig, c, v))
        \/ /\ tu = tv /\ (Risky(elig, c, u) <=> Risky(elig, c, v))
           /\ \/ Score(u, best) < Score(v, best)
              \/ (Score(u, best) = Score(v, best) /\ u.rank < v.rank)}

\* The members of S in the order R.
Sorted(S, R) ==
  CHOOSE f \in [1 .. Cardinality(S) -> S] : \A i, j \in 1 .. Cardinality(S) : i < j => <<f[i], f[j]>> \in R

\* The sequences that Select may return of the upstreams elig, the chosen one
\* first and then the alternates.  Fallback mode takes the best, loadbalancer mode
\* the better of two drawn from the first tier, risky ones left out.
Selections(mode, elig, c, best) ==
  LET order == Sorted(elig, Before(mode, elig, c, best))
      first == {i \in DOMAIN order : EffectiveTier(mode, order[i]) = EffectiveTier(mode, order[1])}
      safe == {i \in first : ~Risky(elig, c, order[i])}
      pool == IF safe = {} THEN first ELSE safe
      drawn == {IF Score(order[b], best) < Score(order[a], best) THEN b ELSE a : a, b \in pool}
  IN IF elig = {} THEN {}
     ELSE IF mode = "loadbalancer" /\ Cardinality(first) > 1
          THEN {<<order[i]>> \o RemoveAt(order, i) : i \in drawn}
          ELSE {order}

Select(mode, us, c, best) ==
  Selections(mode, {u \in us : Eligible(u, c, best)}, c, best)

-----------------------------------------------------------------------------
(* The router (app/router.go).                                             *)

\* The first of the classes tried that finds somebody; one that somebody could
\* serve, were it in good health, is not relaxed.
FirstServed(us, tried) ==
  LET good == {i \in DOMAIN tried :
                 /\ tried[i].sels # {}
                 /\ \A j \in 1 .. i - 1 : tried[j].sels = {} /\ ~CouldServe(us, tried[j].class)}
  IN tried[IF good = {} THEN 1 ELSE Min(good)]

\* handleDefault without its second snapshot: the class the request is sent
\* with and the selections it may be sent by; no selection is a refusal.
Decision(mode, us, c, best) ==
  LET classes == <<c>> \o Relaxed(c)
  IN FirstServed(us, [i \in DOMAIN classes |->
       [class |-> classes[i], sels |-> Select(mode, us, classes[i], best)]])

\* What a request that found nobody is answered: as algod answers for a round
\* no reachable node has, else that nobody can serve it.
Refusal(us, c) ==
  IF c.ahead /\ BestRound(us) > 0 /\ c.round > BestRound(us) THEN "ahead" ELSE "unavailable"

\* simulateLimitsAbove
LimitsAbove(u, v) ==
  LET a == SimulateLimits(u.caps)
      b == SimulateLimits(v.caps)
      Key(l, w) == <<l.groups, l.rounds, l.budget,
                     IF w.caps.timeTravel THEN 1 ELSE 0, IF w.caps.dev THEN 1 ELSE 0, -w.rank>>
      ka == Key(a, u)
      kb == Key(b, v)
  IN \E i \in 1 .. 6 : ka[i] > kb[i] /\ \A j \in 1 .. i - 1 : ka[j] = kb[j]

\* (mutant) the best of every limit, over all nodes.
FleetLimitsCombined(us, best) ==
  LET told == {u \in us : /\ Eligible(u, [Plain EXCEPT !.simulate = TRUE], best)
                          /\ u.caps.simulate # NoLimits}
      Most(F(_)) == Max({F(SimulateLimits(u.caps)) : u \in told})
  IN IF told = {} THEN {}
     ELSE {[groups |-> Most(LAMBDA l : l.groups), rounds |-> Most(LAMBDA l : l.rounds),
            budget |-> Most(LAMBDA l : l.budget), multiplier |-> 1,
            timeTravel |-> \E u \in told : u.caps.timeTravel,
            dev |-> \E u \in told : u.caps.dev]}

\* FleetSimulateLimits: the limits of one eligible node, in full, except for
\* the multiplier, which is the least of all; a set of at most one reply.
FleetSimulateLimits(us, best) ==
  LET elig == {u \in us : Eligible(u, [Plain EXCEPT !.simulate = TRUE], best)}
      told == {u \in elig : u.caps.simulate # NoLimits}
      top == {u \in told : \A v \in told \ {u} : LimitsAbove(u, v)}
  IN {LET l == SimulateLimits(u.caps) IN
      [groups |-> l.groups, rounds |-> l.rounds, budget |-> l.budget,
       multiplier |-> Min({SimulateLimits(v.caps).multiplier : v \in elig}),
       timeTravel |-> u.caps.timeTravel, dev |-> u.caps.dev] : u \in top}
=============================================================================
