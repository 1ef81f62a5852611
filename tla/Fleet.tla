-------------------------------- MODULE Fleet --------------------------------
(***************************************************************************)
(* Routing over the fleet that the registry tells of: the records known to *)
(* the directory decide which peers are candidates and in which tier       *)
(* (Directory.Snapshot), the router decides from the candidates, and the   *)
(* nodes answer from what they really have.  A situation is what the rest  *)
(* of the directory can add to the records: who is out and how, how far    *)
(* the nodes have come, and how old the news of each is, a heartbeat's, a  *)
(* probe's or a check's.  Since a decision is made from one snapshot, each *)
(* property asks of the known records that it holds in every situation.    *)
(***************************************************************************)
EXTENDS Registry, Routing

CONSTANTS
  Ext,         \* the external upstream
  Rank,        \* the order of the upstreams' IDs
  Situations,  \* [mode, caps, at, seen, told, heard, declared, out]
  Requests     \* [path, method, round, body]

Upstreams == Agents \cup {Ext}

\* How an upstream can be out: nothing is known of a silent peer, and an external
\* whose last check was good but is no longer valid has expired.
Outages == {"no", "silent", "offline", "expired", "draining", "breaker", "busy"}

\* How it is offline to the router.
Unreachable == {"silent", "offline", "expired"}

Limits == [groups : Nat, rounds : Nat, budget : Nat, multiplier : Nat]

Caps == [oldest : Nat, archival : Archivals \cup {NoOverride}, simulate : Limits, dev : BOOLEAN,
         follow : BOOLEAN, timeTravel : BOOLEAN, lookback : Nat]

\* The fields of CapabilityOverrides: there is none for the lookback.
Declarable == {"archival", "simulate", "dev", "follow", "timeTravel"}

\* Of every upstream: caps, what it really can do; at, the round it has reached; seen,
\* the round the directory shows of it; told, the round for which the directory has
\* its block window.  All news may be old, by any number of rounds.  heard: the
\* agents a heartbeat was ever had from; of the others the directory goes by
\* declared.  seen and told differ for a peer whose agent fell silent after it was
\* heard and whose node answers probes.  Only a heartbeat says that a peer drains or
\* that its node is offline.  A node has the blocks of the states that it keeps.
IsSituation(s) ==
  /\ s \in [mode : {"fallback", "loadbalancer"}, caps : [Upstreams -> Caps],
            at : [Upstreams -> Nat], seen : [Upstreams -> Nat], told : [Upstreams -> Nat],
            heard : SUBSET Agents, declared : [Upstreams -> SUBSET Declarable],
            out : [Upstreams -> Outages]]
  /\ Self \in s.heard
  /\ \A u \in Upstreams :
       /\ s.seen[u] <= s.at[u] /\ s.told[u] <= s.at[u]
       /\ s.told[u] # s.seen[u] => u \in s.heard \cap Others
       /\ OldestRoundFor(s.caps[u].archival, s.at[u]) <= Larger(s.at[u] - s.caps[u].lookback, 0)
       /\ s.out[u] = "silent" => u \in Others
       /\ s.out[u] = "expired" => u = Ext
       /\ s.out[u] = "draining" => u # Ext
       /\ s.out[u] \in {"draining", "offline"} /\ u \in Others =>
            u \in s.heard /\ s.told[u] = s.seen[u]

\* The chain has made its first round, and every node that is up has it.
Started(s) == \A u \in Upstreams : s.out[u] \notin Unreachable => s.seen[u] > 0

\* The paths that name a round a node must hold.
RoundPaths == {"block", "stateproof", "header", "delta", "boxes", "account", "box", "supply"}

Bodies == [groups : Nat, rounds : Seq(Nat), round : Nat, budget : Int, fork : BOOLEAN, dev : BOOLEAN]

IsRequest(q) ==
  /\ q \in [path : STRING, method : STRING, round : Nat \cup {NoRound}, body : Bodies]
  /\ q.round # NoRound => q.path \in RoundPaths

ASSUME FleetAssumption ==
  /\ IsFiniteSet(Others) /\ Ext \notin Agents
  /\ Facts \subseteq Nat
  /\ Rank \in [Upstreams -> Nat] /\ \A u, v \in Upstreams : Rank[u] = Rank[v] => u = v
  /\ Tolerance \in Nat
  /\ \A s \in Situations : IsSituation(s) /\ Started(s)
  /\ \A q \in Requests : IsRequest(q)

-----------------------------------------------------------------------------
(* Snapshot.                                                               *)

NoCaps == [oldest |-> 0, archival |-> NoOverride, simulate |-> NoLimits, dev |-> FALSE,
           follow |-> FALSE, timeTravel |-> FALSE, lookback |-> 0]

\* The capabilities of a node whose block window is the one it has at round r.
CapsAt(s, u, r) == [s.caps[u] EXCEPT !.oldest = OldestRoundFor(s.caps[u].archival, r)]

\* What the directory knows of them: what the last heartbeat told, as of then; of
\* an upstream that was never heard what is declared, with the window of a node that
\* is not archival unless that is declared too.
ToldCaps(s, u) ==
  LET d == s.declared[u]
      archival == IF "archival" \in d THEN s.caps[u].archival ELSE [kind |-> "none", n |-> 0]
  IN IF u \in s.heard THEN CapsAt(s, u, s.told[u])
     ELSE [oldest |-> OldestRoundFor(archival, s.told[u]), archival |-> archival,
           simulate |-> IF "simulate" \in d THEN s.caps[u].simulate ELSE NoLimits,
           dev |-> "dev" \in d /\ s.caps[u].dev, follow |-> "follow" \in d /\ s.caps[u].follow,
           timeTravel |-> "timeTravel" \in d /\ s.caps[u].timeTravel, lookback |-> 0]

KindOf(u) == IF u = Self THEN "local" ELSE IF u = Ext THEN "external" ELSE "peer"

Known(recs0) == {Self, Ext} \cup {a \in Others : recs0[a] # None}

\* Nothing is known of a peer that neither sends heartbeats nor answers
\* probes, not even what it could do.
Silent(s, u) == s.out[u] = "silent" /\ u \in Others

\* bestRoundLocked: an external counts while its last check was good, valid or not.
Best(s, recs0) ==
  Max({0} \cup {s.seen[u] : u \in {v \in Known(recs0) : s.out[v] \notin {"silent", "offline"}}})

\* SyncHealth: Judge without its grace and its hysteresis.
Health(s, u, best) ==
  IF s.out[u] \in Unreachable THEN "offline"
  ELSE IF s.seen[u] + Tolerance >= best THEN "synced" ELSE "lagging"

Candidate(s, recs0, u) ==
  [id |-> u, kind |-> KindOf(u), tier |-> IF u \in Others THEN recs0[u] ELSE 0,
   rank |-> Rank[u],
   health |-> Health(s, u, Best(s, recs0)),
   last |-> IF Silent(s, u) THEN 0 ELSE s.seen[u],
   caps |-> IF Silent(s, u) THEN NoCaps ELSE ToldCaps(s, u),
   draining |-> s.out[u] = "draining", excluded |-> FALSE,
   breaker |-> s.out[u] = "breaker", throttled |-> FALSE,
   busy |-> s.out[u] = "busy", measured |-> 20]

Snapshot(s, recs0) == {Candidate(s, recs0, u) : u \in Known(recs0)}

\* handleDefault
Routed(s, recs0, q) ==
  LET c == Classify(q.method, q.path, q.round, q.round)
      class == IF q.path = "simulate" THEN ApplySimulate(c, q.body) ELSE c
      d == Decision(s.mode, Snapshot(s, recs0), class, Best(s, recs0))
  IN [asked |-> class, class |-> d.class, sels |-> d.sels]

-----------------------------------------------------------------------------
(* The nodes, as the router relies on them: what they answer at the round  *)
(* they have really reached.                                               *)

\* The rounds a node answers on a path: from its block store, from its last
\* states, from its history.  Stock algod keeps the states of its lookback.
Holds(s, u, path) ==
  LET caps == CapsAt(s, u, s.at[u])
      blocks == caps.oldest .. s.at[u]
      states == Larger(s.at[u] - s.caps[u].lookback, 0) .. s.at[u]
      all == 0 .. s.at[u]
  IN CASE path \in {"block", "stateproof"} -> blocks
       [] path = "header" -> IF caps.timeTravel THEN all ELSE blocks
       [] path = "delta" ->
            IF caps.timeTravel THEN blocks ELSE {r + 1 : r \in states} \cap states
       [] OTHER -> IF caps.timeTravel THEN all ELSE states

\* Stock algod does not look at ?round= on these.
Ignores(s, u, path) == path \in {"account", "box", "supply"} /\ ~s.caps[u].timeTravel

\* The one round a request is about, if it names one.
RoundOf(q) ==
  IF q.path # "simulate" THEN q.round
  ELSE IF q.body.round # 0 THEN q.body.round ELSE NoRound

NodeAnswers(s, u, q) ==
  IF RoundOf(q) = NoRound THEN "any"
  ELSE IF Ignores(s, u, q.path) THEN "present"
  ELSE IF RoundOf(q) \in Holds(s, u, q.path) THEN "right"
  ELSE "missing"

-----------------------------------------------------------------------------
(* Specification.  Reads and retries go on while the process runs, and a   *)
(* transaction that is not dropped is confirmed.                           *)

fleetVars == registryVars

Spec ==
  /\ RegistryInit /\ [][RegistryNext]_fleetVars
  /\ WF_fleetVars(Refresh) /\ WF_fleetVars(Start)
  /\ WF_fleetVars(\E f \in Facts : TxLands(f))

-----------------------------------------------------------------------------
(* Properties.                                                             *)

TypeOK == RegistryTypeOK

\* The router goes by the window of blocks; by that of states only for a plain node
\* whose lookback it knows.
GoesByBlocks(u, c) == c.window = "block" \/ u.caps.timeTravel \/ u.caps.lookback = 0

\* Where the window that it goes by begins, and the round of the news it is from.
WindowLow(u, c) == IF GoesByBlocks(u, c) THEN u.caps.oldest ELSE StateOldest(u, c.window)

AsOf(s, u, c) == IF GoesByBlocks(u, c) THEN s.told[u.id] ELSE s.seen[u.id]

\* The state of a plain node that is the oldest it had by the news of it.
AtTheEdge(u, c) ==
  /\ c.window # "block" /\ ~u.caps.timeTravel /\ u.kind # "local"
  /\ u.last >= u.caps.lookback /\ c.round = StateOldest(u, c.window)

\* Why a node may be asked for a round it is missing.  Nobody has told which blocks
\* it has; or nobody has told how far back its states go; or its window, which
\* the router knows right as of its last news, has moved past the round since.
\* Even then the first choice is not the oldest state of a plain node, when a history
\* of its tier is at hand.
Excused(s, recs0, c, sel, i) ==
  LET u == sel[i] IN
  \/ u.id \notin s.heard /\ "archival" \notin s.declared[u.id]
  \/ u.caps.lookback = 0 /\ c.window # "block" /\ ~u.caps.timeTravel
  \/ /\ c.round - WindowLow(u, c) < s.at[u.id] - AsOf(s, u, c)
     /\ i = 1 /\ AtTheEdge(u, c) =>
          ~ \E v \in Snapshot(s, recs0) :
              /\ EffectiveTier(s.mode, v) = EffectiveTier(s.mode, u)
              /\ v.caps.timeTravel /\ Eligible(v, c, Best(s, recs0))

Verdict(s, recs0, q, c, sel, i) ==
  LET answer == NodeAnswers(s, sel[i].id, q)
  IN IF answer = "missing" /\ Excused(s, recs0, c, sel, i) THEN "excused" ELSE answer

IsRelaxed(d) == d.class # d.asked

\* What the node can do was heard from its agent or is declared in full.
Disclosed(s, u) == u \in s.heard \/ s.declared[u] = Declarable

\* A node in good health has the answer, and the news of its round has come.
Able(s, u, q, c) ==
  /\ s.out[u] = "no" /\ NodeAnswers(s, u, q) = "right" /\ RoundOf(q) <= s.seen[u]
  /\ Disclosed(s, u)
  /\ c.needs.asked => Fits(c.needs, s.caps[u])

\* A refusal for which there is no reason, or the wrong one.
Wronged(s, recs0, q, d) ==
  /\ d.sels = {}
  /\ \E u \in Known(recs0) :
       \/ Able(s, u, q, d.asked)
       \/ /\ Refusal(Snapshot(s, recs0), d.asked) = "ahead"
          /\ s.out[u] \notin Unreachable /\ RoundOf(q) <= s.seen[u]

\* The same situation with everybody in good health of whom anything is known: what
\* a silent peer could do nobody knows.
Well(s) == [s EXCEPT !.out = [u \in Upstreams |-> IF s.out[u] = "silent" THEN "silent" ELSE "no"]]

\* The answers of the nodes that a request is tried at, along every selection the
\* router may make.
Answers(s, recs0, q, d) ==
  UNION {{Verdict(s, recs0, q, d.class, sel, i) : i \in DOMAIN sel} : sel \in d.sels}

\* It was relaxed for an outage: not so were everybody well that is heard of.
RelaxedForOutage(d, w) == IsRelaxed(d) /\ w.sels # {} /\ ~IsRelaxed(w)

\* What may come of a request that is routed by decision d, and by w were
\* everybody well that is heard of.
Judged(s, recs0, q, d, w) ==
  Answers(s, recs0, q, d)
  \cup (IF RelaxedForOutage(d, w) THEN {"relaxed"} ELSE {})
  \cup (IF Wronged(s, recs0, q, d) THEN {"refused"} ELSE {})

Verdicts(s, recs0, q) ==
  Judged(s, recs0, q, Routed(s, recs0, q), Routed(Well(s), recs0, q))

Outcomes ==
  {<<k, Verdicts(s, k, q)>> : k \in [Others -> Facts \cup {None}], s \in Situations, q \in Requests}

May(verdict) == \E o \in Outcomes : o[1] = known /\ verdict \in o[2]

\* A client that asks about a round is answered about that round: nowhere along
\* the retries of its request does it reach a node that ignores the round and
\* tells of the present, nor one that lacks it, however old the news of the nodes
\* is, by heartbeat, probe or check.  The exceptions are the ones Excused names: what
\* nobody told, and a window that has moved past the round since the last news
\* (Classify, Eligible, Select, Snapshot).
RightRound == ~May("present") /\ ~May("missing")

\* A round that a node in good health has is never refused, when the news of the
\* round has come and what the node can do is known; and "not yet" is never said of
\* a round that a reachable node is known to have reached.
RefusedOnlyWhenNobodyHas == ~May("refused")

\* A simulation that some node could run, of which the directory knows what it can
\* do, is never handed to one that cannot because the first is draining, failing,
\* busy, offline by its own agent's word or past its check.  A peer that neither
\* sends heartbeats nor answers probes is as if it did not exist, and requests are
\* relaxed for want of it (CouldServe).
OutageNeverRelaxes == ~May("relaxed")

\* The simulations that a reply of the limits endpoint invites.
Invited(l) ==
  {[path |-> "simulate", method |-> "POST", round |-> NoRound,
    body |-> [groups |-> l.groups, rounds |-> [i \in 1 .. n |-> 0], round |-> r,
              budget |-> l.budget, fork |-> TRUE, dev |-> l.dev]] :
     n \in 0 .. l.rounds, r \in {0} \cup (IF l.timeTravel THEN {1} ELSE {})}

\* Whether they find a node without being relaxed.
Served(s, recs0) ==
  \A l \in FleetSimulateLimits(Snapshot(s, recs0), Best(s, recs0)) :
    \A q \in Invited(l) :
      LET d == Routed(s, recs0, q) IN ~IsRelaxed(d) /\ d.sels # {}

\* What comes of them, for every set of records.
Promises ==
  {<<k, IF Served(s, k) THEN "kept" ELSE "broken">> : k \in [Others -> Facts \cup {None}], s \in Situations}

\* What the limits endpoint tells for the fleet, one node can do: a simulation
\* at all the limits at once finds a node, and is not relaxed.
LimitsAreServed == <<known, "broken">> \notin Promises
=============================================================================
