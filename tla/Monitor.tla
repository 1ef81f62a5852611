------------------------------ MODULE Monitor ------------------------------
(***************************************************************************)
(* The local monitor (app/monitor.go): three goroutines that follow the    *)
(* co-located algod.  Run awaits it and then follows its rounds by a long  *)
(* poll; configLoop re-reads its data directory; verifyLoop measures the   *)
(* oldest round it serves, over many requests.  Each applies what it has   *)
(* found to whatever the state has become by then.  A balancer's monitor   *)
(* (Absent) does nothing and is left out, as are the length of sleeps and  *)
(* the waiters, whose kind HeldWaits models.                               *)
(***************************************************************************)
EXTENDS Capabilities

CONSTANTS
  Configs,     \* what the data directory may say: mod, endpoint, archival
  Overrides,   \* the Archival overrides an agent may be started with
  Nodes,       \* the nodes it may be started beside: first block, rounds kept
  Limits,      \* the simulate limits a node may be configured with
  FirstRound,  \* the node's round when the agent starts
  MaxRound, MaxRestarts \* bounds on the node and on its operator

ASSUME MonitorAssumption ==
  /\ FirstRound \in Nat /\ MaxRound \in Nat /\ MaxRestarts \in Nat
  /\ \A n \in Nodes : n.start \in 0 .. FirstRound /\ n.keeps \in Nat
  /\ \A c \in Configs : c.archival \in Archivals
  /\ Overrides \subseteq Archivals \cup {NoOverride}

VARIABLES
  node,     \* the algod: up, its last round, its oldest block, its limits
  file,     \* what the data directory says now
  override, \* the Archival override, from the agent's configuration
  st,       \* LocalState
  run,      \* Run: what it waits for or is about to apply
  conf,     \* configLoop
  ver,      \* verifyLoop: the measurement under way
  verify,   \* the channel that asks for a measurement holds an element
  restarts

vars == <<node, file, override, st, run, conf, ver, verify, restarts>>
environment == <<node, file, restarts>>

-----------------------------------------------------------------------------
(* The node, as the monitor uses it (external).                            *)

HasBlock(r) == node.oldest <= r /\ r <= node.tip

\* A block is added, and one beyond those it keeps is dropped.
NodeRound ==
  /\ node.up /\ node.tip < MaxRound
  /\ node' = [node EXCEPT !.tip = @ + 1,
                          !.oldest = Larger(@, node.tip + 1 - node.keeps)]
  /\ UNCHANGED <<file, override, st, run, conf, ver, verify, restarts>>

NodeStops ==
  /\ node.up /\ restarts < MaxRestarts
  /\ node' = [node EXCEPT !.up = FALSE]
  /\ restarts' = restarts + 1
  /\ UNCHANGED <<file, override, st, run, conf, ver, verify>>

\* It may come back with another configuration, other limits, and with fewer
\* blocks than it had.
NodeStarts ==
  /\ ~node.up
  /\ \E l \in Limits, o \in node.oldest .. node.tip :
       node' = [node EXCEPT !.up = TRUE, !.limits = l, !.oldest = o]
  /\ file' \in Configs
  /\ UNCHANGED <<override, st, run, conf, ver, verify, restarts>>

-----------------------------------------------------------------------------
(* LocalState.                                                             *)

NoCaps == [archival |-> [kind |-> "none", n |-> 0], oldest |-> 0, simulate |-> NoLimits]

\* capsFromConfig
CapsFromConfig(cfg, s) ==
  Apply(override, [s.caps EXCEPT !.archival = cfg.archival,
                                 !.oldest = OldestRoundFor(cfg.archival, s.last)], s.last)

\* readConfig, when the data directory can be read.
WithConfig(s, cfg) ==
  [s EXCEPT !.cfg = cfg, !.configOK = TRUE, !.caps = CapsFromConfig(cfg, s),
            !.verified = @ /\ s.configOK /\ s.cfg.mod = cfg.mod]

\* The part of a status answer that every one of them is applied with.
WithRound(s, round) ==
  [s EXCEPT !.online = TRUE, !.last = round,
            !.caps = Apply(override, [s.caps EXCEPT !.oldest = OldestRoundFor(s.caps.archival, round)],
                           round)]

\* Nothing has been read yet.
NoConfig == [mod |-> 0, endpoint |-> 0, archival |-> NoCaps.archival]
Unread ==
  [online |-> FALSE, last |-> 0, caps |-> NoCaps, cfg |-> NoConfig,
   configOK |-> FALSE, verified |-> FALSE, limitsKnown |-> FALSE]

Awaiting(pc) == [pc |-> pc, round |-> 0, known |-> FALSE, limits |-> NoLimits]
Idle == [pc |-> "idle", tick |-> FALSE, expected |-> 0, last |-> 0, lo |-> 0, hi |-> 0,
         from |-> 0, limits |-> NoLimits]

\* Run has read the data directory of a running algod.
Init ==
  /\ \E n \in Nodes, l \in Limits :
       node = [up |-> TRUE, tip |-> FirstRound, oldest |-> n.start, keeps |-> n.keeps, limits |-> l]
  /\ file \in Configs
  /\ override \in Overrides
  /\ st = WithConfig(Unread, file)
  /\ run = Awaiting("await")
  /\ conf = "idle"
  /\ ver = Idle
  /\ verify = FALSE
  /\ restarts = 0

-----------------------------------------------------------------------------
(* Run: awaitOnline and watch.                                             *)

\* A question about the limits is answered, or is not.
LimitsAnswer == {[known |-> FALSE, limits |-> NoLimits], [known |-> TRUE, limits |-> node.limits]}

\* awaitOnline: the status and the limits are fetched.
StatusAnswered ==
  /\ run.pc = "await" /\ node.up
  /\ \E a \in LimitsAnswer :
       run' = [pc |-> "online", round |-> node.tip, known |-> a.known, limits |-> a.limits]
  /\ UNCHANGED <<environment, override, st, conf, ver, verify>>

\* No status, or an error in the long poll: offline, and after a while again.
StatusFails ==
  /\ run.pc \in {"await", "watch"} /\ ~node.up
  /\ st' = [st EXCEPT !.online = FALSE]
  /\ run' = Awaiting("await")
  /\ UNCHANGED <<environment, override, conf, ver, verify>>

\* awaitOnline applies what it fetched, and requestVerify follows: a send
\* that never blocks, to a channel that holds one request.
ComesOnline ==
  /\ run.pc = "online"
  /\ LET known == [st EXCEPT !.limitsKnown = run.known,
                             !.caps.simulate = IF run.known THEN run.limits ELSE @]
     IN st' = WithRound(known, run.round)
  /\ verify' = TRUE
  /\ run' = Awaiting("watch")
  /\ UNCHANGED <<environment, override, conf, ver>>

\* watch: the long poll returns, with a new round or after algod's own
\* timeout, and limits still unknown are asked for.
WaitAnswered ==
  /\ run.pc = "watch" /\ node.up
  /\ \E a \in IF st.limitsKnown THEN {[known |-> FALSE, limits |-> NoLimits]} ELSE LimitsAnswer :
       run' = [pc |-> "round", round |-> node.tip,
               known |-> st.limitsKnown \/ a.known, limits |-> a.limits]
  /\ UNCHANGED <<environment, override, st, conf, ver, verify>>

NewRound ==
  /\ run.pc = "round"
  /\ LET learnt == IF run.known /\ ~st.limitsKnown
                   THEN [st EXCEPT !.limitsKnown = TRUE, !.caps.simulate = run.limits]
                   ELSE st
     IN st' = WithRound(learnt, run.round)
  /\ run' = Awaiting("watch")
  /\ UNCHANGED <<environment, override, conf, ver, verify>>

-----------------------------------------------------------------------------
(* configLoop.                                                             *)

\* The tick's read differs from what is in use.  Without algod there is no
\* algod.net, and the data directory cannot be read.
ConfigDiffers ==
  /\ conf = "idle" /\ node.up
  /\ ~st.configOK \/ file.mod # st.cfg.mod \/ file.endpoint # st.cfg.endpoint
  /\ conf' = "changed"
  /\ UNCHANGED <<environment, override, st, run, ver, verify>>

\* readConfig reads again, what may have changed again or be gone, and
\* requestVerify follows.
ReadConfig ==
  /\ conf = "changed"
  /\ st' = IF node.up THEN WithConfig(st, file) ELSE [st EXCEPT !.configOK = FALSE]
  /\ verify' = TRUE
  /\ conf' = "idle"
  /\ UNCHANGED <<environment, override, run, ver>>

-----------------------------------------------------------------------------
(* verifyLoop.                                                             *)

\* verifyOldest begins on a request, with a full search, or on the timer.
\* It keeps the state of that moment; from is the node's oldest block then.
Begins(tick) ==
  /\ ver.pc = "idle"
  /\ IF ~st.online \/ st.last = 0
     THEN ver' = [Idle EXCEPT !.pc = IF tick THEN "limits" ELSE "idle"] /\ UNCHANGED st
     ELSE IF override # NoOverride
     THEN /\ st' = [st EXCEPT !.verified = TRUE]
          /\ ver' = [Idle EXCEPT !.pc = IF tick THEN "limits" ELSE "idle"]
     ELSE /\ ver' = [pc |-> IF tick /\ st.verified THEN "edge" ELSE "zero", tick |-> tick,
                     expected |-> IF tick /\ st.verified THEN st.caps.oldest ELSE 0, last |-> st.last, lo |-> 0, hi |-> 0,
                     from |-> node.oldest, limits |-> NoLimits]
          /\ UNCHANGED st
  /\ UNCHANGED <<environment, override, run, conf>>

VerifyAsked == verify /\ Begins(FALSE) /\ verify' = FALSE
VerifyTick == Begins(TRUE) /\ UNCHANGED verify

\* verifyOldest is over; the timer's goes on to refreshLimits.
Over == [Idle EXCEPT !.pc = IF ver.tick THEN "limits" ELSE "idle"]
Measured(r) == [ver EXCEPT !.pc = "apply", !.hi = r, !.lo = 0, !.last = 0, !.expected = 0]

\* (mutant) an expected round that is not served ends it
CheckOnce ==
  \/ /\ ver.pc = "edge"
     /\ ver' = IF ~HasBlock(ver.expected) THEN Over
               ELSE IF ver.expected = 0 THEN Measured(0)
               ELSE [ver EXCEPT !.pc = "below"]
  \/ /\ ver.pc = "below"
     /\ ver' = IF HasBlock(ver.expected - 1) THEN [ver EXCEPT !.pc = "zero", !.expected = 0]
               ELSE Measured(ver.expected)

\* checkEdge: the expected round is served and the one before is not, or a
\* full search follows.
CheckEdge ==
  \/ /\ ver.pc = "edge"
     /\ ver' = IF ~HasBlock(ver.expected) THEN [ver EXCEPT !.pc = "zero", !.expected = 0]
               ELSE IF ver.expected = 0 THEN Measured(0)
               ELSE [ver EXCEPT !.pc = "below"]
  \/ /\ ver.pc = "below"
     /\ ver' = IF HasBlock(ver.expected - 1) THEN [ver EXCEPT !.pc = "zero", !.expected = 0]
               ELSE Measured(ver.expected)

\* (mutant) a round that is not served becomes the answer
ProbeBelow ==
  \/ /\ ver.pc = "zero"
     /\ ver' = IF HasBlock(0) THEN Measured(0) ELSE [ver EXCEPT !.pc = "top"]
  \/ /\ ver.pc = "top"
     /\ ver' = IF HasBlock(ver.last)
               THEN [ver EXCEPT !.pc = "bisect", !.lo = 0, !.hi = ver.last, !.last = 0] ELSE Over
  \/ /\ ver.pc = "bisect" /\ ver.hi - ver.lo > 1
     /\ LET mid == ver.lo + (ver.hi - ver.lo) \div 2
        IN ver' = IF HasBlock(mid) THEN [ver EXCEPT !.hi = mid] ELSE [ver EXCEPT !.hi = mid, !.lo = mid]

\* ProbeOldestRound asks for round 0, for the last round, then bisects.
Probe ==
  \/ /\ ver.pc = "zero"
     /\ ver' = IF HasBlock(0) THEN Measured(0) ELSE [ver EXCEPT !.pc = "top"]
  \/ /\ ver.pc = "top"
     /\ ver' = IF HasBlock(ver.last)
               THEN [ver EXCEPT !.pc = "bisect", !.lo = 0, !.hi = ver.last, !.last = 0] ELSE Over
  \/ /\ ver.pc = "bisect" /\ ver.hi - ver.lo > 1
     /\ LET mid == ver.lo + (ver.hi - ver.lo) \div 2
        IN ver' = IF HasBlock(mid) THEN [ver EXCEPT !.hi = mid] ELSE [ver EXCEPT !.lo = mid]

\* A request of the measurement is answered.
Asks ==
  /\ node.up
  /\ CheckEdge \/ Probe
  /\ UNCHANGED <<environment, override, st, run, conf, verify>>

\* Nothing is left between the round that is not served and the one that is.
SearchEnds ==
  /\ ver.pc = "bisect" /\ ver.hi - ver.lo <= 1
  /\ ver' = Measured(ver.hi)
  /\ UNCHANGED <<environment, override, st, run, conf, verify>>

\* A request of the measurement fails.
VerifyFails ==
  /\ ~node.up /\ ver.pc \in {"zero", "top", "bisect", "edge", "below"}
  /\ ver' = Over
  /\ UNCHANGED <<environment, override, st, run, conf, verify>>

\* The state s with the measured oldest round: a claim is only ever narrowed.
Narrowed(s, measured) ==
  LET kind == s.caps.archival.kind
      archival == IF kind = "full" THEN [kind |-> "since", n |-> measured]
                  ELSE IF kind = "trailing" /\ s.last > measured
                       THEN [kind |-> kind, n |-> s.last - measured]
                  ELSE s.caps.archival
  IN IF measured > s.caps.oldest
     THEN [s EXCEPT !.verified = TRUE,
                    !.caps = [s.caps EXCEPT !.archival = archival,
                                            !.oldest = Larger(OldestRoundFor(archival, s.last), measured)]]
     ELSE [s EXCEPT !.verified = TRUE]

\* verifyOldest applies its result to the state of now.
VerifyApplies ==
  /\ ver.pc = "apply"
  /\ st' = Narrowed(st, ver.hi)
  /\ ver' = Over
  /\ UNCHANGED <<environment, override, run, conf, verify>>

\* refreshLimits asks when the node is online, and applies the answer later.
RefreshLimits ==
  /\ ver.pc = "limits"
  /\ ver' = IF st.online /\ node.up THEN [Idle EXCEPT !.pc = "refresh", !.limits = node.limits] ELSE Idle
  /\ UNCHANGED <<environment, override, st, run, conf, verify>>

\* (mutant) the limits are kept as they were once they are known
RefreshUnknown ==
  /\ ver.pc = "refresh"
  /\ st' = [st EXCEPT !.limitsKnown = TRUE,
                       !.caps.simulate = IF st.limitsKnown THEN @ ELSE ver.limits]
  /\ ver' = Idle
  /\ UNCHANGED <<environment, override, run, conf, verify>>

RefreshApplies ==
  /\ ver.pc = "refresh"
  /\ st' = [st EXCEPT !.limitsKnown = TRUE,
                       !.caps = Apply(override, [st.caps EXCEPT !.simulate = ver.limits], st.last)]
  /\ ver' = Idle
  /\ UNCHANGED <<environment, override, run, conf, verify>>

-----------------------------------------------------------------------------
Follow == StatusAnswered \/ StatusFails \/ ComesOnline \/ WaitAnswered \/ NewRound
Reconfigure == ConfigDiffers \/ ReadConfig
Measure == Asks \/ SearchEnds \/ VerifyFails \/ VerifyApplies \/ RefreshLimits \/ RefreshApplies

Next ==
  \/ NodeRound \/ NodeStops \/ NodeStarts
  \/ Follow \/ Reconfigure
  \/ VerifyAsked \/ VerifyTick \/ Measure

Spec == Init /\ [][Next]_vars

\* The goroutines run, and a ticker that keeps firing is served even when the
\* channel beside it in the select keeps being ready: Go picks at random.
\* The node, its operator and the clients promise nothing.
Fairness ==
  /\ WF_vars(Follow) /\ WF_vars(Reconfigure) /\ WF_vars(Measure)
  /\ SF_vars(VerifyTick) /\ WF_vars(VerifyAsked)

FairSpec == Spec /\ Fairness

-----------------------------------------------------------------------------
(* Properties.                                                             *)

CapsType == [archival : Archivals, oldest : Nat, simulate : Limits \cup {NoLimits}]

TypeOK ==
  /\ node \in [up : BOOLEAN, tip : Nat, oldest : Nat, keeps : Nat, limits : Limits]
  /\ file \in Configs /\ override \in Overrides
  /\ st \in [online : BOOLEAN, last : Nat, caps : CapsType, cfg : Configs \cup {NoConfig},
             configOK : BOOLEAN, verified : BOOLEAN, limitsKnown : BOOLEAN]
  /\ run \in [pc : {"await", "online", "watch", "round"}, round : Nat,
              known : BOOLEAN, limits : Limits \cup {NoLimits}]
  /\ conf \in {"idle", "changed"}
  /\ ver \in [pc : {"idle", "zero", "top", "bisect", "edge", "below", "apply", "limits", "refresh"},
              tick : BOOLEAN, expected : Nat, last : Nat, lo : Nat, hi : Nat, from : Nat,
              limits : Limits \cup {NoLimits}]
  /\ verify \in BOOLEAN
  /\ restarts \in 0 .. MaxRestarts
  /\ node.oldest <= node.tip

\* The node prunes while it is searched, so that the answers of one measurement
\* are of different moments, and the result is applied to a state that has moved
\* on, by rounds or by a new configuration.  Still, what ProbeOldestRound or
\* checkEdge comes to is no older than the node's oldest block when it began and
\* no newer than that block at the end, and whatever the state has become, no
\* block that was gone at the beginning is claimed after verifyOldest.
MeasuredTruly ==
  [][ver.pc = "apply" /\ ver'.pc # "apply" =>
       ver.from <= ver.hi /\ ver.hi <= node.oldest /\ st'.caps.oldest >= ver.from]_vars

\* The agent of a node that is archival, and says so, claims blocks that it
\* does not have.
Overclaims ==
  /\ st.online /\ override = NoOverride /\ st.caps.archival.kind \in {"full", "since"}
  /\ node.keeps >= MaxRound /\ st.caps.oldest < node.oldest

\* Blocks an archival node lost, before the agent started or in a restart it
\* did not see, do not stay in what its agent claims (verifyLoop).
ClaimsAreCorrected == Overclaims ~> ~Overclaims

\* Limits a node was restarted with, seen or unseen, become the ones its
\* agent tells, whichever of the three readers applies its answer last.
LimitsAreLearnt ==
  (st.online /\ st.caps.simulate # node.limits) ~> (~st.online \/ st.caps.simulate = node.limits)
=============================================================================
