---------------------------- MODULE PeerDirectory ----------------------------
(***************************************************************************)
(* What one agent knows of its peers: the heartbeats it accepts, the       *)
(* direct probes of peers that fall silent, and the snapshot the router    *)
(* selects from (internal/app/directory.go).                               *)
(*                                                                         *)
(* A peer is a node and the agent beside it, which fail independently.     *)
(* Heartbeats are datagrams: lost, duplicated, reordered, and delayed by   *)
(* less than two units of time.  Instants are kept as ages, as in          *)
(* SyncJudge.  The local node and the externals only matter here by the    *)
(* highest round they are known to hold, ref.                              *)
(***************************************************************************)
EXTENDS SyncJudge, FiniteSets, FiniteSetsExt

CONSTANTS
  Peers,          \* the nodes a registry record may name
  Excluded,       \* those of them in routing.exclude
  SuspectAfter,   \* age of a heartbeat beyond which the peer is silent
  DownAfter,      \* age at which any sequence number is accepted
  ProbeInterval,  \* least time between two direct probes of a peer
  ProbeTimeout,   \* longest time a direct probe takes
  MaxRound,       \* bound on the chain's rounds
  MaxSeq,         \* bound on the sequence numbers of one run of an agent
  MaxRestarts,    \* bound on the restarts of a peer's agent
  MaxInFlight     \* bound on the heartbeats under way

ASSUME DirectoryAssumption ==
  /\ Excluded \subseteq Peers
  /\ SuspectAfter \in Nat \ {0}
  /\ DownAfter \in Nat /\ DownAfter > SuspectAfter
  /\ ProbeTimeout \in Nat
  /\ ProbeInterval \in Nat \ {0}
  /\ MaxRound \in Nat /\ MaxSeq \in Nat \ {0} /\ MaxRestarts \in Nat /\ MaxInFlight \in Nat

VARIABLES
  node,       \* each peer's algod: whether it answers, and its round
  agent,      \* each peer's agent: whether it runs, which run, its hbSeq
  net,        \* the heartbeats under way
  known,      \* the peers a registry record names (Directory.peers)
  peer,       \* what is known of each (peerState)
  probe,      \* how long the direct probes of each peer under way have taken
  ref,        \* the highest round of the local node and the externals
  hbRound,    \* the highest round an online node reported
  maintained  \* the maintenance of this instant has run

vars == <<node, agent, net, known, peer, probe, ref, hbRound, maintained>>

Rounds == 0 .. MaxRound
Runs == 0 .. MaxRestarts

\* Ages beyond these caps make no difference.
HeartbeatCap == DownAfter
ProbeCap == 2 * ProbeInterval + 1

\* An age one unit of time later.
Older(age, cap) == IF age < cap THEN age + 1 ELSE cap

\* A peerState as SetRecords makes it.
NewPeer == [hasHB |-> FALSE, run |-> 0, seq |-> 0, round |-> 0, online |-> FALSE,
            age |-> HeartbeatCap, silent |-> FALSE, probeAge |-> ProbeCap,
            probeOK |-> FALSE, probeRd |-> 0, judge |-> NewJudge]

Init ==
  /\ node = [p \in Peers |-> [up |-> TRUE, round |-> 0]]
  /\ agent = [p \in Peers |-> [up |-> TRUE, run |-> 0, seq |-> 0]]
  /\ net = {}
  /\ known = {}
  /\ peer = [p \in Peers |-> NewPeer]
  /\ probe = [p \in Peers |-> {}]
  /\ ref = 0
  /\ hbRound = 0
  /\ maintained = FALSE

-----------------------------------------------------------------------------
(* The peers and the network.                                              *)

\* algod starts answering or stops, or moves on to a new round.
NodeChanges(p) ==
  /\ \/ node' = [node EXCEPT ![p].up = ~@]
     \/ node[p].up /\ node[p].round < MaxRound /\ node' = [node EXCEPT ![p].round = @ + 1]
  /\ UNCHANGED <<agent, net, known, peer, probe, ref, hbRound, maintained>>

AgentStops(p) ==
  /\ agent[p].up
  /\ agent' = [agent EXCEPT ![p].up = FALSE]
  /\ UNCHANGED <<node, net, known, peer, probe, ref, hbRound, maintained>>

\* A restarted agent counts its heartbeats from one again.
AgentStarts(p) ==
  /\ ~agent[p].up
  /\ agent[p].run < MaxRestarts
  /\ agent' = [agent EXCEPT ![p] = [up |-> TRUE, run |-> @.run + 1, seq |-> 0]]
  /\ UNCHANGED <<node, net, known, peer, probe, ref, hbRound, maintained>>

\* sendHeartbeat of a peer's agent: what its monitor knows of its node.  At
\* MaxSeq the number no longer grows: later heartbeats look like duplicates.
SendHeartbeat(p) ==
  LET seq == IF agent[p].seq < MaxSeq THEN agent[p].seq + 1 ELSE MaxSeq IN
  /\ agent[p].up
  /\ Cardinality(net) < MaxInFlight
  /\ agent' = [agent EXCEPT ![p].seq = seq]
  /\ net' = net \cup {[from |-> p, run |-> agent[p].run, seq |-> seq, late |-> FALSE,
                       round |-> node[p].round, online |-> node[p].up]}
  /\ UNCHANGED <<node, known, peer, probe, ref, hbRound, maintained>>

Lose(m) ==
  /\ net' = net \ {m}
  /\ UNCHANGED <<node, agent, known, peer, probe, ref, hbRound, maintained>>

\* (mutant) the last round reported, not the highest
NoteLastRound(online, excluded, round) == IF online /\ ~excluded THEN round ELSE hbRound

\* noteRoundLocked, for a round an online node that is not excluded reports.
NoteRound(online, excluded, round) ==
  IF online /\ ~excluded /\ round > hbRound THEN round ELSE hbRound

\* The local node or an external reports another round, or goes away.  A round
\* of the local node is noted as onLocalChange does.
RefChanges(r, local) ==
  /\ r # ref
  /\ ref' = r
  /\ hbRound' = NoteRound(local, FALSE, r)
  /\ UNCHANGED <<node, agent, net, known, peer, probe, maintained>>

-----------------------------------------------------------------------------
(* What the directory makes of it.                                         *)

Fresh(q) == q.hasHB /\ q.age <= SuspectAfter

\* (mutant) a probe's answer expires just before the next probe
ProbedBriefly(q) == q.probeOK /\ q.probeAge < ProbeInterval

\* The direct probes vouch for the peer.
Probed(q) == q.probeOK /\ q.probeAge <= 2 * ProbeInterval

\* peerRoundLocked: a peer's round, -1 when it is not reachable.
PeerRound(q) ==
  IF Fresh(q) THEN IF q.online THEN q.round ELSE -1
  ELSE IF Probed(q) THEN q.probeRd ELSE -1

\* bestRoundLocked, given what is known of the peers.
BestRound(ps) == Max({ref} \cup {PeerRound(ps[p]) : p \in known \ Excluded})

Source(q) == IF Fresh(q) THEN "heartbeat" ELSE IF Probed(q) THEN "probe" ELSE "none"

\* SetRecords: the registry names the peers in ps.  A record that stays keeps
\* its state, one that is gone loses it.
SetRecords(ps) ==
  /\ ps # known
  /\ known' = ps
  /\ peer' = [p \in Peers |-> IF p \in ps THEN peer[p] ELSE NewPeer]
  /\ UNCHANGED <<node, agent, net, probe, ref, hbRound, maintained>>

\* (mutant) only a duplicate is dropped, not what comes out of order
StaleDuplicate(q, m) == q.hasHB /\ m.seq = q.seq /\ q.age < DownAfter

\* (mutant) a number that is not new is dropped for ever
StaleForEver(q, m) == q.hasHB /\ m.seq <= q.seq

\* handleLocked drops a heartbeat whose number is not new, unless none was
\* accepted for DownAfter: then the peer has restarted.
Stale(q, m) == q.hasHB /\ m.seq <= q.seq /\ q.age < DownAfter

\* handleLocked accepts heartbeat m (the datagram may come again).
Receive(m) ==
  LET p == m.from
      q == [peer[p] EXCEPT !.hasHB = TRUE, !.run = m.run, !.seq = m.seq, !.round = m.round,
                           !.online = m.online, !.age = 0, !.silent = FALSE]
      best == BestRound([peer EXCEPT ![p] = q])
  IN
  /\ p \in known
  /\ ~Stale(peer[p], m)
  /\ peer' = [peer EXCEPT ![p] = [q EXCEPT !.judge = Judge(@, m.online, m.round, best)]]
  /\ hbRound' = NoteRound(m.online, p \in Excluded, m.round)
  /\ UNCHANGED <<node, agent, net, known, probe, ref, maintained>>

Silent(q) == ~q.hasHB \/ q.age > SuspectAfter

\* probeSilentPeers sends a direct probe to these.
ProbeDue == {p \in known \ Excluded : Silent(peer[p]) /\ peer[p].probeAge >= ProbeInterval}

\* The maintenance tick: probeSilentPeers.
Maintain ==
  /\ ~maintained
  /\ maintained' = TRUE
  /\ peer' = [p \in Peers |->
       [peer[p] EXCEPT !.silent = @ \/ (p \in known /\ Silent(peer[p])),
                       !.probeAge = IF p \in ProbeDue THEN 0 ELSE @]]
  /\ probe' = [p \in Peers |-> IF p \in ProbeDue THEN probe[p] \cup {0} ELSE probe[p]]
  /\ UNCHANGED <<node, agent, net, known, ref, hbRound>>

\* (mutant) a probe that fails leaves the last result in place
ProbeDoneIfAnswered(p, age) ==
  /\ probe' = [probe EXCEPT ![p] = @ \ {age}]
  /\ peer' = IF p \notin known \/ ~node[p].up THEN peer
             ELSE [peer EXCEPT ![p].probeOK = TRUE, ![p].probeRd = node[p].round]
  /\ UNCHANGED <<node, agent, net, known, ref, hbRound, maintained>>

\* A direct probe ends: the node answers with its round, or not.  The result
\* is for whatever record the peer has by now.
ProbeDone(p, age) ==
  /\ probe' = [probe EXCEPT ![p] = @ \ {age}]
  /\ peer' = IF p \notin known THEN peer
             ELSE [peer EXCEPT ![p].probeOK = node[p].up,
                               ![p].probeRd = IF node[p].up THEN node[p].round ELSE @]
  /\ UNCHANGED <<node, agent, net, known, ref, hbRound, maintained>>

\* How a snapshot finds a peer.
Reachable(q) == IF Fresh(q) THEN q.online ELSE Probed(q)

ShownRound(q) == IF Fresh(q) THEN q.round ELSE IF Probed(q) THEN q.probeRd ELSE 0

ShownHealth(p) == Health(peer[p].judge, Reachable(peer[p]), ShownRound(peer[p]), BestRound(peer))

\* Snapshot judges every peer.
Snapshot ==
  /\ known # {}
  /\ peer' = [p \in Peers |->
       IF p \in known THEN [peer[p] EXCEPT !.judge = Judge(@, Reachable(peer[p]), ShownRound(peer[p]), BestRound(peer))]
       ELSE peer[p]]
  /\ UNCHANGED <<node, agent, net, known, probe, ref, hbRound, maintained>>

\* A unit of time passes: the maintenance ran, no probe outlives its timeout.
Tick ==
  /\ maintained
  /\ maintained' = FALSE
  /\ \A p \in Peers : ProbeTimeout \notin probe[p]
  /\ probe' = [p \in Peers |-> {a + 1 : a \in probe[p]}]
  /\ peer' = [p \in Peers |->
       [peer[p] EXCEPT !.age = Older(@, HeartbeatCap), !.probeAge = Older(@, ProbeCap),
                       !.judge = Aged(@)]]
  /\ net' = {[m EXCEPT !.late = TRUE] : m \in {n \in net : ~n.late}}
  /\ UNCHANGED <<node, agent, known, ref, hbRound>>

Next ==
  \/ \E p \in Peers : NodeChanges(p) \/ AgentStops(p) \/ AgentStarts(p) \/ SendHeartbeat(p)
  \/ \E m \in net : Lose(m) \/ Receive(m)
  \/ \E r \in Rounds, local \in BOOLEAN : RefChanges(r, local)
  \/ \E ps \in SUBSET Peers : SetRecords(ps)
  \/ \E p \in Peers : \E age \in probe[p] : ProbeDone(p, age)
  \/ Maintain \/ Snapshot \/ Tick

Spec == Init /\ [][Next]_vars

\* The agent's own loops run: time passes, the maintenance ticks, a probe ends
\* by its answer or its timeout, and requests keep asking for snapshots.
Fairness ==
  /\ WF_vars(Tick)
  /\ WF_vars(Maintain)
  /\ WF_vars(Snapshot)
  /\ \A p \in Peers : WF_vars(\E age \in probe[p] : ProbeDone(p, age))

\* A running agent keeps sending, and its datagrams are not all lost: one that
\* is acceptable over and over is accepted some time.
Delivery ==
  \A p \in Peers :
    /\ WF_vars(SendHeartbeat(p))
    /\ SF_vars(\E m \in net : m.from = p /\ m.run = agent[p].run /\ Receive(m))

FairSpec == Spec /\ Fairness
DeliverySpec == FairSpec /\ Delivery

-----------------------------------------------------------------------------
(* Properties.                                                             *)

Heartbeats == [from : Peers, run : Runs, seq : 1 .. MaxSeq, late : BOOLEAN,
               round : Rounds, online : BOOLEAN]

PeerStates ==
  [hasHB : BOOLEAN, run : Runs, seq : 0 .. MaxSeq, round : Rounds, online : BOOLEAN,
   age : 0 .. HeartbeatCap, silent : BOOLEAN, probeAge : 0 .. ProbeCap,
   probeOK : BOOLEAN, probeRd : Rounds, judge : Judges(Rounds)]

\* Every variable has its type.
TypeOK ==
  /\ node \in [Peers -> [up : BOOLEAN, round : Rounds]]
  /\ agent \in [Peers -> [up : BOOLEAN, run : Runs, seq : 0 .. MaxSeq]]
  /\ net \subseteq Heartbeats
  /\ known \subseteq Peers
  /\ peer \in [Peers -> PeerStates]
  /\ probe \in [Peers -> SUBSET (0 .. ProbeTimeout)]
  /\ ref \in Rounds /\ hbRound \in Rounds
  /\ maintained \in BOOLEAN

\* No reordering or duplication of datagrams makes the directory forget what
\* one run of a peer's agent told it for something that run had said before
\* (handleLocked).
HeartbeatsMoveForward ==
  [][\A p \in known \cap known' :
       peer[p].hasHB /\ peer'[p].run = peer[p].run => peer'[p].seq >= peer[p].seq]_vars

\* A round that an online, routable peer has announced is never waited for any
\* longer: a held wait is released by every heartbeat that is accepted with a new
\* round, and by nothing is it set back (handleLocked, noteRoundLocked,
\* onLocalChange).
AnnouncedIsReleased ==
  \A p \in known \ Excluded : peer[p].hasHB /\ peer[p].online => peer[p].round <= hbRound

\* A peer that is gone, node and agent, is not shown as reachable for ever,
\* whatever was known of it: its last heartbeat ages and the probes that fail
\* take the place of one that succeeded (Snapshot, probeSilentPeers).
DeadPeerGoesOffline ==
  \A p \in Peers : <>[](~node[p].up /\ ~agent[p].up) => <>[](Source(peer[p]) = "none")

\* A node that stays up behind a silent agent is found by the direct probes and
\* then shown without interruption: the next probe answers before the last one
\* expires (probeSilentPeers, Snapshot).
SilentNodeStaysShown ==
  \A p \in Peers \ Excluded :
    <>[](node[p].up /\ ~agent[p].up /\ p \in known) => <>[](Source(peer[p]) = "probe")

\* A peer that answers but stays a round too far behind.
StaysBehind(p) ==
  /\ p \in known \ Excluded
  /\ Reachable(peer[p])
  /\ BestRound(peer) > ShownRound(peer[p]) + Tolerance

\* The grace of one round more runs out however often the peer is observed
\* meanwhile: one that stays behind is shown as lagging in the end, and from
\* then on (SyncJudge.Judge, called by every heartbeat and every snapshot).
LaggardIsShown ==
  \A p \in Peers : <>[]StaysBehind(p) => <>[](ShownHealth(p) = "lagging")

\* A restarted agent counts its heartbeats from one, below what its peers have
\* seen.  It is ignored at first, but not for ever: what is dropped as stale does
\* not renew the last one accepted (handleLocked).
RestartedPeerIsHeard ==
  \A p \in Peers :
    <>[](agent[p].up /\ p \in known) => <>[](peer[p].hasHB /\ peer[p].run = agent[p].run)
=============================================================================
