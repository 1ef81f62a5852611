------------------------- MODULE PeerDirectoryProofs -------------------------
(***************************************************************************)
(* What holds of PeerDirectory for every set of peers and every setting of *)
(* its timers.                                                             *)
(***************************************************************************)
EXTENDS PeerDirectory, TLAPS

\* A judge that distrusts its upstream has not counted enough rounds yet.
JudgeOK(j) == j \in Judges(Rounds) /\ (~j.trusted => j.streak < Required)

PeerOK(q) == q \in PeerStates /\ JudgeOK(q.judge)

TypeInv == TypeOK /\ \A p \in Peers : JudgeOK(peer[p].judge)

\* What is under way or was accepted of an agent is of its present run, and then
\* not beyond its last number, or of an earlier run.
SentBy(p, run, seq) ==
  run <= agent[p].run /\ (run = agent[p].run => seq <= agent[p].seq)

\* An older heartbeat of the same run is still under way only while the one that
\* overtook it is as young as that.
Overtaken(m, q) ==
  q.hasHB /\ q.run = m.run /\ m.seq < q.seq => q.age <= IF m.late THEN 1 ELSE 0

\* The inductive invariant behind HeartbeatsMoveForward.
OrderInv ==
  /\ \A m \in net : SentBy(m.from, m.run, m.seq)
  /\ \A p \in Peers : peer[p].hasHB => SentBy(p, peer[p].run, peer[p].seq)
  /\ \A m \in net : Overtaken(m, peer[m.from])

-----------------------------------------------------------------------------
(* The judge.                                                              *)

LEMMA DistrustType ==
  ASSUME NEW j, JudgeOK(j)
  PROVE  JudgeOK(Distrust(j))
<1>1. 0 \in 0 .. Required /\ 0 < Required
  BY JudgeAssumption
<1>2. Distrust(j) \in Judges(Rounds)
  BY <1>1 DEF JudgeOK, Judges, Distrust
<1>3. Distrust(j).streak = 0
  BY DEF JudgeOK, Judges, Distrust
<1> QED BY <1>1, <1>2, <1>3 DEF JudgeOK

LEMMA CreditType ==
  ASSUME NEW j, JudgeOK(j)
  PROVE  JudgeOK(Credit(j))
<1>1. CASE j.trusted
  BY <1>1 DEF Credit
<1>2. CASE ~j.trusted
  <2> DEFINE n == j.streak + 1
             t == n >= Required
  <2>1. n \in 0 .. Required /\ t \in BOOLEAN /\ (~t => n < Required)
    BY <1>2, JudgeAssumption DEF JudgeOK, Judges
  <2>2. Credit(j) = [j EXCEPT !.streak = n, !.trusted = t]
    BY <1>2 DEF Credit
  <2> HIDE DEF n, t
  <2> QED BY <2>1, <2>2 DEF JudgeOK, Judges
<1> QED BY <1>1, <1>2

\* Whatever the judge observes, it stays a judge (SyncJudge.Judge).
LEMMA JudgeType ==
  ASSUME NEW j, JudgeOK(j), NEW reachable \in BOOLEAN, NEW round \in Rounds, NEW best
  PROVE  JudgeOK(Judge(j, reachable, round, best))
<1> DEFINE b  == Behind(j, reachable, round, best)
           j1 == [j EXCEPT !.behind = b]
           j2 == [j1 EXCEPT !.seen = TRUE, !.lastRound = round]
           lags == Lags(j, reachable, round, best)
<1>1. b \in -1 .. Grace
  BY JudgeAssumption DEF Behind, JudgeOK, Judges
<1>2. JudgeOK(j1)
  <2> HIDE DEF b
  <2> QED BY <1>1 DEF JudgeOK, Judges
<1>3. JudgeOK(j2)
  <2> HIDE DEF b
  <2> QED BY <1>1 DEF JudgeOK, Judges
<1>4. /\ JudgeOK(Distrust(j1))
      /\ JudgeOK(Credit(j2))
  BY <1>2, <1>3, DistrustType, CreditType
<1>5. Judge(j, reachable, round, best) =
        IF ~reachable THEN IF j1.seen THEN Distrust(j1) ELSE j1
        ELSE IF lags THEN Distrust(j1)
        ELSE IF ~j1.seen \/ round # j1.lastRound THEN Credit(j2) ELSE j1
  BY DEF Judge
<1> HIDE DEF j1, j2, lags
<1> QED BY <1>2, <1>4, <1>5

LEMMA AgedType ==
  ASSUME NEW j, JudgeOK(j)
  PROVE  JudgeOK(Aged(j))
<1> DEFINE b == IF j.behind = -1 \/ j.behind = Grace THEN j.behind ELSE j.behind + 1
<1>1. b \in -1 .. Grace
  BY JudgeAssumption DEF JudgeOK, Judges
<1>2. Aged(j) = [j EXCEPT !.behind = b]
  BY DEF Aged
<1> HIDE DEF b
<1> QED BY <1>1, <1>2 DEF JudgeOK, Judges

LEMMA NewPeerType == PeerOK(NewPeer)
BY JudgeAssumption, DirectoryAssumption
   DEF PeerOK, PeerStates, NewPeer, JudgeOK, Judges, NewJudge, Rounds, Runs, HeartbeatCap, ProbeCap

-----------------------------------------------------------------------------
(* Types.                                                                  *)

LEMMA InitType == Init => TypeInv
<1> SUFFICES ASSUME Init PROVE TypeInv
  OBVIOUS
<1>1. 0 \in Rounds /\ 0 \in Runs /\ 0 \in 0 .. MaxSeq
  BY DirectoryAssumption DEF Rounds, Runs
<1>2. \A p \in Peers : peer[p] = NewPeer
  BY DEF Init
<1>3. peer \in [Peers -> PeerStates]
  BY NewPeerType DEF Init, PeerOK
<1>4. \A p \in Peers : JudgeOK(peer[p].judge)
  BY <1>2, NewPeerType DEF PeerOK
<1>5. node \in [Peers -> [up : BOOLEAN, round : Rounds]]
  BY <1>1 DEF Init
<1>6. agent \in [Peers -> [up : BOOLEAN, run : Runs, seq : 0 .. MaxSeq]]
  BY <1>1 DEF Init
<1>7. /\ net \subseteq Heartbeats /\ known \subseteq Peers
      /\ probe \in [Peers -> SUBSET (0 .. ProbeTimeout)]
      /\ ref \in Rounds /\ hbRound \in Rounds /\ maintained \in BOOLEAN
  BY <1>1 DEF Init
<1> QED BY <1>3, <1>4, <1>5, <1>6, <1>7 DEF TypeInv, TypeOK

\* TypeInv as a statement about each peer.
LEMMA TypeInvPeers == TypeInv => \A p \in Peers : PeerOK(peer[p])
BY DEF TypeInv, TypeOK, PeerOK

LEMMA PeersTypeInv ==
  ASSUME NEW f, f \in [Peers -> PeerStates], \A p \in Peers : JudgeOK(f[p].judge)
  PROVE  \A p \in Peers : PeerOK(f[p])
BY DEF PeerOK

LEMMA ReachableType ==
  ASSUME NEW q, PeerOK(q)
  PROVE  Reachable(q) \in BOOLEAN /\ ShownRound(q) \in Rounds
<1>1. q.online \in BOOLEAN /\ q.round \in Rounds /\ q.probeRd \in Rounds
  BY DEF PeerOK, PeerStates
<1>2. Probed(q) \in BOOLEAN
  BY DEF Probed
<1>3. 0 \in Rounds
  BY DirectoryAssumption DEF Rounds
<1> QED BY <1>1, <1>2, <1>3 DEF Reachable, ShownRound

\* The peer as handleLocked and Snapshot leave it.
LEMMA JudgedType ==
  ASSUME NEW q, PeerOK(q), NEW j, JudgeOK(j)
  PROVE  PeerOK([q EXCEPT !.judge = j])
BY DEF PeerOK, PeerStates, JudgeOK

LEMMA ReceivedType ==
  ASSUME NEW q, PeerOK(q), NEW m \in Heartbeats
  PROVE  PeerOK([q EXCEPT !.hasHB = TRUE, !.run = m.run, !.seq = m.seq, !.round = m.round,
                          !.online = m.online, !.age = 0, !.silent = FALSE])
<1>1. 0 \in 0 .. HeartbeatCap /\ m.seq \in 0 .. MaxSeq
  BY DirectoryAssumption DEF HeartbeatCap, Heartbeats
<1> QED BY <1>1 DEF PeerOK, PeerStates, Heartbeats

LEMMA OlderType ==
  ASSUME NEW q, PeerOK(q)
  PROVE  PeerOK([q EXCEPT !.age = Older(@, HeartbeatCap), !.probeAge = Older(@, ProbeCap),
                          !.judge = Aged(@)])
<1> DEFINE a == Older(q.age, HeartbeatCap)
           b == Older(q.probeAge, ProbeCap)
           j == Aged(q.judge)
<1>1. a \in 0 .. HeartbeatCap /\ b \in 0 .. ProbeCap
  BY DirectoryAssumption DEF Older, HeartbeatCap, ProbeCap, PeerOK, PeerStates
<1>2. JudgeOK(j)
  BY AgedType DEF PeerOK
<1> HIDE DEF a, b, j
<1>3. PeerOK([q EXCEPT !.age = a, !.probeAge = b, !.judge = j])
  BY <1>1, <1>2 DEF PeerOK, PeerStates, JudgeOK
<1> QED BY <1>3 DEF a, b, j

\* The peer as probeSilentPeers leaves it when it starts a probe, and when the
\* probe ends.
LEMMA SilentType ==
  ASSUME NEW q, PeerOK(q), NEW silent \in BOOLEAN, NEW due \in BOOLEAN
  PROVE  PeerOK([q EXCEPT !.silent = silent, !.probeAge = IF due THEN 0 ELSE @])
<1> DEFINE a == IF due THEN 0 ELSE q.probeAge
<1>1. a \in 0 .. ProbeCap
  BY DirectoryAssumption DEF ProbeCap, PeerOK, PeerStates
<1> HIDE DEF a
<1>2. PeerOK([q EXCEPT !.silent = silent, !.probeAge = a])
  BY <1>1 DEF PeerOK, PeerStates
<1> QED BY <1>2 DEF a

LEMMA ProbedType ==
  ASSUME NEW q, PeerOK(q), NEW ok \in BOOLEAN, NEW rd \in Rounds
  PROVE  PeerOK([q EXCEPT !.probeOK = ok, !.probeRd = rd])
BY DEF PeerOK, PeerStates

\* The type invariant, by its parts.
LEMMA TypeStep == TypeInv /\ [Next]_vars => TypeInv'
<1> SUFFICES ASSUME TypeInv, [Next]_vars PROVE TypeInv'
  OBVIOUS
<1> USE DEF TypeInv, TypeOK
<1>1. ASSUME NEW p \in Peers, NodeChanges(p) PROVE TypeInv'
  <2>1. node[p].round \in Rounds /\ node[p].up \in BOOLEAN
    OBVIOUS
  <2> DEFINE r == node[p].round + 1
             up == ~node[p].up
  <2>2. node[p].round < MaxRound => r \in Rounds
    BY <2>1, DirectoryAssumption DEF Rounds
  <2>3. \/ node' = [node EXCEPT ![p].up = up]
        \/ node[p].round < MaxRound /\ node' = [node EXCEPT ![p].round = r]
    BY <1>1 DEF NodeChanges
  <2>4. up \in BOOLEAN
    OBVIOUS
  <2> HIDE DEF r, up
  <2>5. node' \in [Peers -> [up : BOOLEAN, round : Rounds]]
    BY <2>2, <2>3, <2>4, ZenonT(60)
  <2> QED BY <1>1, <2>5 DEF NodeChanges
<1>2. ASSUME NEW p \in Peers, AgentStops(p) PROVE TypeInv'
  BY <1>2 DEF AgentStops
<1>3. ASSUME NEW p \in Peers, AgentStarts(p) PROVE TypeInv'
  <2>1. agent[p].run + 1 \in Runs /\ 0 \in 0 .. MaxSeq
    BY <1>3, DirectoryAssumption DEF AgentStarts, Runs
  <2>2. agent' \in [Peers -> [up : BOOLEAN, run : Runs, seq : 0 .. MaxSeq]]
    BY <1>3, <2>1 DEF AgentStarts
  <2> QED BY <1>3, <2>2 DEF AgentStarts
<1>4. ASSUME NEW p \in Peers, SendHeartbeat(p) PROVE TypeInv'
  <2> DEFINE seq == IF agent[p].seq < MaxSeq THEN agent[p].seq + 1 ELSE MaxSeq
             m == [from |-> p, run |-> agent[p].run, seq |-> seq, late |-> FALSE,
                   round |-> node[p].round, online |-> node[p].up]
  <2>1. seq \in 1 .. MaxSeq /\ seq \in 0 .. MaxSeq
    BY <1>4, DirectoryAssumption
  <2>2. agent' = [agent EXCEPT ![p].seq = seq] /\ net' = net \cup {m}
    BY <1>4 DEF SendHeartbeat
  <2> HIDE DEF seq
  <2>3. agent' \in [Peers -> [up : BOOLEAN, run : Runs, seq : 0 .. MaxSeq]]
    BY <2>1, <2>2
  <2>4. m \in Heartbeats
    BY <2>1 DEF Heartbeats
  <2> HIDE DEF m
  <2>5. net' \subseteq Heartbeats
    BY <2>2, <2>4
  <2> QED BY <1>4, <2>3, <2>5 DEF SendHeartbeat
<1>5. ASSUME NEW m \in net, Lose(m) PROVE TypeInv'
  BY <1>5 DEF Lose
<1>6. ASSUME NEW r \in Rounds, NEW local \in BOOLEAN, RefChanges(r, local) PROVE TypeInv'
  BY <1>6 DEF RefChanges, NoteRound
<1>7. ASSUME NEW ps \in SUBSET Peers, SetRecords(ps) PROVE TypeInv'
  <2>1. \A p \in Peers : PeerOK(peer'[p])
    BY <1>7, TypeInvPeers, NewPeerType DEF SetRecords
  <2>2. peer' \in [Peers -> PeerStates] /\ \A p \in Peers : JudgeOK(peer'[p].judge)
    BY <1>7, <2>1 DEF SetRecords, PeerOK
  <2> QED BY <1>7, <2>2 DEF SetRecords
<1>8. ASSUME NEW m \in net, Receive(m) PROVE TypeInv'
  <2> DEFINE p == m.from
             q == [peer[p] EXCEPT !.hasHB = TRUE, !.run = m.run, !.seq = m.seq,
                                  !.round = m.round, !.online = m.online, !.age = 0,
                                  !.silent = FALSE]
             best == BestRound([peer EXCEPT ![p] = q])
             j == Judge(q.judge, m.online, m.round, best)
  <2>1. m \in Heartbeats /\ p \in Peers /\ m.online \in BOOLEAN /\ m.round \in Rounds
    BY DEF Heartbeats
  <2>2. PeerOK(q)
    BY <2>1, TypeInvPeers, ReceivedType
  <2>3. peer' = [peer EXCEPT ![p] = [q EXCEPT !.judge = j]]
    BY <1>8 DEF Receive
  <2> HIDE DEF q, best
  <2>4. JudgeOK(j)
    BY <2>1, <2>2, JudgeType DEF PeerOK
  <2> HIDE DEF j
  <2>5. PeerOK([q EXCEPT !.judge = j])
    BY <2>2, <2>4, JudgedType
  <2>6. \A p1 \in Peers : PeerOK(peer'[p1])
    BY <2>1, <2>3, <2>5, TypeInvPeers
  <2>7. peer' \in [Peers -> PeerStates] /\ \A p1 \in Peers : JudgeOK(peer'[p1].judge)
    BY <2>3, <2>6 DEF PeerOK
  <2>8. hbRound' \in Rounds
    BY <1>8, <2>1 DEF Receive, NoteRound
  <2> QED BY <1>8, <2>7, <2>8 DEF Receive
<1>9. ASSUME NEW p \in Peers, NEW age \in probe[p], ProbeDone(p, age) PROVE TypeInv'
  <2> DEFINE rd == IF node[p].up THEN node[p].round ELSE peer[p].probeRd
             q == [peer[p] EXCEPT !.probeOK = node[p].up, !.probeRd = rd]
  <2>1. rd \in Rounds /\ node[p].up \in BOOLEAN
    BY DEF PeerStates
  <2>2. peer' = IF p \notin known THEN peer ELSE [peer EXCEPT ![p] = q]
    BY <1>9 DEF ProbeDone
  <2> HIDE DEF rd
  <2>3. PeerOK(q)
    BY <2>1, TypeInvPeers, ProbedType
  <2> HIDE DEF q
  <2>4. \A p1 \in Peers : PeerOK(peer'[p1])
    BY <2>2, <2>3, TypeInvPeers
  <2>5. peer' \in [Peers -> PeerStates] /\ \A p1 \in Peers : JudgeOK(peer'[p1].judge)
    BY <2>2, <2>4 DEF PeerOK
  <2>6. probe' \in [Peers -> SUBSET (0 .. ProbeTimeout)]
    BY <1>9 DEF ProbeDone
  <2> QED BY <1>9, <2>5, <2>6 DEF ProbeDone
<1>10. ASSUME Maintain PROVE TypeInv'
  <2>1. \A p \in Peers : PeerOK(peer'[p])
    <3> TAKE p \in Peers
    <3> DEFINE silent == peer[p].silent \/ (p \in known /\ Silent(peer[p]))
               due == p \in ProbeDue
    <3>1. peer'[p] = [peer[p] EXCEPT !.silent = silent, !.probeAge = IF due THEN 0 ELSE @]
      BY <1>10 DEF Maintain
    <3>2. silent \in BOOLEAN /\ due \in BOOLEAN /\ PeerOK(peer[p])
      BY TypeInvPeers
    <3> HIDE DEF silent, due
    <3> DEFINE q == peer[p]
    <3>3. PeerOK(q)
      BY <3>2
    <3> HIDE DEF q
    <3>4. PeerOK([q EXCEPT !.silent = silent, !.probeAge = IF due THEN 0 ELSE @])
      BY <3>2, <3>3, SilentType
    <3> QED BY <3>1, <3>4 DEF q
  <2>2. peer' \in [Peers -> PeerStates] /\ \A p \in Peers : JudgeOK(peer'[p].judge)
    BY <1>10, <2>1 DEF Maintain, PeerOK
  <2>3. probe' \in [Peers -> SUBSET (0 .. ProbeTimeout)]
    <3>1. 0 \in 0 .. ProbeTimeout
      BY DirectoryAssumption
    <3> QED BY <1>10, <3>1 DEF Maintain
  <2> QED BY <1>10, <2>2, <2>3 DEF Maintain
<1>11. ASSUME Snapshot PROVE TypeInv'
  <2>1. \A p \in Peers : PeerOK(peer'[p])
    <3> TAKE p \in Peers
    <3> DEFINE j == Judge(peer[p].judge, Reachable(peer[p]), ShownRound(peer[p]), BestRound(peer))
    <3>1. peer'[p] = IF p \in known THEN [peer[p] EXCEPT !.judge = j] ELSE peer[p]
      BY <1>11 DEF Snapshot
    <3>2. PeerOK(peer[p])
      BY TypeInvPeers
    <3>3. JudgeOK(j)
      BY <3>2, ReachableType, JudgeType DEF PeerOK
    <3> HIDE DEF j
    <3> QED BY <3>1, <3>2, <3>3, JudgedType
  <2>2. peer' \in [Peers -> PeerStates] /\ \A p \in Peers : JudgeOK(peer'[p].judge)
    BY <1>11, <2>1 DEF Snapshot, PeerOK
  <2> QED BY <1>11, <2>2 DEF Snapshot
<1>12. ASSUME Tick PROVE TypeInv'
  <2>1. \A p \in Peers : PeerOK(peer'[p])
    BY <1>12, TypeInvPeers, OlderType DEF Tick
  <2>2. peer' \in [Peers -> PeerStates] /\ \A p \in Peers : JudgeOK(peer'[p].judge)
    BY <1>12, <2>1 DEF Tick, PeerOK
  <2>3. \A p \in Peers : \A a \in probe[p] : a + 1 \in 0 .. ProbeTimeout
    <3> TAKE p \in Peers
    <3> TAKE a \in probe[p]
    <3>1. a \in 0 .. ProbeTimeout /\ a # ProbeTimeout
      BY <1>12 DEF Tick
    <3> QED BY <3>1, DirectoryAssumption
  <2>4. probe' \in [Peers -> SUBSET (0 .. ProbeTimeout)]
    <3>1. \A p \in Peers : {a + 1 : a \in probe[p]} \in SUBSET (0 .. ProbeTimeout)
      BY <2>3
    <3> QED BY <1>12, <3>1 DEF Tick
  <2>5. net' \subseteq Heartbeats
    <3>1. \A m \in Heartbeats : [m EXCEPT !.late = TRUE] \in Heartbeats
      BY DEF Heartbeats
    <3>2. net' = {[m EXCEPT !.late = TRUE] : m \in {n \in net : ~n.late}}
      BY <1>12 DEF Tick
    <3> QED BY <3>1, <3>2
  <2> QED BY <1>12, <2>2, <2>4, <2>5 DEF Tick
<1>13. CASE UNCHANGED vars
  BY <1>13 DEF vars
<1> QED
  BY <1>1, <1>2, <1>3, <1>4, <1>5, <1>6, <1>7, <1>8, <1>9, <1>10, <1>11, <1>12, <1>13 DEF Next

\* Every variable of the directory keeps its type, whatever the timers are
\* (handleLocked, probeSilentPeers, Snapshot, SetRecords).
THEOREM TypeHolds == Spec => []TypeOK
<1>1. TypeInv => TypeOK
  BY DEF TypeInv
<1> QED BY <1>1, InitType, TypeStep, PTL DEF Spec

-----------------------------------------------------------------------------
(* The order of heartbeats.                                                *)

\* The directory's own steps leave what was accepted alone.
LEMMA OwnSteps ==
  ASSUME TypeInv, Maintain \/ Snapshot \/ Tick, NEW p \in Peers
  PROVE  /\ peer'[p].hasHB = peer[p].hasHB
         /\ peer'[p].run = peer[p].run
         /\ peer'[p].seq = peer[p].seq
         /\ peer'[p].round = peer[p].round
         /\ peer'[p].online = peer[p].online
<1>1. CASE Maintain
  <2> DEFINE a == peer[p].silent \/ (p \in known /\ Silent(peer[p]))
             b == IF p \in ProbeDue THEN 0 ELSE peer[p].probeAge
  <2>1. peer'[p] = [peer[p] EXCEPT !.silent = a, !.probeAge = b]
    BY <1>1 DEF Maintain
  <2> HIDE DEF a, b
  <2> QED BY <2>1 DEF TypeInv, TypeOK, PeerStates
<1>2. CASE Snapshot
  <2> DEFINE j == Judge(peer[p].judge, Reachable(peer[p]), ShownRound(peer[p]), BestRound(peer))
  <2>1. peer'[p] = IF p \in known THEN [peer[p] EXCEPT !.judge = j] ELSE peer[p]
    BY <1>2 DEF Snapshot
  <2> HIDE DEF j
  <2> QED BY <2>1 DEF TypeInv, TypeOK, PeerStates
<1>3. CASE Tick
  <2> DEFINE a == Older(peer[p].age, HeartbeatCap)
             b == Older(peer[p].probeAge, ProbeCap)
             j == Aged(peer[p].judge)
  <2>1. peer'[p] = [peer[p] EXCEPT !.age = a, !.probeAge = b, !.judge = j]
    BY <1>3 DEF Tick
  <2> HIDE DEF a, b, j
  <2> QED BY <2>1 DEF TypeInv, TypeOK, PeerStates
<1> QED BY <1>1, <1>2, <1>3

LEMMA InitOrder == Init => OrderInv
<1> SUFFICES ASSUME Init PROVE OrderInv
  OBVIOUS
<1>1. net = {} /\ \A p \in Peers : ~peer[p].hasHB
  BY DEF Init, NewPeer
<1> QED BY <1>1 DEF OrderInv

\* A heartbeat that is not stale is not older than the last one accepted of the
\* same run: by the time any number is accepted again, what was overtaken is gone.
LEMMA AcceptedIsNewer ==
  ASSUME TypeInv, OrderInv, NEW m \in net, ~Stale(peer[m.from], m)
  PROVE  peer[m.from].hasHB /\ peer[m.from].run = m.run => m.seq >= peer[m.from].seq
<1> DEFINE q == peer[m.from]
<1>1. m.seq \in Nat /\ q.seq \in Nat /\ q.age \in Nat
  BY DEF TypeInv, TypeOK, Heartbeats, PeerStates
<1>2. Overtaken(m, q)
  BY DEF OrderInv
<1>3. DownAfter > 1
  BY DirectoryAssumption
<1>4. q.hasHB => m.seq > q.seq \/ q.age >= DownAfter
  BY <1>1, DirectoryAssumption DEF Stale
<1> HIDE DEF q
<1>5. q.hasHB /\ q.run = m.run => m.seq >= q.seq
  BY <1>1, <1>2, <1>3, <1>4, DirectoryAssumption DEF Overtaken
<1> QED BY <1>5 DEF q

LEMMA OrderStep == TypeInv /\ OrderInv /\ [Next]_vars => OrderInv'
<1> SUFFICES ASSUME TypeInv, OrderInv, [Next]_vars PROVE OrderInv'
  OBVIOUS
<1>t. /\ \A p \in Peers : agent[p].run \in Nat /\ agent[p].seq \in Nat /\ agent[p].seq <= MaxSeq
      /\ \A m \in net : m.from \in Peers /\ m.run \in Nat /\ m.seq \in Nat
      /\ \A p \in Peers : peer[p].run \in Nat /\ peer[p].seq \in Nat /\ peer[p].age \in Nat
  BY DirectoryAssumption DEF TypeInv, TypeOK, Heartbeats, PeerStates, Runs
\* Steps that touch neither the agents, nor the heartbeats, nor what was accepted.
<1>1. ASSUME agent' = agent, net' \subseteq net,
             \A p \in Peers : /\ peer'[p].hasHB => peer[p].hasHB
                              /\ peer'[p].hasHB => /\ peer'[p].run = peer[p].run
                                                  /\ peer'[p].seq = peer[p].seq
                                                  /\ peer'[p].age = peer[p].age
      PROVE  OrderInv'
  BY <1>1, <1>t DEF OrderInv, SentBy, Overtaken
<1>2. ASSUME NEW p \in Peers, NodeChanges(p) PROVE OrderInv'
  BY <1>2, <1>1 DEF NodeChanges
<1>3. ASSUME NEW p \in Peers, AgentStops(p) PROVE OrderInv'
  <2>1. \A p1 \in Peers : agent'[p1].run = agent[p1].run /\ agent'[p1].seq = agent[p1].seq
    BY <1>3 DEF AgentStops, TypeInv, TypeOK
  <2>2. net' = net /\ peer' = peer
    BY <1>3 DEF AgentStops
  <2> QED BY <1>t, <2>1, <2>2 DEF OrderInv, SentBy, Overtaken
<1>4. ASSUME NEW p \in Peers, AgentStarts(p) PROVE OrderInv'
  <2>1. \A p1 \in Peers : \/ agent'[p1] = agent[p1]
                         \/ agent'[p1].run = agent[p1].run + 1
    BY <1>4 DEF AgentStarts, TypeInv, TypeOK
  <2>2. net' = net /\ peer' = peer
    BY <1>4 DEF AgentStarts
  <2> QED BY <1>t, <2>1, <2>2 DEF OrderInv, SentBy, Overtaken
<1>5. ASSUME NEW p \in Peers, SendHeartbeat(p) PROVE OrderInv'
  <2> DEFINE seq == IF agent[p].seq < MaxSeq THEN agent[p].seq + 1 ELSE MaxSeq
             m == [from |-> p, run |-> agent[p].run, seq |-> seq, late |-> FALSE,
                   round |-> node[p].round, online |-> node[p].up]
  <2>1. seq \in Nat /\ seq >= agent[p].seq
    BY <1>t, DirectoryAssumption
  <2>2. agent' = [agent EXCEPT ![p].seq = seq] /\ net' = net \cup {m} /\ peer' = peer
    BY <1>5 DEF SendHeartbeat
  <2>3. m.from = p /\ m.run = agent[p].run /\ m.seq = seq
    OBVIOUS
  <2> HIDE DEF seq, m
  <2>4. \A p1 \in Peers : agent'[p1].run = agent[p1].run /\ agent'[p1].seq >= agent[p1].seq
    BY <1>t, <2>1, <2>2 DEF TypeInv, TypeOK
  <2>5. agent'[p].seq = seq
    BY <2>2 DEF TypeInv, TypeOK
  <2>6. \A n \in net' : SentBy(n.from, n.run, n.seq)'
    BY <1>t, <2>1, <2>2, <2>3, <2>4, <2>5 DEF OrderInv, SentBy, TypeInv, TypeOK
  <2>7. \A p1 \in Peers : peer'[p1].hasHB => SentBy(p1, peer[p1].run, peer[p1].seq)'
    <3> SUFFICES ASSUME NEW p1 \in Peers, peer[p1].hasHB
                 PROVE  SentBy(p1, peer[p1].run, peer[p1].seq)'
      BY <2>2
    <3>1. SentBy(p1, peer[p1].run, peer[p1].seq)
      BY DEF OrderInv
    <3>2. agent'[p1].run \in Nat /\ agent'[p1].seq \in Nat
      BY <1>t, <2>1, <2>2 DEF TypeInv, TypeOK
    <3> QED BY <1>t, <2>2, <2>4, <3>1, <3>2 DEF SentBy
  <2>8. \A n \in net' : Overtaken(n, peer[n.from])'
    <3>1. ~(peer[p].hasHB /\ peer[p].run = m.run /\ m.seq < peer[p].seq)
      BY <1>t, <2>1, <2>3 DEF OrderInv, SentBy
    <3> QED BY <2>2, <2>3, <3>1 DEF OrderInv, Overtaken
  <2> QED BY <2>2, <2>6, <2>7, <2>8 DEF OrderInv
<1>6. ASSUME NEW m \in net, Lose(m) PROVE OrderInv'
  BY <1>6, <1>1 DEF Lose
<1>7. ASSUME NEW r \in Rounds, NEW local \in BOOLEAN, RefChanges(r, local) PROVE OrderInv'
  BY <1>7, <1>1 DEF RefChanges
<1>8. ASSUME NEW ps \in SUBSET Peers, SetRecords(ps) PROVE OrderInv'
  <2>1. \A p \in Peers : peer'[p] = peer[p] \/ ~peer'[p].hasHB
    BY <1>8 DEF SetRecords, NewPeer
  <2> QED BY <1>8, <2>1, <1>1 DEF SetRecords
<1>9. ASSUME NEW m \in net, Receive(m) PROVE OrderInv'
  <2>1. m.from \in Peers /\ SentBy(m.from, m.run, m.seq)
    BY <1>t DEF OrderInv
  <2>2. /\ peer'[m.from].run = m.run
        /\ peer'[m.from].seq = m.seq
        /\ peer'[m.from].age = 0
    BY <1>9, <2>1 DEF Receive, TypeInv, TypeOK, PeerStates
  <2>3. \A p \in Peers \ {m.from} : peer'[p] = peer[p]
    BY <1>9 DEF Receive, TypeInv, TypeOK
  <2>4. agent' = agent /\ net' = net
    BY <1>9 DEF Receive
  <2> QED BY <1>t, <2>1, <2>2, <2>3, <2>4 DEF OrderInv, SentBy, Overtaken
<1>10. ASSUME NEW p \in Peers, NEW age \in probe[p], ProbeDone(p, age) PROVE OrderInv'
  <2>1. \A p1 \in Peers : /\ peer'[p1].hasHB = peer[p1].hasHB
                          /\ peer'[p1].run = peer[p1].run
                          /\ peer'[p1].seq = peer[p1].seq
                          /\ peer'[p1].age = peer[p1].age
    BY <1>10 DEF ProbeDone, TypeInv, TypeOK, PeerStates
  <2> QED BY <1>10, <2>1, <1>1 DEF ProbeDone
<1>11. ASSUME Maintain PROVE OrderInv'
  <2>1. \A p \in Peers : /\ peer'[p].hasHB = peer[p].hasHB
                         /\ peer'[p].run = peer[p].run
                         /\ peer'[p].seq = peer[p].seq
                         /\ peer'[p].age = peer[p].age
    BY <1>11 DEF Maintain, TypeInv, TypeOK, PeerStates
  <2> QED BY <1>11, <2>1, <1>1 DEF Maintain
<1>12. ASSUME Snapshot PROVE OrderInv'
  <2>1. \A p \in Peers : /\ peer'[p].hasHB = peer[p].hasHB
                         /\ peer'[p].run = peer[p].run
                         /\ peer'[p].seq = peer[p].seq
                         /\ peer'[p].age = peer[p].age
    BY <1>12 DEF Snapshot, TypeInv, TypeOK, PeerStates
  <2> QED BY <1>12, <2>1, <1>1 DEF Snapshot
<1>13. ASSUME Tick PROVE OrderInv'
  <2>1. \A p \in Peers : /\ peer'[p].hasHB = peer[p].hasHB
                         /\ peer'[p].run = peer[p].run
                         /\ peer'[p].seq = peer[p].seq
                         /\ peer'[p].age = Older(peer[p].age, HeartbeatCap)
    BY <1>13 DEF Tick, TypeInv, TypeOK, PeerStates
  <2>2. \A p \in Peers : peer'[p].age \in Nat /\ peer'[p].age <= peer[p].age + 1
    BY <1>t, <2>1, DirectoryAssumption DEF Older, HeartbeatCap
  <2>3. \A n \in net' : /\ n.late
                        /\ \E m \in net : /\ ~m.late /\ n.from = m.from /\ n.run = m.run
                                          /\ n.seq = m.seq
    BY <1>13 DEF Tick, TypeInv, TypeOK, Heartbeats
  <2>4. agent' = agent
    BY <1>13 DEF Tick
  <2>5. \A n \in net' : SentBy(n.from, n.run, n.seq)'
    BY <2>3, <2>4 DEF OrderInv, SentBy
  <2>6. \A p \in Peers : peer'[p].hasHB => SentBy(p, peer[p].run, peer[p].seq)'
    BY <2>1, <2>4 DEF OrderInv, SentBy
  <2>7. \A n \in net' : Overtaken(n, peer[n.from])'
    <3> SUFFICES ASSUME NEW n \in net' PROVE Overtaken(n, peer[n.from])'
      OBVIOUS
    <3>1. PICK m \in net : ~m.late /\ n.from = m.from /\ n.run = m.run /\ n.seq = m.seq
      BY <2>3
    <3>2. Overtaken(m, peer[m.from]) /\ m.from \in Peers
      BY <1>t DEF OrderInv
    <3> QED BY <1>t, <2>1, <2>2, <2>3, <3>1, <3>2 DEF Overtaken
  <2> QED BY <2>5, <2>6, <2>7 DEF OrderInv
<1>14. CASE UNCHANGED vars
  BY <1>14, <1>1 DEF vars
<1> QED
  BY <1>2, <1>3, <1>4, <1>5, <1>6, <1>7, <1>8, <1>9, <1>10, <1>11, <1>12, <1>13, <1>14 DEF Next

\* What one step makes of the accepted heartbeat of a peer that stays known.
LEMMA ForwardStep ==
  TypeInv /\ OrderInv /\ [Next]_vars
    => \A p \in known \cap known' :
         peer[p].hasHB /\ peer'[p].run = peer[p].run => peer'[p].seq >= peer[p].seq
<1> SUFFICES ASSUME TypeInv, OrderInv, [Next]_vars, NEW p \in known, p \in known',
                    peer[p].hasHB, peer'[p].run = peer[p].run
             PROVE  peer'[p].seq >= peer[p].seq
  OBVIOUS
<1>t. p \in Peers /\ peer[p].seq \in Nat
  BY DirectoryAssumption DEF TypeInv, TypeOK, PeerStates
<1>1. ASSUME peer'[p].seq = peer[p].seq PROVE peer'[p].seq >= peer[p].seq
  BY <1>1, <1>t
<1>2. ASSUME NEW m \in net, Receive(m) PROVE peer'[p].seq >= peer[p].seq
  <2>1. CASE m.from = p
    <3>1. peer'[p].seq = m.seq /\ peer'[p].run = m.run
      BY <1>2, <1>t, <2>1 DEF Receive, TypeInv, TypeOK, PeerStates
    <3>2. ~Stale(peer[m.from], m)
      BY <1>2 DEF Receive
    <3> QED BY <2>1, <3>1, <3>2, AcceptedIsNewer
  <2>2. CASE m.from # p
    BY <1>2, <1>t, <2>2, <1>1 DEF Receive, TypeInv, TypeOK
  <2> QED BY <2>1, <2>2
<1>3. ASSUME NEW ps \in SUBSET Peers, SetRecords(ps) PROVE peer'[p].seq >= peer[p].seq
  BY <1>3, <1>t, <1>1 DEF SetRecords
<1>4. ASSUME NEW p1 \in Peers, NEW age \in probe[p1], ProbeDone(p1, age)
      PROVE  peer'[p].seq >= peer[p].seq
  BY <1>4, <1>t, <1>1 DEF ProbeDone, TypeInv, TypeOK, PeerStates
<1>5. ASSUME Maintain \/ Snapshot \/ Tick PROVE peer'[p].seq >= peer[p].seq
  BY <1>5, <1>t, <1>1, OwnSteps
<1>6. ASSUME peer' = peer PROVE peer'[p].seq >= peer[p].seq
  BY <1>6, <1>1
<1> QED
  BY <1>2, <1>3, <1>4, <1>5, <1>6
  DEF Next, vars, NodeChanges, AgentStops, AgentStarts, SendHeartbeat, Lose, RefChanges

\* Whatever is lost, duplicated or reordered, the directory never goes back to
\* something the same run of a peer's agent said before, for any timers with
\* DownAfter beyond SuspectAfter (handleLocked).
THEOREM HeartbeatsMoveForwardHolds == Spec => HeartbeatsMoveForward
<1>1. TypeInv /\ OrderInv /\ [Next]_vars => (TypeInv /\ OrderInv)'
  BY TypeStep, OrderStep
<1>2. Init => TypeInv /\ OrderInv
  BY InitType, InitOrder
<1>3. TypeInv /\ OrderInv /\ [Next]_vars
        => [\A p \in known \cap known' :
              peer[p].hasHB /\ peer'[p].run = peer[p].run => peer'[p].seq >= peer[p].seq]_vars
  BY ForwardStep
<1> QED BY <1>1, <1>2, <1>3, PTL DEF Spec, HeartbeatsMoveForward

-----------------------------------------------------------------------------
(* The rounds that release a held wait.                                    *)

\* AnnouncedIsReleased, of the peers that are not known too: they have no
\* heartbeat on record.
RoundInv ==
  \A p \in Peers \ Excluded : peer[p].hasHB /\ peer[p].online => peer[p].round <= hbRound

\* No round that a routable peer announced is waited for: a wait held for the
\* round before it has been released (handleLocked, noteRoundLocked).
THEOREM AnnouncedIsReleasedHolds == Spec => []AnnouncedIsReleased
<1> DEFINE Inv == TypeInv /\ RoundInv
<1>1. Init => Inv
  BY InitType DEF Init, RoundInv, NewPeer
<1>2. Inv /\ [Next]_vars => Inv'
  <2> SUFFICES ASSUME Inv, [Next]_vars PROVE RoundInv'
    BY TypeStep
  <2>t. hbRound \in Int /\ \A p \in Peers : peer[p].round \in Int
    BY DEF TypeInv, TypeOK, PeerStates, Rounds
  \* A peer's report and the highest round stay, or only the latter grows.
  <2>1. ASSUME hbRound' \in Int, hbRound' >= hbRound,
               \A p \in Peers : peer'[p].hasHB =>
                 /\ peer[p].hasHB
                 /\ peer'[p].online = peer[p].online
                 /\ peer'[p].round = peer[p].round
        PROVE  RoundInv'
    BY <2>1, <2>t DEF RoundInv
  <2>2. ASSUME NEW m \in net, Receive(m) PROVE RoundInv'
    <3>1. m.from \in Peers /\ m.round \in Int /\ m.online \in BOOLEAN
      BY DEF TypeInv, TypeOK, Heartbeats, Rounds
    <3>2. hbRound' \in Int /\ hbRound' >= hbRound
      BY <2>2, <2>t, <3>1 DEF Receive, NoteRound
    <3>3. m.online /\ m.from \notin Excluded => m.round <= hbRound'
      BY <2>2, <2>t, <3>1 DEF Receive, NoteRound
    <3>4. peer'[m.from].online = m.online /\ peer'[m.from].round = m.round
      BY <2>2, <3>1 DEF Receive, TypeInv, TypeOK, PeerStates
    <3>5. \A p \in Peers \ {m.from} : peer'[p] = peer[p]
      BY <2>2 DEF Receive, TypeInv, TypeOK
    <3> QED BY <2>t, <3>1, <3>2, <3>3, <3>4, <3>5 DEF RoundInv
  <2>3. ASSUME NEW r \in Rounds, NEW local \in BOOLEAN, RefChanges(r, local)
        PROVE  RoundInv'
    <3>1. hbRound' \in Int /\ hbRound' >= hbRound
      BY <2>3, <2>t DEF RefChanges, NoteRound, Rounds
    <3> QED BY <2>1, <2>3, <3>1 DEF RefChanges
  <2>4. ASSUME NEW ps \in SUBSET Peers, SetRecords(ps) PROVE RoundInv'
    <3>1. \A p \in Peers : peer'[p].hasHB => peer'[p] = peer[p]
      BY <2>4 DEF SetRecords, NewPeer
    <3> QED BY <2>1, <2>4, <2>t, <3>1 DEF SetRecords
  <2>5. ASSUME NEW p1 \in Peers, NEW age \in probe[p1], ProbeDone(p1, age)
        PROVE  RoundInv'
    BY <2>1, <2>5, <2>t DEF ProbeDone, TypeInv, TypeOK, PeerStates
  <2>6. ASSUME Maintain \/ Snapshot \/ Tick PROVE RoundInv'
    <3>1. hbRound' = hbRound
      BY <2>6 DEF Maintain, Snapshot, Tick
    <3>2. \A p \in Peers : /\ peer'[p].hasHB = peer[p].hasHB
                           /\ peer'[p].online = peer[p].online
                           /\ peer'[p].round = peer[p].round
      BY <2>6, OwnSteps
    <3> QED BY <2>1, <2>t, <3>1, <3>2
  <2>7. ASSUME UNCHANGED <<peer, hbRound>> PROVE RoundInv'
    BY <2>7 DEF RoundInv
  <2> QED
    BY <2>2, <2>3, <2>4, <2>5, <2>6, <2>7
    DEF Next, vars, NodeChanges, AgentStops, AgentStarts, SendHeartbeat, Lose
<1>3. Inv => AnnouncedIsReleased
  BY DEF TypeInv, TypeOK, RoundInv, AnnouncedIsReleased
<1> QED BY <1>1, <1>2, <1>3, PTL DEF Spec
=============================================================================
