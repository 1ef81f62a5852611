---------------------------- MODULE MonitorProofs ----------------------------
(***************************************************************************)
(* What verifyLoop measures while the node prunes, restarts and is         *)
(* reconfigured under it, for any node, any data directory, any override   *)
(* and any rounds.                                                         *)
(***************************************************************************)
EXTENDS Monitor, TLAPS

NodeRec == [up : BOOLEAN, tip : Nat, oldest : Nat, keeps : Nat, limits : Limits]
StateRec ==
  [online : BOOLEAN, last : Nat, caps : CapsType, cfg : Configs \cup {NoConfig},
   configOK : BOOLEAN, verified : BOOLEAN, limitsKnown : BOOLEAN]
RunRec ==
  [pc : {"await", "online", "watch", "round"}, round : Nat, known : BOOLEAN,
   limits : Limits \cup {NoLimits}]
VerRec ==
  [pc : {"idle", "zero", "top", "bisect", "edge", "below", "apply", "limits", "refresh"},
   tick : BOOLEAN, expected : Nat, last : Nat, lo : Nat, hi : Nat, from : Nat,
   limits : Limits \cup {NoLimits}]

(***************************************************************************)
(* Where a measurement v of node n stands.  The node only ever loses       *)
(* blocks, so that a round seen to be gone stays below its oldest block,   *)
(* and a round seen to be served is no older than the oldest block of the  *)
(* beginning: between the two lies every answer the search can come to.    *)
(***************************************************************************)
Bracketed(v, n) ==
  /\ v.pc \in {"zero", "top", "bisect", "edge", "below", "apply"} => v.from <= n.oldest
  /\ v.pc = "top" => n.oldest > 0
  /\ v.pc = "bisect" => v.lo < n.oldest /\ v.from <= v.hi /\ v.hi <= n.tip
  /\ v.pc = "below" => v.expected > 0 /\ v.from <= v.expected /\ v.expected <= n.tip
  /\ v.pc = "apply" => v.from <= v.hi /\ v.hi <= n.oldest

\* The inductive invariant.
MonitorInv == TypeOK /\ Bracketed(ver, node)

-----------------------------------------------------------------------------
(* Types.                                                                  *)

\* TypeOK, with the sets of records named.
LEMMA Types ==
  TypeOK <=>
    /\ node \in NodeRec /\ file \in Configs /\ override \in Overrides
    /\ st \in StateRec /\ run \in RunRec /\ conf \in {"idle", "changed"}
    /\ ver \in VerRec /\ verify \in BOOLEAN /\ restarts \in 0 .. MaxRestarts
    /\ node.oldest <= node.tip
BY DEF TypeOK, NodeRec, StateRec, RunRec, VerRec

LEMMA IdleType == Idle \in VerRec /\ Idle.pc = "idle"
BY DEF Idle, VerRec

LEMMA AwaitingType ==
  ASSUME NEW p \in {"await", "watch"}
  PROVE  Awaiting(p) \in RunRec
BY DEF Awaiting, RunRec

\* The round an archival mode begins at is a round.
LEMMA OldestType ==
  ASSUME NEW a \in Archivals, NEW r \in Nat
  PROVE  OldestRoundFor(a, r) \in Nat
<1>1. a.n \in Nat /\ DefaultNonArchivalWindow \in Nat
  BY WindowAssumption DEF Archivals
<1> QED BY <1>1 DEF OldestRoundFor, Larger

\* Capabilities with an archival mode and the round it begins at.
LEMMA ArchivalCaps ==
  ASSUME NEW c \in CapsType, NEW a \in Archivals, NEW o \in Nat
  PROVE  /\ [c EXCEPT !.archival = a, !.oldest = o] \in CapsType
         /\ [c EXCEPT !.archival = a, !.oldest = o].oldest = o
         /\ [c EXCEPT !.oldest = o] \in CapsType
BY DEF CapsType

\* CapabilityOverrides.Apply
LEMMA ApplyType ==
  ASSUME NEW c \in CapsType, NEW r \in Nat, override \in Overrides
  PROVE  Apply(override, c, r) \in CapsType
<1>1. CASE override = NoOverride
  BY <1>1 DEF Apply
<1>2. CASE override # NoOverride
  <2>1. override \in Archivals
    BY <1>2, MonitorAssumption
  <2>2. OldestRoundFor(override, r) \in Nat
    BY <2>1, OldestType
  <2>3. Apply(override, c, r) = [c EXCEPT !.archival = override,
                                          !.oldest = OldestRoundFor(override, r)]
    BY <1>2 DEF Apply
  <2> DEFINE o == OldestRoundFor(override, r)
             a == override
  <2> HIDE DEF o, a
  <2>4. [c EXCEPT !.archival = a, !.oldest = o] \in CapsType
    BY <2>1, <2>2, ArchivalCaps DEF o, a
  <2> QED BY <2>3, <2>4 DEF o, a
<1> QED BY <1>1, <1>2

\* readConfig
LEMMA WithConfigType ==
  ASSUME NEW s \in StateRec, NEW c \in Configs, override \in Overrides
  PROVE  WithConfig(s, c) \in StateRec
<1>1. c.archival \in Archivals /\ s.caps \in CapsType /\ s.last \in Nat
  BY MonitorAssumption DEF StateRec
<1> DEFINE k == CapsFromConfig(c, s)
           v == s.verified /\ s.configOK /\ s.cfg.mod = c.mod
<1>2. OldestRoundFor(c.archival, s.last) \in Nat
  BY <1>1, OldestType
<1>3. k \in CapsType
  BY <1>1, <1>2, ArchivalCaps, ApplyType DEF CapsFromConfig
<1>4. v \in BOOLEAN
  BY DEF StateRec
<1>5. WithConfig(s, c) = [s EXCEPT !.cfg = c, !.configOK = TRUE, !.caps = k, !.verified = v]
  BY DEF WithConfig
<1> HIDE DEF k, v
<1> QED BY <1>3, <1>4, <1>5 DEF StateRec

\* A status answer.
LEMMA WithRoundType ==
  ASSUME NEW s \in StateRec, NEW r \in Nat, override \in Overrides
  PROVE  WithRound(s, r) \in StateRec
<1>1. s.caps \in CapsType /\ s.caps.archival \in Archivals
  BY DEF StateRec, CapsType
<1> DEFINE k == Apply(override, [s.caps EXCEPT !.oldest = OldestRoundFor(s.caps.archival, r)], r)
<1>2. OldestRoundFor(s.caps.archival, r) \in Nat
  BY <1>1, OldestType
<1>3. k \in CapsType
  BY <1>1, <1>2, ArchivalCaps, ApplyType
<1>4. WithRound(s, r) = [s EXCEPT !.online = TRUE, !.last = r, !.caps = k]
  BY DEF WithRound
<1> HIDE DEF k
<1> QED BY <1>3, <1>4 DEF StateRec

\* Limits become known.
LEMMA LearntType ==
  ASSUME NEW s \in StateRec, NEW k \in BOOLEAN, NEW l \in Limits \cup {NoLimits}
  PROVE  [s EXCEPT !.limitsKnown = k, !.caps.simulate = l] \in StateRec
<1> DEFINE c == [s.caps EXCEPT !.simulate = l]
<1>1. [s EXCEPT !.limitsKnown = k, !.caps.simulate = l] = [s EXCEPT !.limitsKnown = k, !.caps = c]
  BY DEF StateRec
<1>2. c \in CapsType
  BY DEF StateRec, CapsType
<1> HIDE DEF c
<1> QED BY <1>1, <1>2 DEF StateRec

\* verifyOldest's result: what is claimed afterwards is no older than measured.
LEMMA NarrowedType ==
  ASSUME NEW s \in StateRec, NEW m \in Nat
  PROVE  Narrowed(s, m) \in StateRec /\ Narrowed(s, m).caps.oldest >= m
<1>1. /\ s.caps \in CapsType /\ s.caps.archival \in Archivals /\ s.caps.oldest \in Nat
      /\ s.last \in Nat
  BY DEF StateRec, CapsType
<1> DEFINE kind == s.caps.archival.kind
           a == IF kind = "full" THEN [kind |-> "since", n |-> m]
                ELSE IF kind = "trailing" /\ s.last > m
                     THEN [kind |-> kind, n |-> s.last - m]
                ELSE s.caps.archival
           o == Larger(OldestRoundFor(a, s.last), m)
           c == [s.caps EXCEPT !.archival = a, !.oldest = o]
<1>2. Narrowed(s, m) = IF m > s.caps.oldest
                       THEN [s EXCEPT !.verified = TRUE, !.caps = c]
                       ELSE [s EXCEPT !.verified = TRUE]
  BY DEF Narrowed
<1>3. a \in Archivals
  BY <1>1 DEF Archivals
<1> HIDE DEF a
<1>4. OldestRoundFor(a, s.last) \in Nat
  BY <1>1, <1>3, OldestType
<1>5. o \in Nat /\ o >= m
  BY <1>4 DEF Larger
<1> HIDE DEF o
<1>6. c \in CapsType /\ c.oldest = o
  BY <1>1, <1>3, <1>5, ArchivalCaps
<1> HIDE DEF c
<1>7. CASE m > s.caps.oldest
  <2>1. Narrowed(s, m) = [s EXCEPT !.verified = TRUE, !.caps = c]
    BY <1>2, <1>7
  <2>2. Narrowed(s, m) \in StateRec /\ Narrowed(s, m).caps = c
    BY <1>6, <2>1 DEF StateRec
  <2> QED BY <1>5, <1>6, <2>2
<1>8. CASE ~(m > s.caps.oldest)
  <2>1. Narrowed(s, m) = [s EXCEPT !.verified = TRUE]
    BY <1>2, <1>8
  <2>2. Narrowed(s, m) \in StateRec /\ Narrowed(s, m).caps = s.caps
    BY <2>1 DEF StateRec
  <2> QED BY <1>1, <1>8, <2>2
<1> QED BY <1>7, <1>8

-----------------------------------------------------------------------------
(* The measurement.                                                        *)

\* A measurement that has ended, or not begun, claims nothing.
Waiting == {"idle", "limits", "refresh"}

LEMMA WaitingIsBracketed ==
  ASSUME NEW v \in VerRec, v.pc \in Waiting, NEW n
  PROVE  Bracketed(v, n)
BY DEF Waiting, Bracketed

LEMMA OverType ==
  ASSUME ver \in VerRec
  PROVE  Over \in VerRec /\ Over.pc \in Waiting
<1> DEFINE p == IF ver.tick THEN "limits" ELSE "idle"
           n == Idle
<1>1. n \in VerRec /\ p \in {"limits", "idle"} /\ Over = [n EXCEPT !.pc = p]
  BY IdleType DEF Over
<1> HIDE DEF p, n
<1> QED BY <1>1 DEF VerRec, Waiting

LEMMA MeasuredType ==
  ASSUME ver \in VerRec, NEW r \in Nat
  PROVE  /\ Measured(r) \in VerRec
         /\ Measured(r).pc = "apply" /\ Measured(r).hi = r /\ Measured(r).from = ver.from
BY DEF Measured, VerRec

\* What is measured is bracketed when it is.
LEMMA MeasuredIsBracketed ==
  ASSUME ver \in VerRec, NEW r \in Nat, NEW n, ver.from <= r, r <= n.oldest, ver.from <= n.oldest
  PROVE  Bracketed(Measured(r), n)
BY MeasuredType DEF Bracketed

\* While the node adds blocks and loses blocks, a measurement stays bracketed.
LEMMA NodeMoves ==
  ASSUME NEW v \in VerRec, NEW n \in NodeRec, NEW m \in NodeRec, Bracketed(v, n),
         n.oldest <= m.oldest, n.tip <= m.tip
  PROVE  Bracketed(v, m)
BY DEF Bracketed, VerRec, NodeRec

LEMMA NodeRoundFields ==
  ASSUME TypeOK, NodeRound
  PROVE  /\ node' \in NodeRec /\ node'.oldest <= node'.tip
         /\ node.oldest <= node'.oldest /\ node.tip <= node'.tip
<1> DEFINE t == node.tip + 1
           o == Larger(node.oldest, node.tip + 1 - node.keeps)
           n == node
<1>1. /\ n \in NodeRec /\ n.tip \in Nat /\ n.oldest \in Nat /\ n.keeps \in Nat
      /\ n.oldest <= n.tip
  BY Types DEF NodeRec
<1>2. node' = [n EXCEPT !.tip = t, !.oldest = o]
  BY <1>1 DEF NodeRound
<1>3. t \in Nat /\ o \in Nat /\ o <= t /\ n.oldest <= o /\ n.tip <= t
  BY <1>1 DEF Larger
<1> HIDE DEF t, o, n
<1>4. node' \in NodeRec /\ node'.tip = t /\ node'.oldest = o
  BY <1>1, <1>2, <1>3 DEF NodeRec
<1> QED BY <1>3, <1>4 DEF n

LEMMA NodeStartsFields ==
  ASSUME TypeOK, NodeStarts
  PROVE  /\ node' \in NodeRec /\ node'.oldest <= node'.tip
         /\ node.oldest <= node'.oldest /\ node.tip <= node'.tip
<1> DEFINE n == node
<1>1. /\ n \in NodeRec /\ n.tip \in Nat /\ n.oldest \in Nat
  BY Types DEF NodeRec
<1>2. PICK l \in Limits, o \in n.oldest .. n.tip :
        node' = [n EXCEPT !.up = TRUE, !.limits = l, !.oldest = o]
  BY DEF NodeStarts
<1>3. o \in Nat /\ n.oldest <= o /\ o <= n.tip
  BY <1>1
<1> HIDE DEF n
<1>4. node' \in NodeRec /\ node'.tip = n.tip /\ node'.oldest = o
  BY <1>1, <1>2, <1>3 DEF NodeRec
<1> QED BY <1>1, <1>3, <1>4 DEF n

LEMMA NodeStopsFields ==
  ASSUME TypeOK, NodeStops
  PROVE  /\ node' \in NodeRec /\ node'.oldest = node.oldest /\ node'.tip = node.tip
         /\ restarts' \in 0 .. MaxRestarts
<1>1. node \in NodeRec /\ node' = [node EXCEPT !.up = FALSE]
  BY Types DEF NodeStops
<1>2. restarts' \in 0 .. MaxRestarts
  BY Types, MonitorAssumption DEF NodeStops
<1> QED BY <1>1, <1>2 DEF NodeRec

\* A measurement begins with the node's oldest block of that moment.
LEMMA BeginsFields ==
  ASSUME TypeOK, NEW tick \in BOOLEAN, Begins(tick)
  PROVE  ver' \in VerRec /\ Bracketed(ver', node) /\ st' \in StateRec
<1>1. /\ st \in StateRec /\ node.oldest \in Nat /\ st.last \in Nat /\ st.caps.oldest \in Nat
      /\ st.verified \in BOOLEAN
  BY Types DEF NodeRec, StateRec, CapsType
<1> DEFINE p == IF tick THEN "limits" ELSE "idle"
           d == Idle
           i == [d EXCEPT !.pc = p]
           b == tick /\ st.verified
           v == [pc |-> IF b THEN "edge" ELSE "zero", tick |-> tick,
                 expected |-> IF b THEN st.caps.oldest ELSE 0, last |-> st.last, lo |-> 0,
                 hi |-> 0, from |-> node.oldest, limits |-> NoLimits]
<1>2. d \in VerRec /\ p \in {"limits", "idle"}
  BY IdleType
<1>3. \/ ver' = i /\ UNCHANGED st
      \/ ver' = i /\ st' = [st EXCEPT !.verified = TRUE]
      \/ ver' = v /\ UNCHANGED st
  BY DEF Begins
<1>4. v \in VerRec /\ v.pc \in {"edge", "zero"} /\ v.from = node.oldest
  BY <1>1 DEF VerRec
<1> HIDE DEF v, d, p
<1>5. i \in VerRec /\ i.pc \in Waiting
  BY <1>2 DEF VerRec, Waiting
<1> HIDE DEF i
<1>6. Bracketed(i, node)
  BY <1>5, WaitingIsBracketed
<1>7. Bracketed(v, node)
  BY <1>1, <1>4 DEF Bracketed
<1>8. [st EXCEPT !.verified = TRUE] \in StateRec
  BY <1>1 DEF StateRec
<1> QED BY <1>1, <1>3, <1>4, <1>5, <1>6, <1>7, <1>8

LEMMA CheckEdgeFields ==
  ASSUME MonitorInv, CheckEdge
  PROVE  ver' \in VerRec /\ Bracketed(ver', node)
<1>1. /\ ver \in VerRec /\ Bracketed(ver, node) /\ ver.expected \in Nat /\ ver.from \in Nat
      /\ node.oldest \in Nat /\ node.tip \in Nat /\ node.oldest <= node.tip
  BY Types DEF MonitorInv, NodeRec, VerRec
<1> DEFINE e == ver.expected
           z == [ver EXCEPT !.pc = "zero", !.expected = 0]
           b == [ver EXCEPT !.pc = "below"]
<1>2. z \in VerRec /\ z.pc = "zero" /\ z.from = ver.from
  BY <1>1 DEF VerRec
<1>3. b \in VerRec /\ b.pc = "below" /\ b.from = ver.from /\ b.expected = e
  BY <1>1 DEF VerRec
<1> HIDE DEF z, b
<1>4. CASE ver.pc = "edge"
  <2>1. ver' = IF ~HasBlock(e) THEN z ELSE IF e = 0 THEN Measured(0) ELSE b
    BY <1>4 DEF CheckEdge, z, b
  <2>2. ver.from <= node.oldest
    BY <1>1, <1>4 DEF Bracketed
  <2>3. CASE ~HasBlock(e)
    BY <1>2, <2>1, <2>2, <2>3 DEF Bracketed
  <2>4. CASE HasBlock(e) /\ e = 0
    <3>1. node.oldest <= 0
      BY <2>4 DEF HasBlock
    <3> QED BY <1>1, <2>1, <2>2, <2>4, <3>1, MeasuredType, MeasuredIsBracketed
  <2>5. CASE HasBlock(e) /\ e # 0
    <3>1. ver.from <= e /\ e <= node.tip /\ e > 0
      BY <1>1, <2>2, <2>5 DEF HasBlock
    <3> QED BY <1>3, <2>1, <2>2, <2>5, <3>1 DEF Bracketed
  <2> QED BY <2>3, <2>4, <2>5
<1>5. CASE ver.pc = "below"
  <2>1. ver' = IF HasBlock(e - 1) THEN z ELSE Measured(e)
    BY <1>5 DEF CheckEdge, z
  <2>2. ver.from <= node.oldest /\ e > 0 /\ ver.from <= e /\ e <= node.tip
    BY <1>1, <1>5 DEF Bracketed
  <2>3. CASE HasBlock(e - 1)
    BY <1>2, <2>1, <2>2, <2>3 DEF Bracketed
  <2>4. CASE ~HasBlock(e - 1)
    <3>1. e <= node.oldest
      BY <1>1, <2>2, <2>4 DEF HasBlock
    <3> QED BY <1>1, <2>1, <2>2, <2>4, <3>1, MeasuredType, MeasuredIsBracketed
  <2> QED BY <2>3, <2>4
<1> QED BY <1>4, <1>5 DEF CheckEdge

LEMMA ProbeFields ==
  ASSUME MonitorInv, Probe
  PROVE  ver' \in VerRec /\ Bracketed(ver', node)
<1>1. /\ ver \in VerRec /\ Bracketed(ver, node) /\ ver.lo \in Nat /\ ver.hi \in Nat
      /\ ver.from \in Nat /\ ver.last \in Nat
      /\ node.oldest \in Nat /\ node.tip \in Nat /\ node.oldest <= node.tip
  BY Types DEF MonitorInv, NodeRec, VerRec
<1>2. CASE ver.pc = "zero"
  <2> DEFINE t == [ver EXCEPT !.pc = "top"]
  <2>1. ver' = IF HasBlock(0) THEN Measured(0) ELSE t
    BY <1>2 DEF Probe
  <2>2. t \in VerRec /\ t.pc = "top" /\ t.from = ver.from
    BY <1>1 DEF VerRec
  <2> HIDE DEF t
  <2>3. ver.from <= node.oldest
    BY <1>1, <1>2 DEF Bracketed
  <2>4. CASE HasBlock(0)
    <3>1. node.oldest <= 0
      BY <2>4 DEF HasBlock
    <3> QED BY <1>1, <2>1, <2>3, <2>4, <3>1, MeasuredType, MeasuredIsBracketed
  <2>5. CASE ~HasBlock(0)
    <3>1. node.oldest > 0
      BY <1>1, <2>5 DEF HasBlock
    <3> QED BY <2>1, <2>2, <2>3, <2>5, <3>1 DEF Bracketed
  <2> QED BY <2>4, <2>5
<1>3. CASE ver.pc = "top"
  <2> DEFINE b == [ver EXCEPT !.pc = "bisect", !.lo = 0, !.hi = ver.last, !.last = 0]
  <2>1. ver' = IF HasBlock(ver.last) THEN b ELSE Over
    BY <1>3 DEF Probe
  <2>2. b \in VerRec /\ b.pc = "bisect" /\ b.lo = 0 /\ b.hi = ver.last /\ b.from = ver.from
    BY <1>1 DEF VerRec
  <2> HIDE DEF b
  <2>3. ver.from <= node.oldest /\ 0 < node.oldest
    BY <1>1, <1>3 DEF Bracketed
  <2>4. CASE HasBlock(ver.last)
    <3>1. ver.from <= ver.last /\ ver.last <= node.tip
      BY <1>1, <2>3, <2>4 DEF HasBlock
    <3> QED BY <2>1, <2>2, <2>3, <2>4, <3>1 DEF Bracketed
  <2>5. CASE ~HasBlock(ver.last)
    BY <1>1, <2>1, <2>5, OverType, WaitingIsBracketed
  <2> QED BY <2>4, <2>5
<1>4. CASE ver.pc = "bisect" /\ ver.hi - ver.lo > 1
  <2> DEFINE mid == ver.lo + (ver.hi - ver.lo) \div 2
             h == [ver EXCEPT !.hi = mid]
             l == [ver EXCEPT !.lo = mid]
  <2>1. ver' = IF HasBlock(mid) THEN h ELSE l
    BY <1>4 DEF Probe
  <2>2. mid \in Nat /\ mid <= ver.hi
    BY <1>1, <1>4
  <2>3. /\ ver.from <= node.oldest /\ ver.lo < node.oldest /\ ver.from <= ver.hi
        /\ ver.hi <= node.tip
    BY <1>1, <1>4 DEF Bracketed
  <2> HIDE DEF mid
  <2>4. h \in VerRec /\ h.pc = ver.pc /\ h.lo = ver.lo /\ h.hi = mid /\ h.from = ver.from
    BY <1>1, <2>2 DEF VerRec
  <2>5. l \in VerRec /\ l.pc = ver.pc /\ l.lo = mid /\ l.hi = ver.hi /\ l.from = ver.from
    BY <1>1, <2>2 DEF VerRec
  <2> HIDE DEF h, l
  <2>6. CASE HasBlock(mid)
    <3>1. ver.from <= mid /\ mid <= node.tip
      BY <1>1, <2>2, <2>3, <2>6 DEF HasBlock
    <3> QED BY <1>4, <2>1, <2>3, <2>4, <2>6, <3>1 DEF Bracketed
  <2>7. CASE ~HasBlock(mid)
    <3>1. mid < node.oldest
      BY <1>1, <2>2, <2>3, <2>7 DEF HasBlock
    <3> QED BY <1>4, <2>1, <2>3, <2>5, <2>7, <3>1 DEF Bracketed
  <2> QED BY <2>6, <2>7
<1> QED BY <1>2, <1>3, <1>4 DEF Probe

\* The search ends with a round between the block it began with and the one the
\* node begins with now.
LEMMA SearchEndsFields ==
  ASSUME MonitorInv, SearchEnds
  PROVE  ver' \in VerRec /\ Bracketed(ver', node)
<1>1. /\ ver \in VerRec /\ Bracketed(ver, node) /\ ver.lo \in Nat /\ ver.hi \in Nat
      /\ ver.from \in Nat /\ node.oldest \in Nat
  BY Types DEF MonitorInv, NodeRec, VerRec
<1>2. ver.pc = "bisect" /\ ver.hi - ver.lo <= 1 /\ ver' = Measured(ver.hi)
  BY DEF SearchEnds
<1>3. ver.from <= node.oldest /\ ver.from <= ver.hi /\ ver.hi <= node.oldest
  BY <1>1, <1>2 DEF Bracketed
<1> QED BY <1>1, <1>2, <1>3, MeasuredType, MeasuredIsBracketed

LEMMA RefreshLimitsFields ==
  ASSUME TypeOK, RefreshLimits
  PROVE  ver' \in VerRec /\ Bracketed(ver', node)
<1> DEFINE d == Idle
           l == node.limits
           r == [d EXCEPT !.pc = "refresh", !.limits = l]
<1>1. d \in VerRec /\ d.pc = "idle" /\ l \in Limits
  BY Types, IdleType DEF NodeRec
<1>2. ver' = r \/ ver' = d
  BY DEF RefreshLimits
<1> HIDE DEF d, l
<1>3. r \in VerRec /\ r.pc = "refresh"
  BY <1>1 DEF VerRec
<1> HIDE DEF r
<1> QED BY <1>1, <1>2, <1>3, WaitingIsBracketed DEF Waiting

-----------------------------------------------------------------------------
(* Run, configLoop and what verifyLoop applies.                            *)

LEMMA AnswerTypes ==
  ASSUME TypeOK, NEW a \in LimitsAnswer
  PROVE  a.known \in BOOLEAN /\ a.limits \in Limits \cup {NoLimits}
<1>1. node.limits \in Limits
  BY Types DEF NodeRec
<1>2. CASE a = [known |-> FALSE, limits |-> NoLimits]
  BY <1>2, Zenon
<1>3. CASE a = [known |-> TRUE, limits |-> node.limits]
  BY <1>1, <1>3
<1> QED BY <1>2, <1>3 DEF LimitsAnswer

LEMMA FollowTypes ==
  ASSUME TypeOK, Follow
  PROVE  /\ st' \in StateRec /\ run' \in RunRec /\ verify' \in BOOLEAN
         /\ UNCHANGED <<environment, override, conf, ver>>
<1>1. /\ st \in StateRec /\ run \in RunRec /\ verify \in BOOLEAN /\ node.tip \in Nat
      /\ override \in Overrides /\ st.limitsKnown \in BOOLEAN
      /\ st.caps.simulate \in Limits \cup {NoLimits}
      /\ run.known \in BOOLEAN /\ run.limits \in Limits \cup {NoLimits} /\ run.round \in Nat
  BY Types DEF NodeRec, StateRec, RunRec, CapsType
<1>2. Awaiting("await") \in RunRec /\ Awaiting("watch") \in RunRec
  BY AwaitingType
<1>3. CASE StatusAnswered
  <2>1. PICK a \in LimitsAnswer :
          run' = [pc |-> "online", round |-> node.tip, known |-> a.known, limits |-> a.limits]
    BY <1>3 DEF StatusAnswered
  <2>2. a.known \in BOOLEAN /\ a.limits \in Limits \cup {NoLimits}
    BY AnswerTypes
  <2>3. run' \in RunRec
    BY <1>1, <2>1, <2>2 DEF RunRec
  <2> QED BY <1>1, <1>3, <2>3 DEF StatusAnswered
<1>4. CASE StatusFails
  <2>1. st' = [st EXCEPT !.online = FALSE] /\ run' = Awaiting("await")
        /\ UNCHANGED <<environment, override, conf, ver, verify>>
    BY <1>4 DEF StatusFails
  <2>2. st' \in StateRec
    BY <1>1, <2>1 DEF StateRec
  <2> QED BY <1>1, <1>2, <2>1, <2>2
<1>5. CASE ComesOnline
  <2> DEFINE l == IF run.known THEN run.limits ELSE st.caps.simulate
             k == [st EXCEPT !.limitsKnown = run.known, !.caps.simulate = l]
  <2>1. st' = WithRound(k, run.round)
    BY <1>1, <1>5 DEF ComesOnline, StateRec
  <2>2. l \in Limits \cup {NoLimits}
    BY <1>1
  <2> HIDE DEF l
  <2>3. k \in StateRec
    BY <1>1, <2>2, LearntType
  <2> HIDE DEF k
  <2>4. st' \in StateRec
    BY <1>1, <2>1, <2>3, WithRoundType
  <2>5. /\ run' = Awaiting("watch") /\ verify' = TRUE
        /\ UNCHANGED <<environment, override, conf, ver>>
    BY <1>5 DEF ComesOnline
  <2> QED BY <1>2, <2>4, <2>5
<1>6. CASE WaitAnswered
  <2>1. PICK a \in LimitsAnswer :
          run' = [pc |-> "round", round |-> node.tip,
                  known |-> st.limitsKnown \/ a.known, limits |-> a.limits]
    BY <1>6 DEF WaitAnswered, LimitsAnswer
  <2>2. a.known \in BOOLEAN /\ a.limits \in Limits \cup {NoLimits}
    BY AnswerTypes
  <2>3. run' \in RunRec
    BY <1>1, <2>1, <2>2 DEF RunRec
  <2> QED BY <1>1, <1>6, <2>3 DEF WaitAnswered
<1>7. CASE NewRound
  <2> DEFINE l == run.limits
             n == [st EXCEPT !.limitsKnown = TRUE, !.caps.simulate = l]
             k == IF run.known /\ ~st.limitsKnown THEN n ELSE st
  <2>1. st' = WithRound(k, run.round)
    BY <1>7 DEF NewRound
  <2> HIDE DEF l
  <2>2. n \in StateRec
    BY <1>1, LearntType DEF l
  <2> HIDE DEF n
  <2>3. k \in StateRec
    BY <1>1, <2>2
  <2> HIDE DEF k
  <2>4. st' \in StateRec
    BY <1>1, <2>1, <2>3, WithRoundType
  <2>5. run' = Awaiting("watch") /\ UNCHANGED <<environment, override, conf, ver, verify>>
    BY <1>7 DEF NewRound
  <2> QED BY <1>1, <1>2, <2>4, <2>5
<1> QED BY <1>3, <1>4, <1>5, <1>6, <1>7 DEF Follow

LEMMA ReconfigureTypes ==
  ASSUME TypeOK, Reconfigure
  PROVE  /\ st' \in StateRec /\ conf' \in {"idle", "changed"} /\ verify' \in BOOLEAN
         /\ UNCHANGED <<environment, override, run, ver>>
<1>1. st \in StateRec /\ verify \in BOOLEAN /\ file \in Configs /\ override \in Overrides
  BY Types
<1>2. CASE ConfigDiffers
  BY <1>1, <1>2 DEF ConfigDiffers
<1>3. CASE ReadConfig
  <2>1. [st EXCEPT !.configOK = FALSE] \in StateRec
    BY <1>1 DEF StateRec
  <2>2. WithConfig(st, file) \in StateRec
    BY <1>1, WithConfigType
  <2>3. st' \in StateRec
    BY <1>3, <2>1, <2>2 DEF ReadConfig
  <2> QED BY <1>3, <2>3 DEF ReadConfig
<1> QED BY <1>2, <1>3 DEF Reconfigure

LEMMA RefreshAppliesTypes ==
  ASSUME TypeOK, RefreshApplies
  PROVE  st' \in StateRec
<1>1. /\ st \in StateRec /\ ver.limits \in Limits \cup {NoLimits} /\ override \in Overrides
      /\ st.caps \in CapsType /\ st.last \in Nat
  BY Types DEF VerRec, StateRec
<1> DEFINE l == ver.limits
           c == [st.caps EXCEPT !.simulate = l]
           k == Apply(override, c, st.last)
<1>2. st' = [st EXCEPT !.limitsKnown = TRUE, !.caps = k]
  BY DEF RefreshApplies
<1>3. c \in CapsType
  BY <1>1 DEF CapsType
<1> HIDE DEF c
<1>4. k \in CapsType
  BY <1>1, <1>3, ApplyType
<1> HIDE DEF k
<1> QED BY <1>1, <1>2, <1>4 DEF StateRec

-----------------------------------------------------------------------------
(* Theorems.                                                               *)

LEMMA MonitorInit == Init => MonitorInv
<1> SUFFICES ASSUME Init PROVE MonitorInv
  OBVIOUS
<1>1. PICK n \in Nodes, l \in Limits :
        node = [up |-> TRUE, tip |-> FirstRound, oldest |-> n.start, keeps |-> n.keeps, limits |-> l]
  BY DEF Init
<1>2. node \in NodeRec /\ node.oldest <= node.tip
  BY <1>1, MonitorAssumption DEF NodeRec
<1>3. NoCaps \in CapsType
  BY DEF NoCaps, CapsType, Archivals
<1>4. Unread \in StateRec
  BY <1>3 DEF Unread, StateRec
<1>5. st \in StateRec
  BY <1>4, WithConfigType DEF Init
<1>6. ver \in VerRec /\ ver.pc = "idle"
  BY IdleType DEF Init
<1>7. run \in RunRec
  BY AwaitingType DEF Init
<1>8. restarts \in 0 .. MaxRestarts
  BY MonitorAssumption DEF Init
<1>9. TypeOK
  BY <1>2, <1>5, <1>6, <1>7, <1>8, Types DEF Init
<1>10. Bracketed(ver, node)
  BY <1>6, WaitingIsBracketed DEF Waiting
<1> QED BY <1>9, <1>10 DEF MonitorInv

LEMMA MonitorStep == MonitorInv /\ [Next]_vars => MonitorInv'
<1> SUFFICES ASSUME MonitorInv, [Next]_vars PROVE MonitorInv'
  OBVIOUS
<1>1. /\ TypeOK /\ Bracketed(ver, node)
      /\ node \in NodeRec /\ file \in Configs /\ override \in Overrides
      /\ st \in StateRec /\ run \in RunRec /\ conf \in {"idle", "changed"}
      /\ ver \in VerRec /\ verify \in BOOLEAN /\ restarts \in 0 .. MaxRestarts
      /\ node.oldest <= node.tip /\ node.oldest \in Nat /\ node.tip \in Nat
  BY Types DEF MonitorInv, NodeRec
<1> SUFFICES
      /\ node' \in NodeRec /\ file' \in Configs /\ override' \in Overrides
      /\ st' \in StateRec /\ run' \in RunRec /\ conf' \in {"idle", "changed"}
      /\ ver' \in VerRec /\ verify' \in BOOLEAN /\ restarts' \in 0 .. MaxRestarts
      /\ node'.oldest <= node'.tip /\ Bracketed(ver', node')
  BY DEF MonitorInv, TypeOK, NodeRec, StateRec, RunRec, VerRec
<1>2. CASE NodeRound
  <2>1. Bracketed(ver, node')
    BY <1>1, <1>2, NodeRoundFields, NodeMoves
  <2> QED BY <1>1, <1>2, <2>1, NodeRoundFields DEF NodeRound
<1>3. CASE NodeStops
  <2>1. /\ node' \in NodeRec /\ node'.oldest = node.oldest /\ node'.tip = node.tip
        /\ restarts' \in 0 .. MaxRestarts
    BY <1>1, <1>3, NodeStopsFields
  <2>2. Bracketed(ver, node')
    BY <1>1, <2>1, NodeMoves
  <2> QED BY <1>1, <1>3, <2>1, <2>2 DEF NodeStops
<1>4. CASE NodeStarts
  <2>1. Bracketed(ver, node')
    BY <1>1, <1>4, NodeStartsFields, NodeMoves
  <2> QED BY <1>1, <1>4, <2>1, NodeStartsFields DEF NodeStarts
<1>5. CASE Follow
  BY <1>1, <1>5, FollowTypes DEF environment
<1>6. CASE Reconfigure
  BY <1>1, <1>6, ReconfigureTypes DEF environment
<1>7. CASE VerifyAsked
  <2>1. Begins(FALSE) /\ verify' = FALSE
    BY <1>7 DEF VerifyAsked
  <2>2. ver' \in VerRec /\ Bracketed(ver', node) /\ st' \in StateRec
    BY <1>1, <2>1, BeginsFields
  <2> QED BY <1>1, <2>1, <2>2 DEF Begins, environment
<1>8. CASE VerifyTick
  <2>1. Begins(TRUE) /\ verify' = verify
    BY <1>8 DEF VerifyTick
  <2>2. ver' \in VerRec /\ Bracketed(ver', node) /\ st' \in StateRec
    BY <1>1, <2>1, BeginsFields
  <2> QED BY <1>1, <2>1, <2>2 DEF Begins, environment
<1>9. CASE Asks
  <2>1. ver' \in VerRec /\ Bracketed(ver', node)
    BY <1>9, CheckEdgeFields, ProbeFields DEF Asks
  <2> QED BY <1>1, <1>9, <2>1 DEF Asks, environment
<1>10. CASE SearchEnds
  <2>1. ver' \in VerRec /\ Bracketed(ver', node)
    BY <1>10, SearchEndsFields
  <2> QED BY <1>1, <1>10, <2>1 DEF SearchEnds, environment
<1>11. CASE VerifyFails
  <2>1. ver' \in VerRec /\ Bracketed(ver', node)
    BY <1>1, <1>11, OverType, WaitingIsBracketed DEF VerifyFails
  <2> QED BY <1>1, <1>11, <2>1 DEF VerifyFails, environment
<1>12. CASE VerifyApplies
  <2>1. ver' \in VerRec /\ Bracketed(ver', node)
    BY <1>1, <1>12, OverType, WaitingIsBracketed DEF VerifyApplies
  <2>2. ver.hi \in Nat
    BY <1>1 DEF VerRec
  <2>3. st' \in StateRec
    BY <1>1, <1>12, <2>2, NarrowedType DEF VerifyApplies
  <2> QED BY <1>1, <1>12, <2>1, <2>3 DEF VerifyApplies, environment
<1>13. CASE RefreshLimits
  <2>1. ver' \in VerRec /\ Bracketed(ver', node)
    BY <1>1, <1>13, RefreshLimitsFields
  <2> QED BY <1>1, <1>13, <2>1 DEF RefreshLimits, environment
<1>14. CASE RefreshApplies
  <2>1. ver' \in VerRec /\ Bracketed(ver', node)
    BY <1>14, IdleType, WaitingIsBracketed DEF RefreshApplies, Waiting
  <2>2. st' \in StateRec
    BY <1>1, <1>14, RefreshAppliesTypes
  <2> QED BY <1>1, <1>14, <2>1, <2>2 DEF RefreshApplies, environment
<1>15. CASE UNCHANGED vars
  BY <1>1, <1>15 DEF vars
<1>16. CASE Measure
  BY <1>9, <1>10, <1>11, <1>12, <1>13, <1>14, <1>16 DEF Measure
<1> QED BY <1>2, <1>3, <1>4, <1>5, <1>6, <1>7, <1>8, <1>15, <1>16 DEF Next

\* Every measurement stays bracketed by the rounds it has asked for.
THEOREM MonitorInvariant == Spec => []MonitorInv
BY MonitorInit, MonitorStep, PTL DEF Spec

\* Types hold of every behaviour of the monitor, for any node, data directory and
\* override.
THEOREM MonitorTypeCorrect == Spec => []TypeOK
<1>1. MonitorInv => TypeOK
  BY DEF MonitorInv
<1> QED BY <1>1, MonitorInvariant, PTL

\* Whatever the node prunes and loses while it is searched, and whatever the state
\* has become, the oldest round verifyOldest comes to lies between the node's oldest
\* block when it began and its oldest block of now, and no block that was gone at
\* the beginning is claimed afterwards (ProbeOldestRound, checkEdge, verifyOldest).
THEOREM MeasuredTrulyHolds == Spec => MeasuredTruly
<1>1. ASSUME MonitorInv, [Next]_vars, ver.pc = "apply", ver'.pc # "apply"
      PROVE  ver.from <= ver.hi /\ ver.hi <= node.oldest /\ st'.caps.oldest >= ver.from
  <2>1. /\ TypeOK /\ st \in StateRec /\ ver \in VerRec /\ ver.from <= ver.hi
        /\ ver.hi <= node.oldest /\ ver.hi \in Nat /\ ver.from \in Nat
    BY <1>1, Types DEF MonitorInv, Bracketed, VerRec
  <2>2. VerifyApplies
    BY <1>1 DEF Next, vars, NodeRound, NodeStops, NodeStarts, Follow, StatusAnswered, StatusFails,
       ComesOnline, WaitAnswered, NewRound, Reconfigure, ConfigDiffers, ReadConfig, VerifyAsked,
       VerifyTick, Begins, Measure, Asks, CheckEdge, Probe, SearchEnds, VerifyFails,
       RefreshLimits, RefreshApplies
  <2>3. st' = Narrowed(st, ver.hi)
    BY <2>2 DEF VerifyApplies
  <2>4. st'.caps.oldest >= ver.hi /\ st' \in StateRec
    BY <2>1, <2>3, NarrowedType
  <2>5. st'.caps.oldest \in Nat
    BY <2>4 DEF StateRec, CapsType
  <2> QED BY <2>1, <2>4, <2>5
<1>2. MonitorInv /\ [Next]_vars =>
        [ver.pc = "apply" /\ ver'.pc # "apply" =>
           ver.from <= ver.hi /\ ver.hi <= node.oldest /\ st'.caps.oldest >= ver.from]_vars
  BY <1>1
<1> QED BY <1>2, MonitorInvariant, PTL DEF Spec, MeasuredTruly
=============================================================================
