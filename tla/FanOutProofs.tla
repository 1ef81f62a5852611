---------------------------- MODULE FanOutProofs ----------------------------
(***************************************************************************)
(* The two generations of txnPins implement PinTable, and what handlers of *)
(* transactions tell their clients and remember is right, for any set of   *)
(* transactions, nodes, handlers and selections and any TTL.               *)
(***************************************************************************)
EXTENDS FanOut, FiniteSetTheorems, SequenceTheorems, TLAPS

-----------------------------------------------------------------------------
(* The pins.                                                               *)


(***************************************************************************)
(* A pin of the current generation was remembered after the last rotation, *)
(* and when the generation was less than TTL old; one that only the        *)
(* previous generation has was moved there when it was less than 2 * TTL   *)
(* old.  That is all that is needed to bound a pin's life from both sides. *)
(***************************************************************************)
PinInv ==
  /\ cur \in [Txns -> Nodes \cup {None}] /\ prev \in [Txns -> Nodes \cup {None}]
  /\ since \in Nat /\ since <= 2 * TTL
  /\ age \in [Txns -> Nat]
  /\ \A t \in Txns : age[t] <= 3 * TTL
  /\ \A t \in Txns : cur[t] # None =>
       age[t] + TTL > since /\ (since < 2 * TTL => age[t] <= since)
  /\ \A t \in Txns : prev[t] # None /\ cur[t] = None =>
       age[t] >= since /\ (since < TTL => age[t] < 2 * TTL + since)

\* What rotate leaves satisfies the invariant too, shows the same pins and is
\* younger than TTL.
LEMMA RotatedOK ==
  ASSUME PinInv
  PROVE  /\ Rotated[1] \in [Txns -> Nodes \cup {None}]
         /\ Rotated[2] \in [Txns -> Nodes \cup {None}]
         /\ Rotated[3] \in Nat /\ Rotated[3] < TTL
         /\ \A t \in Txns : Rotated[1][t] # None => age[t] <= Rotated[3]
         /\ \A t \in Txns : Rotated[2][t] # None /\ Rotated[1][t] = None =>
              age[t] >= Rotated[3] /\ age[t] < 2 * TTL + Rotated[3]
<1>1. TTL \in Nat /\ TTL > 0 /\ None \notin Nodes
  BY PinsAssumption
<1>2. CASE since >= 2 * TTL
  <2>1. Rotated = <<Empty, Empty, 0>>
    BY <1>2 DEF Rotated
  <2> QED BY <1>1, <2>1 DEF Empty
<1>3. CASE since < 2 * TTL /\ since >= TTL
  <2>1. Rotated = <<Empty, cur, 0>>
    BY <1>1, <1>3 DEF Rotated, PinInv
  <2>2. Rotated[1] = Empty /\ Rotated[2] = cur /\ Rotated[3] = 0
    BY <2>1
  <2>3. \A t \in Txns : cur[t] # None => age[t] >= 0 /\ age[t] < 2 * TTL
    BY <1>1, <1>3 DEF PinInv
  <2> QED BY <1>1, <2>2, <2>3 DEF Empty, PinInv
<1>4. CASE since < TTL
  <2>1. Rotated = <<cur, prev, since>>
    BY <1>1, <1>4 DEF Rotated, PinInv
  <2>2. Rotated[1] = cur /\ Rotated[2] = prev /\ Rotated[3] = since
    BY <2>1
  <2> QED BY <1>1, <1>4, <2>2 DEF PinInv
<1> QED BY <1>1, <1>2, <1>3, <1>4 DEF PinInv

\* Rotating once more changes nothing: what is shown after rotate is what its
\* generations hold.
LEMMA ShownAfterRotation ==
  ASSUME PinInv, since' = Rotated[3]
  PROVE  \A t \in Txns : Recalled(t)' = IF cur'[t] # None THEN cur'[t] ELSE prev'[t]
<1>1. since' \in Nat /\ since' < TTL
  BY RotatedOK
<1>2. TTL \in Nat
  BY PinsAssumption
<1>3. ~(since' >= 2 * TTL) /\ ~(since' >= TTL)
  BY <1>1, <1>2
<1>4. Rotated' = <<cur', prev', since'>>
  BY <1>3 DEF Rotated
<1>5. Rotated'[1] = cur' /\ Rotated'[2] = prev'
  BY <1>4
<1> QED BY <1>5 DEF Recalled

LEMMA PinInvInit == PinsInit => PinInv
BY PinsAssumption DEF PinsInit, PinInv, Empty

LEMMA AgeShows ==
  ASSUME PinInv, PinsAge, NEW t \in Txns
  PROVE  /\ Recalled(t)' \in {None, Recalled(t)}
         /\ Recalled(t) # None /\ Recalled(t)' = None => age[t] + 1 >= TTL
         /\ Recalled(t)' # None => age[t] + 1 < 3 * TTL
         /\ Recalled(t)' = None => /\ cur[t] # None => since' >= 2 * TTL
                                   /\ prev[t] # None => since' >= TTL \/ cur[t] # None
<1>a. TTL \in Nat /\ TTL > 0 /\ None \notin Nodes
  BY PinsAssumption
<1>b. /\ cur' = cur /\ prev' = prev
      /\ since' = IF since < 2 * TTL THEN since + 1 ELSE since
  BY DEF PinsAge
<1>c. since' \in Nat /\ since' <= 2 * TTL
  BY <1>a, <1>b DEF PinInv
<1>1. CASE since' >= 2 * TTL
  <2>1. Rotated' = <<Empty', Empty', 0>>
    BY <1>1 DEF Rotated
  <2>2. Recalled(t)' = None
    BY <2>1 DEF Recalled, Empty
  <2>3. CASE since >= 2 * TTL
    <3>1. Rotated = <<Empty, Empty, 0>>
      BY <2>3 DEF Rotated
    <3>2. Recalled(t) = None
      BY <3>1 DEF Recalled, Empty
    <3> QED BY <1>a, <1>c, <1>1, <2>2, <3>2
  <2>4. CASE since < 2 * TTL
    <3>1. since >= TTL /\ since' = since + 1 /\ since' = 2 * TTL
      BY <1>a, <1>b, <1>1, <2>4 DEF PinInv
    <3>2. Rotated = <<Empty, cur, 0>>
      BY <1>a, <2>4, <3>1 DEF Rotated, PinInv
    <3>3. Recalled(t) = cur[t]
      BY <3>2 DEF Recalled, Empty
    <3>5. age[t] \in Nat /\ since \in Nat
      BY DEF PinInv
    <3>4. cur[t] # None => age[t] + 1 + TTL > 2 * TTL
      BY <1>a, <3>1, <3>5 DEF PinInv
    <3> QED BY <1>a, <1>c, <1>1, <2>2, <3>3, <3>4, <3>5
  <2> QED BY <1>a, <2>3, <2>4 DEF PinInv
<1>2. CASE since' < 2 * TTL /\ since' >= TTL
  <2>1. Rotated' = <<Empty', cur, 0>>
    BY <1>a, <1>b, <1>2 DEF Rotated, PinInv
  <2>2. Recalled(t)' = cur[t]
    BY <2>1 DEF Recalled, Empty
  <2>3. since < 2 * TTL /\ since' = since + 1
    BY <1>a, <1>b, <1>2 DEF PinInv
  <2>4. cur[t] # None => age[t] + 1 < 3 * TTL
    BY <1>a, <1>b, <1>2 DEF PinInv
  <2>5. CASE since >= TTL
    <3>1. Rotated = <<Empty, cur, 0>>
      BY <1>a, <2>3, <2>5 DEF Rotated, PinInv
    <3>2. Recalled(t) = cur[t]
      BY <3>1 DEF Recalled, Empty
    <3> QED BY <1>2, <2>2, <2>4, <3>2
  <2>6. CASE since < TTL
    <3>1. Rotated = <<cur, prev, since>>
      BY <1>a, <2>3, <2>6 DEF Rotated, PinInv
    <3>2. Recalled(t) = IF cur[t] # None THEN cur[t] ELSE prev[t]
      BY <3>1 DEF Recalled
    <3>3. cur[t] = None /\ prev[t] # None => age[t] + 1 >= TTL
      BY <1>a, <1>b, <1>2 DEF PinInv
    <3> QED BY <1>2, <2>2, <2>4, <3>2, <3>3
  <2> QED BY <1>a, <2>5, <2>6 DEF PinInv
<1>3. CASE since' < TTL
  <2>1. since < TTL /\ since < 2 * TTL /\ since' = since + 1
    BY <1>a, <1>b, <1>3 DEF PinInv
  <2>2. Rotated = <<cur, prev, since>> /\ Rotated' = <<cur, prev, since'>>
    BY <1>a, <1>b, <1>3, <2>1 DEF Rotated, PinInv
  <2>3. /\ Recalled(t) = IF cur[t] # None THEN cur[t] ELSE prev[t]
        /\ Recalled(t)' = Recalled(t)
    BY <1>b, <2>2 DEF Recalled
  <2>4. Recalled(t) # None => age[t] + 1 < 3 * TTL
    BY <1>a, <1>b, <1>3, <2>1, <2>3 DEF PinInv
  <2> QED BY <2>3, <2>4
<1> QED BY <1>a, <1>c, <1>1, <1>2, <1>3

LEMMA PinInvStep == PinInv /\ [PinsNext]_pinVars => PinInv'
<1> SUFFICES ASSUME PinInv, [PinsNext]_pinVars PROVE PinInv'
  OBVIOUS
<1>1. TTL \in Nat /\ TTL > 0 /\ None \notin Nodes
  BY PinsAssumption
<1>2. ASSUME NEW t \in Txns, NEW n \in Nodes, Remember(t, n) PROVE PinInv'
  <2> DEFINE c == Rotated[1]
             p == Rotated[2]
             s == Rotated[3]
  <2>1. /\ c \in [Txns -> Nodes \cup {None}] /\ p \in [Txns -> Nodes \cup {None}]
        /\ s \in Nat /\ s < TTL
        /\ \A u \in Txns : c[u] # None => age[u] <= s
        /\ \A u \in Txns : p[u] # None /\ c[u] = None => age[u] >= s /\ age[u] < 2 * TTL + s
    BY RotatedOK
  <2>2. cur' = [c EXCEPT ![t] = n] /\ prev' = p /\ since' = s /\ age' = [age EXCEPT ![t] = 0]
    BY <1>2 DEF Remember
  <2> HIDE DEF c, p, s
  <2>3. age \in [Txns -> Nat] /\ \A u \in Txns : age[u] <= 3 * TTL
    BY DEF PinInv
  <2>4. \A u \in Txns : cur'[u] # None =>
          age'[u] + TTL > since' /\ (since' < 2 * TTL => age'[u] <= since')
    BY <1>1, <2>1, <2>2, <2>3
  <2>5. \A u \in Txns : prev'[u] # None /\ cur'[u] = None =>
          age'[u] >= since' /\ (since' < TTL => age'[u] < 2 * TTL + since')
    BY <1>1, <2>1, <2>2, <2>3
  <2>6. cur' \in [Txns -> Nodes \cup {None}] /\ prev' \in [Txns -> Nodes \cup {None}]
    BY <2>1, <2>2
  <2>7. age' \in [Txns -> Nat] /\ \A u \in Txns : age'[u] <= 3 * TTL
    BY <1>1, <2>2, <2>3
  <2>8. since' \in Nat /\ since' <= 2 * TTL
    BY <1>1, <2>1, <2>2
  <2> QED BY <2>4, <2>5, <2>6, <2>7, <2>8 DEF PinInv
<1>3. ASSUME Recall PROVE PinInv'
  <2>1. cur' = Rotated[1] /\ prev' = Rotated[2] /\ since' = Rotated[3] /\ age' = age
    BY <1>3 DEF Recall
  <2> QED BY <1>1, <2>1, RotatedOK DEF PinInv
<1>4. ASSUME PinsAge PROVE PinInv'
  <2>1. /\ cur' = cur /\ prev' = prev
        /\ since' = IF since < 2 * TTL THEN since + 1 ELSE since
    BY <1>4 DEF PinsAge
  <2>2. since' \in Nat /\ since' <= 2 * TTL /\ since' <= since + 1 /\ since' >= since
    BY <1>1, <2>1 DEF PinInv
  <2>3. age' \in [Txns -> Nat] /\ \A t \in Txns : age'[t] <= 3 * TTL
    <3>1. age' = [t \in Txns |-> IF Recalled(t)' = None THEN 3 * TTL ELSE age[t] + 1]
      BY <1>4 DEF PinsAge
    <3>2. \A t \in Txns : Recalled(t)' # None => age[t] + 1 < 3 * TTL
      BY <1>4, AgeShows
    <3>3. \A t \in Txns : age[t] \in Nat
      BY DEF PinInv
    <3> QED BY <1>1, <3>1, <3>2, <3>3
  <2>4. ASSUME NEW t \in Txns
        PROVE  /\ Recalled(t)' # None => age'[t] = age[t] + 1
               /\ Recalled(t)' = None => /\ age'[t] = 3 * TTL
                                         /\ cur[t] # None => since' >= 2 * TTL
                                         /\ prev[t] # None => since' >= TTL \/ cur[t] # None
    BY <1>4, AgeShows DEF PinsAge
  <2>5. ASSUME NEW t \in Txns, cur[t] # None
        PROVE  age'[t] + TTL > since' /\ (since' < 2 * TTL => age'[t] <= since')
    <3>1. /\ age[t] \in Nat /\ since \in Nat
          /\ age[t] + TTL > since /\ (since < 2 * TTL => age[t] <= since)
      BY <2>5 DEF PinInv
    <3> QED BY <1>1, <2>1, <2>2, <2>4, <2>5, <3>1
  <2>6. ASSUME NEW t \in Txns, prev[t] # None, cur[t] = None
        PROVE  age'[t] >= since' /\ (since' < TTL => age'[t] < 2 * TTL + since')
    <3>1. /\ age[t] \in Nat /\ since \in Nat
          /\ age[t] >= since /\ (since < TTL => age[t] < 2 * TTL + since)
      BY <2>6 DEF PinInv
    <3> QED BY <1>1, <2>1, <2>2, <2>4, <2>6, <3>1
  <2> QED BY <2>1, <2>2, <2>3, <2>5, <2>6 DEF PinInv
<1>5. CASE UNCHANGED pinVars
  BY <1>5 DEF pinVars, PinInv
<1> QED BY <1>2, <1>3, <1>4, <1>5 DEF PinsNext

\* The invariant holds in every behaviour of the table.
THEOREM PinsInvariant == PinsSpec => []PinInv
BY PinInvInit, PinInvStep, PTL DEF PinsSpec

LEMMA TableInit == PinsInit => Table!Init
<1> SUFFICES ASSUME PinsInit PROVE Table!Init
  OBVIOUS
<1>1. Rotated = <<Empty, Empty, 0>>
  BY PinsAssumption DEF PinsInit, Rotated
<1>2. \A t \in Txns : Recalled(t) = None
  BY <1>1 DEF Recalled, Empty
<1> QED BY <1>2 DEF PinsInit, Table!Init, Table!Oldest

\* What recall finds after each operation of the pins.
LEMMA RememberShows ==
  ASSUME PinInv, NEW t \in Txns, NEW n \in Nodes, Remember(t, n)
  PROVE  \A u \in Txns : Recalled(u)' = IF u = t THEN n ELSE Recalled(u)
<1> DEFINE c == [Rotated[1] EXCEPT ![t] = n]
           p == Rotated[2]
<1>1. cur' = c /\ prev' = p /\ since' = Rotated[3]
  BY DEF Remember
<1>2. \A u \in Txns : Recalled(u)' = IF c[u] # None THEN c[u] ELSE p[u]
  BY <1>1, ShownAfterRotation
<1>3. Rotated[1] \in [Txns -> Nodes \cup {None}]
  BY RotatedOK
<1>4. \A u \in Txns : Recalled(u) = IF Rotated[1][u] # None THEN Rotated[1][u] ELSE Rotated[2][u]
  BY DEF Recalled
<1> QED BY <1>2, <1>3, <1>4, PinsAssumption

LEMMA RecallShows ==
  ASSUME PinInv, Recall
  PROVE  \A u \in Txns : Recalled(u)' = Recalled(u)
<1>1. cur' = Rotated[1] /\ prev' = Rotated[2] /\ since' = Rotated[3]
  BY DEF Recall
<1>2. \A u \in Txns : Recalled(u) = IF Rotated[1][u] # None THEN Rotated[1][u] ELSE Rotated[2][u]
  BY DEF Recalled
<1> QED BY <1>1, <1>2, ShownAfterRotation

LEMMA StillShown ==
  ASSUME UNCHANGED pinVars
  PROVE  \A u \in Txns : Recalled(u)' = Recalled(u)
<1>1. UNCHANGED <<cur, prev, since, age>>
  BY DEF pinVars
<1>2. Rotated' = Rotated
  BY <1>1 DEF Rotated, Empty
<1> QED BY <1>2 DEF Recalled

LEMMA TableStep == PinInv /\ [PinsNext]_pinVars => [Table!Next]_Table!vars
<1> SUFFICES ASSUME PinInv, [PinsNext]_pinVars PROVE [Table!Next]_Table!vars
  OBVIOUS
<1>1. ASSUME NEW t \in Txns, NEW n \in Nodes, Remember(t, n) PROVE Table!Remember(t, n)
  <2>1. age' = [age EXCEPT ![t] = 0]
    BY <1>1 DEF Remember
  <2>2. \A u \in Txns : Recalled(u)' = IF u = t THEN n ELSE Recalled(u)
    BY <1>1, RememberShows
  <2> QED BY <2>1, <2>2 DEF Table!Remember
<1>2. ASSUME Recall PROVE UNCHANGED Table!vars
  <2>1. age' = age
    BY <1>2 DEF Recall
  <2>2. \A u \in Txns : Recalled(u)' = Recalled(u)
    BY <1>2, RecallShows
  <2> QED BY <2>1, <2>2 DEF Table!vars
<1>3. ASSUME PinsAge PROVE \E gone \in SUBSET Txns : Table!TimePasses(gone)
  <2> DEFINE gone == {t \in Txns : Recalled(t)' = None}
  <2>1. age' = [t \in Txns |-> IF Recalled(t)' = None THEN Table!Oldest ELSE age[t] + 1]
    BY <1>3 DEF PinsAge, Table!Oldest
  <2>2. \A t \in Txns : Recalled(t)' = IF t \in gone THEN None ELSE Recalled(t)
    BY <1>3, AgeShows
  <2>3. \A t \in Txns : Recalled(t) # None =>
          IF t \in gone THEN age[t] + 1 >= TTL ELSE age[t] + 1 < Table!Oldest
    BY <1>3, AgeShows, <2>2 DEF Table!Oldest
  <2> HIDE DEF gone
  <2>4. Table!TimePasses(gone)
    BY <2>1, <2>2, <2>3 DEF Table!TimePasses
  <2>5. gone \in SUBSET Txns
    BY DEF gone
  <2> QED BY <2>4, <2>5
<1>4. CASE UNCHANGED pinVars
  <2>1. age' = age
    BY <1>4 DEF pinVars
  <2>2. \A t \in Txns : Recalled(t)' = Recalled(t)
    BY <1>4, StillShown
  <2> QED BY <2>1, <2>2 DEF Table!vars
<1> QED BY <1>1, <1>2, <1>3, <1>4 DEF PinsNext, Table!Next

\* txnPins keeps the promise of PinTable: the last node remembered is found for
\* at least TTL whatever is remembered and looked up meanwhile, and nothing is
\* kept for 3 * TTL.
THEOREM PinsKeepTheirPromiseHolds == PinsSpec => PinsKeepTheirPromise
BY PinsInvariant, TableInit, TableStep, PTL DEF PinsSpec, PinsKeepTheirPromise, Table!Spec
-----------------------------------------------------------------------------
(* The requests.                                                           *)

(***************************************************************************)
(* A handler that collects has, for every node of its fan-out, a task that *)
(* runs, a result in the channel, or a result that it has taken; left is   *)
(* the number of the first two.  chosen is one of the last, and none of    *)
(* them is better.  The wait for a better answer is on only when chosen    *)
(* holds the transaction.  Before its fan-out a handler has collected      *)
(* nothing.                                                                *)
(***************************************************************************)
Distinct(s) == \A i, j \in DOMAIN s : i # j => s[i] # s[j]

Targets == {s \in Seq(Nodes) : Distinct(s) /\ Len(s) <= Cardinality(Nodes)}

Untaken(q) == {n \in In(q.order) : q.task[n] = "run"} \cup In(q.results)

Taken(q) == In(q.order) \ Untaken(q)

Fresh(q) ==
  /\ q.results = <<>> /\ q.chosen = None /\ ~q.grace
  /\ \A n \in Nodes : q.task[n] = "off"

AloneInv(q) ==
  q.pc \in {"forward", "pinned"} =>
    /\ Fresh(q)
    /\ q.at \in Nodes /\ q.order \in Targets
    /\ q.pc = "forward" => q.kind = "broadcast" /\ 1 <= q.left /\ q.left <= Len(q.order)
    /\ q.pc = "pinned" => q.kind = "lookup"

ExternalInv(q) ==
  q.pc = "external" =>
    /\ q.kind = "broadcast" /\ q.at \in Nodes
    /\ q.chosen \in Nodes /\ q.task[q.chosen] \in Answers

TasksInv(q) ==
  /\ \A n \in Nodes : n \in In(q.order) <=> q.task[n] # "off"
  /\ \A n \in Nodes : q.task[n] \in {"off", "run"} \cup Replies(q.kind)
  /\ Distinct(q.results)
  /\ \A n \in In(q.results) : q.task[n] \notin {"off", "run"}
  /\ IsFiniteSet(Untaken(q)) /\ q.left = Cardinality(Untaken(q))

BestInv(q) ==
  /\ q.chosen \in Taken(q) \cup {None}
  /\ Taken(q) # {} => q.chosen # None
  /\ q.kind = "broadcast" => \A n \in Taken(q) :
       q.task[n] # "ok" /\ FanRank(q.task[n]) <= FanRank(q.task[q.chosen])
  /\ q.kind = "lookup" => \A n \in Taken(q) :
       PendingRank(q.task[n]) <= PendingRank(q.task[q.chosen])
  /\ q.grace => q.kind = "lookup" /\ q.chosen # None /\ PendingRank(q.task[q.chosen]) >= 3

RequestInv(q) ==
  /\ q \in Requests
  /\ q.pc # "idle" => q.tx \in Txns
  /\ AloneInv(q) /\ ExternalInv(q)
  /\ q.pc = "collect" => TasksInv(q) /\ BestInv(q)

FanInv ==
  /\ multi \in BOOLEAN /\ failing \in [Nodes -> BOOLEAN]
  /\ req \in [Handlers -> Requests]
  /\ \A h \in Handlers : RequestInv(req[h])

\* Nodes that are all different are counted by the length of their sequence.
LEMMA Counted ==
  ASSUME NEW s \in Targets
  PROVE  IsFiniteSet(In(s)) /\ Cardinality(In(s)) = Len(s) /\ In(s) \subseteq Nodes
<1>1. s \in Seq(Nodes) /\ Distinct(s) /\ Len(s) \in Nat /\ DOMAIN s = 1 .. Len(s)
  BY DEF Targets
<1>2. s \in [1 .. Len(s) -> In(s)]
  BY <1>1 DEF In
<1>3. s \in Bijection(1 .. Len(s), In(s))
  <2>1. \A i, j \in 1 .. Len(s) : s[i] = s[j] => i = j
    BY <1>1 DEF Distinct
  <2>2. \A n \in In(s) : \E i \in 1 .. Len(s) : s[i] = n
    BY <1>1 DEF In
  <2>3. s \in Injection(1 .. Len(s), In(s))
    BY <1>2, <2>1 DEF Injection, IsInjective
  <2>4. s \in Surjection(1 .. Len(s), In(s))
    BY <1>2, <2>2 DEF Surjection
  <2> QED BY <2>3, <2>4 DEF Bijection
<1>4. IsFiniteSet(1 .. Len(s)) /\ Cardinality(1 .. Len(s)) = Len(s)
  BY <1>1, FS_Interval
<1>5. ExistsBijection(1 .. Len(s), In(s))
  BY <1>3 DEF ExistsBijection
<1>6. In(s) \subseteq Nodes
  BY <1>1 DEF In
<1> QED BY <1>4, <1>5, <1>6, FS_Bijection

LEMMA CountOfNodes == IsFiniteSet(Nodes) /\ Cardinality(Nodes) \in Nat
BY FanAssumption, FS_CardinalityType

LEMMA SelectionOK ==
  ASSUME NEW s \in Selections
  PROVE  s \in Targets /\ Len(s) >= 1
<1>1. PICK k \in 1 .. Cardinality(Nodes) :
        s \in [1 .. k -> Nodes] /\ \A i, j \in 1 .. k : i # j => s[i] # s[j]
  BY FanAssumption
<1>2. s \in Seq(Nodes) /\ Len(s) = k
  BY <1>1, CountOfNodes
<1> QED BY <1>1, <1>2, CountOfNodes DEF Targets, Distinct

LEMMA MeshFirstOK ==
  ASSUME NEW s \in Selections
  PROVE  MeshFirst(s) \in Targets
<1>1. s \in Targets
  BY SelectionOK
<1> DEFINE k == Cardinality(In(s) \cap Mesh)
<1>2. k \in Nat /\ k <= Len(s)
  <2>1. IsFiniteSet(In(s)) /\ Cardinality(In(s)) = Len(s)
    BY <1>1, Counted
  <2>2. IsFiniteSet(In(s) \cap Mesh) /\ k <= Cardinality(In(s))
    BY <2>1, FS_Subset
  <2> QED BY <2>1, <2>2, FS_CardinalityType
<1>3. SubSeq(s, 1, k) \in Targets
  <2> HIDE DEF k
  <2>1. s \in Seq(Nodes) /\ Len(s) \in Nat
    BY <1>1 DEF Targets
  <2>2. SubSeq(s, 1, k) \in Seq(Nodes) /\ Len(SubSeq(s, 1, k)) = k
    BY <1>2, <2>1
  <2>3. \A i \in 1 .. k : SubSeq(s, 1, k)[i] = s[i]
    BY <1>2, <2>1
  <2>4. Distinct(SubSeq(s, 1, k))
    BY <1>1, <1>2, <2>1, <2>2, <2>3 DEF Distinct, Targets
  <2> QED BY <1>1, <1>2, <2>2, <2>4, CountOfNodes, <2>1 DEF Targets
<1> QED BY <1>1, <1>3 DEF MeshFirst

LEMMA WithoutOK ==
  ASSUME NEW s \in Selections, NEW n \in In(s)
  PROVE  Without(s, n) \in Targets
<1>1. s \in Seq(Nodes) /\ Distinct(s) /\ Len(s) <= Cardinality(Nodes) /\ Len(s) \in Nat /\ Len(s) >= 1
  BY SelectionOK DEF Targets
<1>2. Pos(s, n) \in DOMAIN s /\ DOMAIN s = 1 .. Len(s)
  BY <1>1 DEF Pos, In
<1> DEFINE p == Pos(s, n)
           w == Without(s, n)
<1>3. w = [i \in 1 .. Len(s) - 1 |-> IF i < p THEN s[i] ELSE s[i + 1]]
  BY DEF Without
<1>4. p \in 1 .. Len(s)
  BY <1>2
<1> HIDE DEF p, w
<1>5. w \in [1 .. Len(s) - 1 -> Nodes]
  BY <1>1, <1>3, <1>4
<1>6. w \in Seq(Nodes) /\ Len(w) = Len(s) - 1
  BY <1>1, <1>5
<1>7. Distinct(w)
  <2> SUFFICES ASSUME NEW i \in 1 .. Len(s) - 1, NEW j \in 1 .. Len(s) - 1, i < j
               PROVE  w[i] # w[j]
    BY <1>1, <1>5 DEF Distinct
  <2> DEFINE a == IF i < p THEN i ELSE i + 1
             b == IF j < p THEN j ELSE j + 1
  <2>1. a \in 1 .. Len(s) /\ b \in 1 .. Len(s) /\ a # b
    BY <1>1, <1>4
  <2>2. w[i] = s[a] /\ w[j] = s[b]
    BY <1>3
  <2> HIDE DEF a, b
  <2> QED BY <1>1, <1>2, <2>1, <2>2 DEF Distinct
<1> QED BY <1>1, <1>6, <1>7, CountOfNodes DEF Targets, w

LEMMA NoRequestOK == NoRequest \in Requests /\ RequestInv(NoRequest)
BY CountOfNodes DEF NoRequest, Requests, RequestInv, AloneInv, ExternalInv, Answers

\* A request that is fanned out starts with all its tasks running.
LEMMA FannedOK ==
  ASSUME NEW q \in Requests, q.tx \in Txns, Fresh(q), NEW s \in Targets
  PROVE  RequestInv(Fanned(q, s))
<1> DEFINE f == Fanned(q, s)
           t == [n \in Nodes |-> IF n \in In(s) THEN "run" ELSE "off"]
<1>1. s \in Seq(Nodes) /\ In(s) \subseteq Nodes /\ Len(s) \in 0 .. Cardinality(Nodes)
  BY Counted, CountOfNodes DEF Targets
<1>2. t \in [Nodes -> Answers \cup {"off", "run"}]
  OBVIOUS
<1>3. /\ f = [q EXCEPT !.pc = "collect", !.order = s, !.left = Len(s), !.at = None, !.task = t]
  BY DEF Fanned
<1> HIDE DEF f, t
<1>4. /\ f \in Requests
      /\ f.pc = "collect" /\ f.order = s /\ f.left = Len(s) /\ f.task = t /\ f.tx = q.tx
      /\ f.results = q.results /\ f.chosen = q.chosen /\ f.grace = q.grace /\ f.kind = q.kind
  BY <1>1, <1>2, <1>3 DEF Requests
<1>5. f.results = <<>> /\ f.chosen = None /\ ~f.grace
  BY <1>4 DEF Fresh
<1>6. In(f.results) = {}
  BY <1>5 DEF In
<1>7. \A n \in Nodes : t[n] = IF n \in In(s) THEN "run" ELSE "off"
  BY DEF t
<1>8. Untaken(f) = In(s)
  BY <1>1, <1>4, <1>6, <1>7 DEF Untaken
<1>9. TasksInv(f)
  <2>1. IsFiniteSet(Untaken(f)) /\ f.left = Cardinality(Untaken(f))
    BY <1>4, <1>8, Counted
  <2>2. Distinct(f.results)
    BY <1>5 DEF Distinct
  <2> QED BY <1>4, <1>6, <1>7, <2>1, <2>2 DEF TasksInv
<1>10. Taken(f) = {}
  BY <1>4, <1>8 DEF Taken
<1>11. BestInv(f)
  BY <1>5, <1>10 DEF BestInv
<1> QED BY <1>4, <1>9, <1>11 DEF RequestInv, AloneInv, ExternalInv, f

\* What a handler leaves behind when it returns.
LEMMA ReturnOK ==
  ASSUME NEW q \in Requests, NEW told \in Answers \cup {"none"}
  PROVE  /\ RequestInv(Return(q, told))
         /\ Return(q, told).pc = "idle" /\ Return(q, told).told = told
<1> DEFINE t == [n \in Nodes |-> IF q.task[n] = "run" THEN "run" ELSE "off"]
           x == IF \E n \in Nodes : q.task[n] = "run" THEN q.tx ELSE None
           z == NoRequest
           r == Return(q, told)
<1>1. t \in [Nodes -> Answers \cup {"off", "run"}] /\ x \in Txns \cup {None} /\ q.kind \in {"broadcast", "lookup"}
  BY DEF Requests
<1>2. z \in Requests /\ z.pc = "idle"
  BY NoRequestOK DEF NoRequest
<1>3. r = [z EXCEPT !.kind = q.kind, !.told = told, !.tx = x, !.task = t]
  BY DEF Return
<1> HIDE DEF t, x, z, r
<1>4. r \in Requests /\ r.pc = "idle" /\ r.told = told
  BY <1>1, <1>2, <1>3 DEF Requests
<1>5. RequestInv(r)
  BY <1>4 DEF RequestInv, AloneInv, ExternalInv
<1> QED BY <1>4, <1>5 DEF r

LEMMA RepliesAreAnswers ==
  ASSUME NEW kind \in {"broadcast", "lookup"}
  PROVE  Replies(kind) \subseteq Answers /\ "off" \notin Replies(kind) /\ "run" \notin Replies(kind)
BY FanAssumption DEF Replies, Answers, Unanswered

LEMMA RanksAreNumbers == \A a : FanRank(a) \in Nat /\ PendingRank(a) \in Nat
BY DEF FanRank, PendingRank

\* A task that ends moves its node from the running ones to the channel.
LEMMA AnsweredOK ==
  ASSUME NEW q \in Requests, RequestInv(q), q.pc # "idle",
         NEW n \in Nodes, q.task[n] = "run", NEW a \in Replies(q.kind)
  PROVE  RequestInv([q EXCEPT !.task[n] = a, !.results = Append(@, n)])
<1> DEFINE t == [q.task EXCEPT ![n] = a]
           c == Append(q.results, n)
           r == [q EXCEPT !.task[n] = a, !.results = Append(@, n)]
<1>1. /\ q.task \in [Nodes -> Answers \cup {"off", "run"}] /\ q.results \in Seq(Nodes)
      /\ q.kind \in {"broadcast", "lookup"} /\ q.order \in Seq(Nodes)
  BY DEF Requests
<1>2. a \in Answers /\ a # "off" /\ a # "run"
  BY <1>1, RepliesAreAnswers
<1>3. /\ t \in [Nodes -> Answers \cup {"off", "run"}]
      /\ \A m \in Nodes : t[m] = IF m = n THEN a ELSE q.task[m]
  BY <1>1, <1>2
<1>4. /\ c \in Seq(Nodes) /\ Len(c) = Len(q.results) + 1 /\ c[Len(q.results) + 1] = n
      /\ \A i \in 1 .. Len(q.results) : c[i] = q.results[i]
      /\ DOMAIN q.results = 1 .. Len(q.results) /\ Len(q.results) \in Nat /\ DOMAIN c = 1 .. Len(c)
  BY <1>1, AppendProperties
<1>5. r = [q EXCEPT !.task = t, !.results = c]
  BY <1>1 DEF Requests
<1> HIDE DEF t, c, r
<1>6. In(c) = In(q.results) \cup {n}
  <2>1. ASSUME NEW m \in In(c) PROVE m \in In(q.results) \cup {n}
    <3>1. PICK i \in DOMAIN c : m = c[i]
      BY DEF In
    <3>2. i \in DOMAIN q.results \/ i = Len(q.results) + 1
      BY <1>4
    <3> QED BY <1>4, <3>1, <3>2 DEF In
  <2>2. In(q.results) \subseteq In(c)
    <3> SUFFICES ASSUME NEW i \in DOMAIN q.results PROVE \E j \in DOMAIN c : c[j] = q.results[i]
      BY DEF In
    <3>1. i \in DOMAIN c /\ c[i] = q.results[i]
      BY <1>4
    <3> QED BY <3>1
  <2>3. n \in In(c)
    <3>1. Len(q.results) + 1 \in DOMAIN c
      BY <1>4
    <3> QED BY <1>4, <3>1 DEF In
  <2> QED BY <2>1, <2>2, <2>3
<1>7. /\ r \in Requests
      /\ r.pc = q.pc /\ r.kind = q.kind /\ r.tx = q.tx /\ r.order = q.order /\ r.at = q.at
      /\ r.chosen = q.chosen /\ r.left = q.left /\ r.grace = q.grace
      /\ r.task = t /\ r.results = c
  BY <1>3, <1>4, <1>5 DEF Requests
<1>8. q.pc \notin {"forward", "pinned"}
  BY DEF RequestInv, AloneInv, Fresh
<1>9. ExternalInv(r)
  BY <1>2, <1>3, <1>7 DEF RequestInv, ExternalInv
<1>10. ASSUME q.pc = "collect" PROVE TasksInv(r) /\ BestInv(r)
  <2>1. TasksInv(q) /\ BestInv(q)
    BY <1>10 DEF RequestInv
  <2>2. n \in In(q.order) /\ n \notin In(q.results)
    BY <2>1 DEF TasksInv
  <2>3. In(q.order) \subseteq Nodes /\ In(q.results) \subseteq Nodes
    BY <1>1 DEF In
  <2>4. Untaken(r) = Untaken(q)
    BY <1>2, <1>3, <1>6, <1>7, <2>2, <2>3 DEF Untaken
  <2>5. Taken(r) = Taken(q)
    BY <1>7, <2>4 DEF Taken
  <2>6. n \notin Taken(q)
    BY <2>2 DEF Taken, Untaken
  <2>7. Distinct(c)
    <3> SUFFICES ASSUME NEW i \in 1 .. Len(c), NEW j \in 1 .. Len(c), i < j PROVE c[i] # c[j]
      BY <1>4 DEF Distinct
    <3>1. i \in DOMAIN q.results /\ c[i] = q.results[i]
      BY <1>4
    <3>2. CASE j = Len(q.results) + 1
      BY <1>4, <2>2, <3>1, <3>2 DEF In
    <3>3. CASE j # Len(q.results) + 1
      <4>1. j \in DOMAIN q.results /\ c[j] = q.results[j]
        BY <1>4, <3>3
      <4> QED BY <2>1, <3>1, <4>1 DEF TasksInv, Distinct
    <3> QED BY <3>2, <3>3
  <2>8. TasksInv(r)
    <3>1. \A m \in Nodes : m \in In(r.order) <=> r.task[m] # "off"
      BY <1>2, <1>3, <1>7, <2>1, <2>2 DEF TasksInv
    <3>2. \A m \in Nodes : r.task[m] \in {"off", "run"} \cup Replies(r.kind)
      BY <1>3, <1>7, <2>1 DEF TasksInv
    <3>3. \A m \in In(r.results) : r.task[m] \notin {"off", "run"}
      BY <1>2, <1>3, <1>6, <1>7, <2>1, <2>3 DEF TasksInv
    <3>4. IsFiniteSet(Untaken(r)) /\ r.left = Cardinality(Untaken(r))
      BY <1>7, <2>1, <2>4 DEF TasksInv
    <3> QED BY <1>7, <2>7, <3>1, <3>2, <3>3, <3>4 DEF TasksInv
  <2>9. \A m \in Taken(q) : r.task[m] = q.task[m]
    BY <1>3, <1>7, <2>3, <2>6 DEF Taken
  <2>10. r.chosen # None => r.task[r.chosen] = q.task[q.chosen]
    BY <1>7, <2>1, <2>9 DEF BestInv
  <2>11. \A m \in Taken(r) : r.chosen # None
    BY <1>7, <2>1, <2>5 DEF BestInv
  <2>12. BestInv(r)
    BY <1>7, <2>1, <2>5, <2>9, <2>10, <2>11 DEF BestInv
  <2> QED BY <2>8, <2>12
<1> QED BY <1>7, <1>8, <1>9, <1>10 DEF RequestInv, AloneInv, r

\* The next result is one of those to come, and the last of them when left is 1.
LEMMA HeadOK ==
  ASSUME NEW q \in Requests, RequestInv(q), q.pc = "collect", q.results # <<>>,
         NEW n, n = Head(q.results)
  PROVE  /\ n \in Nodes /\ n \in In(q.order) /\ n \in In(q.results)
         /\ q.task[n] \in Replies(q.kind) /\ q.task[n] \in Answers
         /\ Tail(q.results) \in Seq(Nodes) /\ Distinct(Tail(q.results))
         /\ In(Tail(q.results)) = In(q.results) \ {n}
         /\ q.left - 1 \in 0 .. Cardinality(Nodes)
         /\ q.left = 1 => Untaken(q) = {n}
<1> DEFINE c == q.results
           d == Tail(q.results)
<1>1. TasksInv(q) /\ c \in Seq(Nodes) /\ q.kind \in {"broadcast", "lookup"} /\ q.left \in 0 .. Cardinality(Nodes)
  BY DEF RequestInv, Requests
<1>2. /\ n \in Nodes /\ n = c[1] /\ d \in Seq(Nodes) /\ Len(c) \in Nat /\ Len(c) >= 1
      /\ Len(d) = Len(c) - 1 /\ \A i \in 1 .. Len(d) : d[i] = c[i + 1]
      /\ DOMAIN c = 1 .. Len(c) /\ DOMAIN d = 1 .. Len(d)
  BY <1>1, HeadTailProperties
<1>3. Distinct(c)
  BY <1>1 DEF TasksInv
<1> HIDE DEF c, d
<1>4. n \in In(c)
  BY <1>2 DEF In
<1>5. Distinct(d)
  <2> SUFFICES ASSUME NEW i \in 1 .. Len(d), NEW j \in 1 .. Len(d), i # j PROVE d[i] # d[j]
    BY <1>2 DEF Distinct
  <2>1. i + 1 \in DOMAIN c /\ j + 1 \in DOMAIN c /\ i + 1 # j + 1
    BY <1>2
  <2>2. c[i + 1] # c[j + 1]
    BY <1>3, <2>1 DEF Distinct
  <2> QED BY <1>2, <2>2
<1>6. In(d) = In(c) \ {n}
  <2>1. ASSUME NEW m \in In(d) PROVE m \in In(c) \ {n}
    <3>1. PICK i \in 1 .. Len(d) : m = d[i]
      BY <1>2 DEF In
    <3>2. i + 1 \in DOMAIN c /\ 1 \in DOMAIN c /\ i + 1 # 1 /\ d[i] = c[i + 1]
      BY <1>2
    <3> QED BY <1>2, <1>3, <3>1, <3>2 DEF In, Distinct
  <2>2. ASSUME NEW m \in In(c) \ {n} PROVE m \in In(d)
    <3>1. PICK i \in 1 .. Len(c) : m = c[i]
      BY <1>2 DEF In
    <3>2. i # 1
      BY <1>2, <3>1
    <3>3. i - 1 \in 1 .. Len(d) /\ d[i - 1] = c[(i - 1) + 1]
      BY <1>2, <3>2
    <3>4. d[i - 1] = m
      BY <3>1, <3>3
    <3> QED BY <1>2, <3>3, <3>4 DEF In
  <2> QED BY <2>1, <2>2
<1>7. n \in In(q.order) /\ q.task[n] \in Replies(q.kind) /\ q.task[n] \in Answers
  BY <1>1, <1>2, <1>4, RepliesAreAnswers DEF TasksInv, c
<1>8. n \in Untaken(q) /\ IsFiniteSet(Untaken(q)) /\ q.left = Cardinality(Untaken(q))
  BY <1>1, <1>4 DEF TasksInv, Untaken, c
<1>9. q.left # 0
  BY <1>8, FS_EmptySet
<1>10. q.left - 1 \in 0 .. Cardinality(Nodes)
  BY <1>1, <1>9, CountOfNodes
<1>11. ASSUME q.left = 1 PROVE Untaken(q) = {n}
  <2>1. PICK x : Untaken(q) = {x}
    BY <1>8, <1>11, FS_Singleton
  <2> QED BY <1>8, <2>1
<1> QED BY <1>2, <1>4, <1>5, <1>6, <1>7, <1>10, <1>11 DEF c, d

\* A result that is taken leaves one less to come.
LEMMA TakenOK ==
  ASSUME NEW q \in Requests, RequestInv(q), q.pc = "collect", q.results # <<>>,
         NEW n, n = Head(q.results),
         NEW r \in Requests, r.pc = "collect", r.kind = q.kind, r.tx = q.tx, r.order = q.order,
         r.task = q.task, r.results = Tail(q.results), r.left = q.left - 1,
         r.chosen \in Taken(q) \cup {n},
         q.kind = "broadcast" => \A m \in Taken(q) \cup {n} :
            q.task[m] # "ok" /\ FanRank(q.task[m]) <= FanRank(q.task[r.chosen]),
         q.kind = "lookup" => \A m \in Taken(q) \cup {n} :
            PendingRank(q.task[m]) <= PendingRank(q.task[r.chosen]),
         r.grace => q.kind = "lookup" /\ PendingRank(q.task[r.chosen]) >= 3
  PROVE  RequestInv(r)
<1>1. TasksInv(q) /\ BestInv(q)
  BY DEF RequestInv
<1>2. /\ n \in Nodes /\ n \in In(q.order) /\ n \in In(q.results) /\ q.task[n] \in Answers
      /\ Distinct(r.results) /\ In(r.results) = In(q.results) \ {n}
  BY HeadOK
<1>3. q.task[n] # "run"
  BY <1>2 DEF Answers
<1>4. Untaken(r) = Untaken(q) \ {n} /\ n \in Untaken(q)
  BY <1>2, <1>3 DEF Untaken
<1>5. Taken(r) = Taken(q) \cup {n}
  BY <1>2, <1>4 DEF Taken
<1>6. IsFiniteSet(Untaken(r)) /\ r.left = Cardinality(Untaken(r))
  <2>1. IsFiniteSet(Untaken(q)) /\ q.left = Cardinality(Untaken(q))
    BY <1>1 DEF TasksInv
  <2>2. /\ IsFiniteSet(Untaken(q) \ {n})
        /\ Cardinality(Untaken(q) \ {n}) = Cardinality(Untaken(q)) - 1
    BY <1>4, <2>1, FS_RemoveElement
  <2> QED BY <1>4, <2>1, <2>2
<1>7. TasksInv(r)
  BY <1>1, <1>2, <1>6 DEF TasksInv
<1>8. r.chosen # None
  <2>1. In(q.order) \subseteq Nodes
    BY DEF Requests, In
  <2> QED BY <1>2, <2>1, PinsAssumption DEF Taken
<1>9. BestInv(r)
  BY <1>5, <1>8 DEF BestInv
<1>10. r.tx \in Txns
  BY DEF RequestInv
<1> QED BY <1>7, <1>9, <1>10 DEF RequestInv, AloneInv, ExternalInv

\* The failure a broadcast keeps is the best of those taken and the new one.
LEMMA BestSoFarOK ==
  ASSUME NEW q \in Requests, RequestInv(q), q.pc = "collect", q.kind = "broadcast",
         NEW n \in Nodes
  PROVE  /\ BestSoFar(q, n) \in Taken(q) \cup {n}
         /\ \A m \in Taken(q) \cup {n} : FanRank(q.task[m]) <= FanRank(q.task[BestSoFar(q, n)])
<1>1. BestInv(q)
  BY DEF RequestInv
<1>2. CASE q.chosen = None
  <2>1. Taken(q) = {} /\ BestSoFar(q, n) = n
    BY <1>1, <1>2 DEF BestInv, BestSoFar
  <2> QED BY <2>1, RanksAreNumbers
<1>3. CASE q.chosen # None /\ FanRank(q.task[n]) > FanRank(q.task[q.chosen])
  <2>1. BestSoFar(q, n) = n
    BY <1>3 DEF BestSoFar
  <2>2. \A m \in Taken(q) : FanRank(q.task[m]) <= FanRank(q.task[q.chosen])
    BY <1>1 DEF BestInv
  <2> QED BY <1>3, <2>1, <2>2, RanksAreNumbers
<1>4. CASE q.chosen # None /\ ~(FanRank(q.task[n]) > FanRank(q.task[q.chosen]))
  <2>1. BestSoFar(q, n) = q.chosen
    BY <1>4 DEF BestSoFar
  <2>2. q.chosen \in Taken(q) /\ \A m \in Taken(q) : FanRank(q.task[m]) <= FanRank(q.task[q.chosen])
    BY <1>1, <1>4 DEF BestInv
  <2> QED BY <1>4, <2>1, <2>2, RanksAreNumbers
<1> QED BY <1>2, <1>3, <1>4

\* The same of a lookup's answer.
LEMMA BestAnswerOK ==
  ASSUME NEW q \in Requests, RequestInv(q), q.pc = "collect", q.kind = "lookup",
         NEW n \in Nodes
  PROVE  /\ BestAnswer(q, n) \in Taken(q) \cup {n}
         /\ \A m \in Taken(q) \cup {n} :
              PendingRank(q.task[m]) <= PendingRank(q.task[BestAnswer(q, n)])
         /\ q.grace => PendingRank(q.task[BestAnswer(q, n)]) >= 3
<1>1. BestInv(q)
  BY DEF RequestInv
<1>2. CASE q.chosen = None
  <2>1. Taken(q) = {} /\ BestAnswer(q, n) = n /\ ~q.grace
    BY <1>1, <1>2 DEF BestInv, BestAnswer
  <2> QED BY <2>1, RanksAreNumbers
<1>3. CASE q.chosen # None
  <2>1. /\ q.chosen \in Taken(q)
        /\ \A m \in Taken(q) : PendingRank(q.task[m]) <= PendingRank(q.task[q.chosen])
        /\ q.grace => PendingRank(q.task[q.chosen]) >= 3
    BY <1>1, <1>3 DEF BestInv
  <2>2. \/ /\ BestAnswer(q, n) = n
           /\ PendingRank(q.task[n]) >= PendingRank(q.task[q.chosen])
        \/ /\ BestAnswer(q, n) = q.chosen
           /\ PendingRank(q.task[n]) <= PendingRank(q.task[q.chosen])
    BY <1>3, RanksAreNumbers DEF BestAnswer
  <2>3. CASE /\ BestAnswer(q, n) = n
             /\ PendingRank(q.task[n]) >= PendingRank(q.task[q.chosen])
    BY <2>1, <2>3, RanksAreNumbers
  <2>4. CASE /\ BestAnswer(q, n) = q.chosen
             /\ PendingRank(q.task[n]) <= PendingRank(q.task[q.chosen])
    BY <2>1, <2>4, RanksAreNumbers
  <2> QED BY <2>2, <2>3, <2>4
<1> QED BY <1>2, <1>3

-----------------------------------------------------------------------------
(* The invariant of the requests is kept by every action.                  *)

\* A step of one handler.
LEMMA HandlerStep ==
  ASSUME FanInv, NEW h \in Handlers, NEW r, RequestInv(r), req' = [req EXCEPT ![h] = r],
         UNCHANGED multi, failing' \in [Nodes -> BOOLEAN]
  PROVE  FanInv'
<1>1. r \in Requests
  BY DEF RequestInv
<1>2. req' \in [Handlers -> Requests] /\ \A g \in Handlers : req'[g] = IF g = h THEN r ELSE req[g]
  BY <1>1 DEF FanInv
<1>3. \A g \in Handlers : RequestInv(req'[g])
  BY <1>2 DEF FanInv
<1> QED BY <1>2, <1>3 DEF FanInv

LEMMA FanInvInit == Init => FanInv
BY NoRequestOK DEF Init, FanInv

LEMMA NewRequestOK ==
  ASSUME NEW t \in Txns, NEW k \in {"broadcast", "lookup"},
         NEW q, q = [NoRequest EXCEPT !.kind = k, !.tx = t]
  PROVE  q \in Requests /\ q.tx = t /\ q.kind = k /\ Fresh(q)
<1> DEFINE z == NoRequest
<1>1. z \in Requests /\ Fresh(z)
  BY NoRequestOK DEF Fresh, NoRequest
<1>2. q = [z EXCEPT !.kind = k, !.tx = t]
  OBVIOUS
<1> HIDE DEF z
<1>3. /\ q \in Requests /\ q.tx = t /\ q.kind = k
      /\ q.results = z.results /\ q.chosen = z.chosen /\ q.grace = z.grace /\ q.task = z.task
  BY <1>1, <1>2 DEF Requests
<1> QED BY <1>1, <1>3 DEF Fresh

LEMMA BroadcastKeeps ==
  ASSUME FanInv, NEW h \in Handlers, NEW t \in Txns, NEW s \in Selections, Broadcast(h, t, s)
  PROVE  FanInv'
<1> DEFINE q == [NoRequest EXCEPT !.tx = t]
           r == IF multi THEN Fanned(q, MeshFirst(s))
                ELSE [q EXCEPT !.pc = "forward", !.order = s, !.at = s[1], !.left = Len(s)]
<1>1. q = [NoRequest EXCEPT !.kind = "broadcast", !.tx = t]
  <2> DEFINE z == NoRequest
  <2>1. z \in Requests /\ z.kind = "broadcast"
    BY NoRequestOK DEF NoRequest
  <2> HIDE DEF z
  <2>2. [z EXCEPT !.tx = t] = [z EXCEPT !.kind = "broadcast", !.tx = t]
    BY <2>1 DEF Requests
  <2> QED BY <2>2 DEF z
<1>2. q \in Requests /\ q.tx = t /\ q.kind = "broadcast" /\ Fresh(q)
  BY <1>1, NewRequestOK
<1>3. req' = [req EXCEPT ![h] = r] /\ UNCHANGED <<multi, failing>>
  BY DEF Broadcast
<1> HIDE DEF q
<1>4. CASE multi
  <2>1. RequestInv(r)
    BY <1>2, <1>4, FannedOK, MeshFirstOK
  <2> QED BY <1>3, <2>1, HandlerStep DEF FanInv
<1>5. CASE ~multi
  <2> DEFINE f == [q EXCEPT !.pc = "forward", !.order = s, !.at = s[1], !.left = Len(s)]
  <2>1. s \in Targets /\ s \in Seq(Nodes) /\ s[1] \in Nodes /\ Len(s) >= 1 /\ Len(s) \in 0 .. Cardinality(Nodes)
    BY SelectionOK, CountOfNodes DEF Targets
  <2>2. /\ f \in Requests /\ f.pc = "forward" /\ f.order = s /\ f.at = s[1] /\ f.left = Len(s)
        /\ f.tx = t /\ f.kind = "broadcast"
        /\ f.results = q.results /\ f.chosen = q.chosen /\ f.grace = q.grace /\ f.task = q.task
    BY <1>2, <2>1 DEF Requests
  <2>3. r = f
    BY <1>5
  <2> HIDE DEF f, r
  <2>4. Fresh(f)
    BY <1>2, <2>2 DEF Fresh
  <2>5. RequestInv(f)
    <3>1. Len(s) \in Nat
      BY <2>1, CountOfNodes
    <3> QED BY <2>1, <2>2, <2>4, <3>1 DEF RequestInv, AloneInv, ExternalInv
  <2> QED BY <1>3, <2>3, <2>5, HandlerStep DEF FanInv
<1> QED BY <1>4, <1>5

LEMMA LookupKeeps ==
  ASSUME FanInv, NEW h \in Handlers, NEW t \in Txns, NEW s \in Selections, Lookup(h, t, s)
  PROVE  FanInv'
<1> DEFINE q == [NoRequest EXCEPT !.kind = "lookup", !.tx = t]
           r == IF Recalled(t) \in In(s)
                THEN [q EXCEPT !.pc = "pinned", !.order = Without(s, Recalled(t)), !.at = Recalled(t)]
                ELSE Fanned(q, s)
<1>1. q \in Requests /\ q.tx = t /\ q.kind = "lookup" /\ Fresh(q)
  BY NewRequestOK
<1>2. req' = [req EXCEPT ![h] = r] /\ UNCHANGED <<multi, failing>>
  BY DEF Lookup
<1>3. s \in Targets /\ In(s) \subseteq Nodes
  BY SelectionOK, Counted
<1> HIDE DEF q
<1>4. CASE Recalled(t) \in In(s)
  <2> DEFINE w == Without(s, Recalled(t))
             f == [q EXCEPT !.pc = "pinned", !.order = w, !.at = Recalled(t)]
  <2>1. w \in Targets /\ w \in Seq(Nodes) /\ Recalled(t) \in Nodes
    BY <1>3, <1>4, WithoutOK DEF Targets
  <2>2. r = f
    BY <1>4
  <2> HIDE DEF w
  <2>3. /\ f \in Requests /\ f.pc = "pinned" /\ f.order = w /\ f.at = Recalled(t)
        /\ f.tx = t /\ f.kind = "lookup"
        /\ f.results = q.results /\ f.chosen = q.chosen /\ f.grace = q.grace /\ f.task = q.task
    BY <1>1, <2>1 DEF Requests
  <2> HIDE DEF f, r
  <2>4. Fresh(f)
    BY <1>1, <2>3 DEF Fresh
  <2>5. RequestInv(f)
    BY <2>1, <2>3, <2>4 DEF RequestInv, AloneInv, ExternalInv
  <2> QED BY <1>2, <2>2, <2>5, HandlerStep DEF FanInv
<1>5. CASE Recalled(t) \notin In(s)
  <2>1. RequestInv(r)
    BY <1>1, <1>3, <1>5, FannedOK
  <2> QED BY <1>2, <2>1, HandlerStep DEF FanInv
<1> QED BY <1>4, <1>5

LEMMA TaskEndsKeeps ==
  ASSUME FanInv, NEW h \in Handlers, NEW n \in Nodes, NEW a \in Answers, NEW over \in BOOLEAN,
         TaskEnds(h, n, a, over)
  PROVE  FanInv'
<1> DEFINE q == req[h]
<1>1. q \in Requests /\ RequestInv(q) /\ q.task[n] = "run" /\ a \in Replies(q.kind) /\ q.told \in Answers \cup {"none"}
  BY DEF FanInv, TaskEnds, Requests
<1>2. failing' \in [Nodes -> BOOLEAN] /\ multi' = multi
  BY DEF FanInv, TaskEnds, Failed
<1>3. req' = [req EXCEPT ![h] =
                IF q.pc = "idle" THEN Return([q EXCEPT !.task[n] = "off"], q.told)
                ELSE [q EXCEPT !.task[n] = a, !.results = Append(@, n)]]
  BY DEF TaskEnds
<1> HIDE DEF q
<1>4. CASE q.pc = "idle"
  <2> DEFINE p == [q EXCEPT !.task[n] = "off"]
  <2>1. p \in Requests
    <3>1. p = [q EXCEPT !.task = [q.task EXCEPT ![n] = "off"]]
      BY <1>1 DEF Requests
    <3>2. [q.task EXCEPT ![n] = "off"] \in [Nodes -> Answers \cup {"off", "run"}]
      BY <1>1 DEF Requests
    <3> HIDE DEF p
    <3> QED BY <1>1, <3>1, <3>2 DEF Requests
  <2> HIDE DEF p
  <2>2. RequestInv(Return(p, q.told))
    BY <1>1, <2>1, ReturnOK
  <2>3. req' = [req EXCEPT ![h] = Return(p, q.told)]
    BY <1>3, <1>4 DEF p
  <2> QED BY <1>2, <2>2, <2>3, HandlerStep
<1>5. CASE q.pc # "idle"
  <2>1. RequestInv([q EXCEPT !.task[n] = a, !.results = Append(@, n)])
    BY <1>1, <1>5, AnsweredOK
  <2>2. req' = [req EXCEPT ![h] = [q EXCEPT !.task[n] = a, !.results = Append(@, n)]]
    BY <1>3, <1>5
  <2> QED BY <1>2, <2>1, <2>2, HandlerStep
<1> QED BY <1>4, <1>5

LEMMA ReturnKeeps ==
  ASSUME FanInv, NEW h \in Handlers, NEW told \in Answers \cup {"none"},
         req' = [req EXCEPT ![h] = Return(req[h], told)],
         UNCHANGED multi, failing' \in [Nodes -> BOOLEAN]
  PROVE  FanInv'
<1>1. RequestInv(Return(req[h], told))
  BY ReturnOK DEF FanInv
<1> QED BY <1>1, HandlerStep

LEMMA TryNextKeeps ==
  ASSUME FanInv, NEW h \in Handlers, req[h].pc = "forward", TryNext(h),
         UNCHANGED multi, failing' \in [Nodes -> BOOLEAN]
  PROVE  FanInv'
<1> DEFINE q == req[h]
<1>1. q \in Requests /\ RequestInv(q) /\ q.pc = "forward" /\ AloneInv(q)
  BY DEF FanInv, RequestInv
<1>2. /\ Fresh(q) /\ q.order \in Targets /\ q.order \in Seq(Nodes) /\ q.kind = "broadcast" /\ q.tx \in Txns
      /\ 1 <= q.left /\ q.left <= Len(q.order) /\ Len(q.order) \in Nat /\ q.left \in Nat
      /\ Len(q.order) <= Cardinality(Nodes)
  BY <1>1, CountOfNodes DEF AloneInv, RequestInv, Targets, Requests
<1>3. ASSUME q.left > 1,
             req' = [req EXCEPT ![h].at = q.order[Len(q.order) - q.left + 2], ![h].left = q.left - 1]
      PROVE  FanInv'
  <2> DEFINE n == q.order[Len(q.order) - q.left + 2]
             l == q.left - 1
             r == [q EXCEPT !.at = n, !.left = l]
  <2>1. n \in Nodes /\ l \in 0 .. Cardinality(Nodes) /\ 1 <= l /\ l <= Len(q.order)
    BY <1>2, <1>3, CountOfNodes
  <2>2. req' = [req EXCEPT ![h] = r]
    BY <1>3 DEF FanInv
  <2> HIDE DEF n, l, q
  <2>3. /\ r \in Requests /\ r.at = n /\ r.left = l /\ r.pc = q.pc /\ r.kind = q.kind /\ r.tx = q.tx
        /\ r.order = q.order /\ r.results = q.results /\ r.chosen = q.chosen /\ r.grace = q.grace
        /\ r.task = q.task
    BY <1>1, <2>1 DEF Requests
  <2> HIDE DEF r
  <2>4. Fresh(r)
    BY <1>2, <2>3 DEF Fresh
  <2>5. RequestInv(r)
    BY <1>1, <1>2, <2>1, <2>3, <2>4 DEF RequestInv, AloneInv, ExternalInv
  <2> QED BY <2>2, <2>5, HandlerStep
<1>4. ASSUME NEW e \in Externals, req' = [req EXCEPT ![h].at = e, ![h].order = <<e>>, ![h].left = 1]
      PROVE  FanInv'
  <2> DEFINE o == <<e>>
             r == [q EXCEPT !.at = e, !.order = o, !.left = 1]
  <2>1. e \in Nodes /\ 1 \in 0 .. Cardinality(Nodes)
    BY <1>2, CountOfNodes, FanAssumption
  <2>2. o \in Seq(Nodes) /\ Len(o) = 1 /\ Distinct(o)
    BY <2>1 DEF Distinct
  <2>3. o \in Targets
    BY <2>1, <2>2, CountOfNodes DEF Targets
  <2>4. req' = [req EXCEPT ![h] = r]
    BY <1>4 DEF FanInv
  <2> HIDE DEF o, q
  <2>5. /\ r \in Requests /\ r.at = e /\ r.left = 1 /\ r.pc = q.pc /\ r.kind = q.kind /\ r.tx = q.tx
        /\ r.order = o /\ r.results = q.results /\ r.chosen = q.chosen /\ r.grace = q.grace
        /\ r.task = q.task
    BY <1>1, <2>1, <2>2 DEF Requests
  <2> HIDE DEF r
  <2>6. Fresh(r)
    BY <1>2, <2>5 DEF Fresh
  <2>7. 1 <= r.left /\ r.left <= Len(r.order)
    <3>1. r.order = o /\ r.left = 1
      BY <2>5
    <3>2. Len(r.order) = 1
      BY <2>2, <3>1
    <3> QED BY <3>1, <3>2
  <2>8. AloneInv(r)
    BY <1>1, <1>2, <2>1, <2>3, <2>5, <2>6, <2>7 DEF AloneInv
  <2>9. RequestInv(r)
    BY <1>1, <1>2, <2>5, <2>8 DEF RequestInv, ExternalInv
  <2> QED BY <2>4, <2>9, HandlerStep
<1>5. ASSUME req' = [req EXCEPT ![h] = Return(q, IF q.ctx = "gone" THEN "none" ELSE "err")]
      PROVE  FanInv'
  BY <1>5, ReturnKeeps DEF Answers
<1> QED BY <1>3, <1>4, <1>5 DEF TryNext

LEMMA ForwardEndsKeeps ==
  ASSUME FanInv, NEW h \in Handlers, NEW a \in Answers, ForwardEnds(h, a)
  PROVE  FanInv'
<1> DEFINE q == req[h]
<1>1. q \in Requests /\ RequestInv(q) /\ q.pc \in {"forward", "pinned", "external"}
  BY DEF FanInv, ForwardEnds
<1>2. failing' \in [Nodes -> BOOLEAN] /\ multi' = multi
  <2>1. Failed(a) \in BOOLEAN
    BY DEF Failed
  <2>2. [failing EXCEPT ![q.at] = Failed(a)] \in [Nodes -> BOOLEAN]
    BY <2>1 DEF FanInv
  <2> QED BY <2>2 DEF FanInv, ForwardEnds
<1>3. CASE a \notin Unanswered /\ ~(q.pc = "pinned" /\ a = "notFound")
  <2>1. req' = [req EXCEPT ![h] = Return(q, a)]
    BY <1>3 DEF ForwardEnds, Relayed
  <2> QED BY <1>2, <2>1, ReturnKeeps
<1>4. CASE ~(a \notin Unanswered /\ ~(q.pc = "pinned" /\ a = "notFound"))
  <2>1. \/ q.pc = "forward" /\ TryNext(h)
        \/ q.pc = "pinned" /\ req' = [req EXCEPT ![h] = PinnedDone(q, a)]
        \/ /\ q.pc = "external"
           /\ req' = [req EXCEPT ![h] =
                        Return(q, IF q.ctx = "gone" THEN "none" ELSE q.task[q.chosen])]
    BY <1>4 DEF ForwardEnds
  <2>2. CASE q.pc = "forward" /\ TryNext(h)
    BY <1>2, <2>2, TryNextKeeps
  <2>3. CASE q.pc = "pinned" /\ req' = [req EXCEPT ![h] = PinnedDone(q, a)]
    <3>1. q.tx \in Txns /\ Fresh(q) /\ q.order \in Targets
      BY <1>1, <2>3 DEF RequestInv, AloneInv
    <3>2. CASE q.ctx = "gone"
      <4>1. req' = [req EXCEPT ![h] = Return(q, "none")]
        BY <2>3, <3>2 DEF PinnedDone
      <4> QED BY <1>2, <4>1, ReturnKeeps
    <3>3. CASE q.ctx # "gone" /\ q.order = <<>>
      <4>1. req' = [req EXCEPT ![h] = Return(q, IF a = "notFound" THEN "notFound" ELSE "err")]
        BY <2>3, <3>3 DEF PinnedDone
      <4> QED BY <1>2, <4>1, ReturnKeeps DEF Answers
    <3>4. CASE q.ctx # "gone" /\ q.order # <<>>
      <4>1. req' = [req EXCEPT ![h] = Fanned(q, q.order)]
        BY <2>3, <3>4 DEF PinnedDone
      <4>2. RequestInv(Fanned(q, q.order))
        BY <1>1, <3>1, FannedOK
      <4> QED BY <1>2, <4>1, <4>2, HandlerStep
    <3> QED BY <3>2, <3>3, <3>4
  <2>4. CASE /\ q.pc = "external"
             /\ req' = [req EXCEPT ![h] =
                          Return(q, IF q.ctx = "gone" THEN "none" ELSE q.task[q.chosen])]
    <3>1. q.task[q.chosen] \in Answers
      BY <1>1, <2>4 DEF RequestInv, ExternalInv
    <3> QED BY <1>2, <2>4, <3>1, ReturnKeeps
  <2> QED BY <2>1, <2>2, <2>3, <2>4
<1> QED BY <1>3, <1>4

LEMMA CollectBroadcastKeeps ==
  ASSUME FanInv, NEW h \in Handlers, CollectBroadcast(h)
  PROVE  FanInv'
<1> DEFINE q == req[h]
           n == Head(q.results)
           b == BestSoFar(q, n)
           c == Tail(q.results)
           r == [q EXCEPT !.results = Tail(@), !.chosen = b, !.left = @ - 1]
<1>1. /\ q \in Requests /\ RequestInv(q) /\ q.pc = "collect" /\ q.kind = "broadcast" /\ q.results # <<>>
      /\ UNCHANGED <<multi, failing>> /\ failing \in [Nodes -> BOOLEAN]
  BY DEF FanInv, CollectBroadcast
<1>2. /\ n \in Nodes /\ n \in In(q.order) /\ q.task[n] \in Answers
      /\ c \in Seq(Nodes) /\ q.left - 1 \in 0 .. Cardinality(Nodes)
  BY <1>1, HeadOK
<1>3. b \in Taken(q) \cup {n} /\ \A m \in Taken(q) \cup {n} : FanRank(q.task[m]) <= FanRank(q.task[b])
  BY <1>1, <1>2, BestSoFarOK
<1>4. \/ req' = [req EXCEPT ![h] = Return(q, "ok")]
      \/ q.task[n] # "ok" /\ req' = [req EXCEPT ![h] = r]
      \/ req' = [req EXCEPT ![h] = Return(q, q.task[r.chosen])]
      \/ \E e \in Externals :
           LastResort(q) /\ req' = [req EXCEPT ![h] = [r EXCEPT !.pc = "external", !.at = e]]
  BY DEF CollectBroadcast
<1>5. /\ b \in Nodes /\ q.task[b] \in Answers /\ \A m \in Taken(q) : q.task[m] # "ok"
  <2>1. BestInv(q) /\ TasksInv(q) /\ In(q.order) \subseteq Nodes
    BY <1>1 DEF RequestInv, Requests, In
  <2>2. \A m \in Taken(q) : q.task[m] \in Replies(q.kind)
    BY <2>1 DEF Taken, Untaken, TasksInv
  <2> QED BY <1>1, <1>2, <1>3, <2>1, <2>2, RepliesAreAnswers DEF BestInv, Taken
<1>6. r = [q EXCEPT !.results = c, !.chosen = b, !.left = q.left - 1]
  BY <1>1 DEF Requests
<1> HIDE DEF q, n, b, c, r
<1>7. /\ r \in Requests /\ r.pc = q.pc /\ r.kind = q.kind /\ r.tx = q.tx /\ r.order = q.order
      /\ r.task = q.task /\ r.results = c /\ r.left = q.left - 1 /\ r.chosen = b /\ r.grace = q.grace
  BY <1>1, <1>2, <1>5, <1>6 DEF Requests
<1>8. CASE req' = [req EXCEPT ![h] = Return(q, "ok")]
  BY <1>1, <1>8, ReturnKeeps DEF Answers, q
<1>9. CASE q.task[n] # "ok" /\ req' = [req EXCEPT ![h] = r]
  <2>1. ~r.grace
    BY <1>1, <1>7 DEF RequestInv, BestInv
  <2>2. RequestInv(r)
    BY <1>1, <1>3, <1>5, <1>7, <1>9, <2>1, TakenOK DEF n, c
  <2> QED BY <1>1, <1>9, <2>2, HandlerStep
<1>10. CASE req' = [req EXCEPT ![h] = Return(q, q.task[r.chosen])]
  BY <1>1, <1>5, <1>7, <1>10, ReturnKeeps DEF q
<1>11. ASSUME NEW e \in Externals, req' = [req EXCEPT ![h] = [r EXCEPT !.pc = "external", !.at = e]]
       PROVE  FanInv'
  <2> DEFINE x == [r EXCEPT !.pc = "external", !.at = e]
  <2>1. e \in Nodes
    BY FanAssumption
  <2>2. /\ x \in Requests /\ x.pc = "external" /\ x.at = e /\ x.kind = r.kind /\ x.tx = r.tx
        /\ x.chosen = r.chosen /\ x.task = r.task
    BY <1>7, <2>1 DEF Requests
  <2>3. req' = [req EXCEPT ![h] = x]
    BY <1>11
  <2> HIDE DEF x
  <2>4. RequestInv(x)
    BY <1>1, <1>5, <1>7, <2>1, <2>2 DEF RequestInv, AloneInv, ExternalInv
  <2> QED BY <1>1, <2>3, <2>4, HandlerStep
<1> QED BY <1>4, <1>8, <1>9, <1>10, <1>11

LEMMA CollectLookupKeeps ==
  ASSUME FanInv, NEW h \in Handlers, CollectLookup(h)
  PROVE  FanInv'
<1> DEFINE q == req[h]
           n == Head(q.results)
           b == BestAnswer(q, n)
           c == Tail(q.results)
           g == q.grace \/ StartsGrace(q.task[b])
           r == [q EXCEPT !.results = Tail(@), !.chosen = b, !.left = @ - 1,
                          !.grace = @ \/ StartsGrace(q.task[b])]
<1>1. /\ q \in Requests /\ RequestInv(q) /\ q.pc = "collect" /\ q.kind = "lookup" /\ q.results # <<>>
      /\ UNCHANGED <<multi, failing>> /\ failing \in [Nodes -> BOOLEAN]
  BY DEF FanInv, CollectLookup
<1>2. /\ n \in Nodes /\ n \in In(q.order) /\ q.task[n] \in Answers
      /\ c \in Seq(Nodes) /\ q.left - 1 \in 0 .. Cardinality(Nodes)
  BY <1>1, HeadOK
<1>3. /\ b \in Taken(q) \cup {n}
      /\ \A m \in Taken(q) \cup {n} : PendingRank(q.task[m]) <= PendingRank(q.task[b])
      /\ q.grace => PendingRank(q.task[b]) >= 3
  BY <1>1, <1>2, BestAnswerOK
<1>4. \/ req' = [req EXCEPT ![h] = Return(q, q.task[b])]
      \/ req' = [req EXCEPT ![h] = r]
  BY DEF CollectLookup, Conclude
<1>5. b \in Nodes /\ q.task[b] \in Answers
  <2>1. TasksInv(q) /\ In(q.order) \subseteq Nodes
    BY <1>1 DEF RequestInv, Requests, In
  <2>2. \A m \in Taken(q) : q.task[m] \in Replies(q.kind)
    BY <2>1 DEF Taken, Untaken, TasksInv
  <2> QED BY <1>1, <1>2, <1>3, <2>1, <2>2, RepliesAreAnswers DEF Taken
<1>6. r = [q EXCEPT !.results = c, !.chosen = b, !.left = q.left - 1, !.grace = g]
  BY <1>1 DEF Requests
<1>7. g \in BOOLEAN
  BY <1>1 DEF Requests, StartsGrace
<1>8. g => PendingRank(q.task[b]) >= 3
  BY <1>3 DEF StartsGrace
<1> HIDE DEF q, n, b, c, g, r
<1>9. /\ r \in Requests /\ r.pc = q.pc /\ r.kind = q.kind /\ r.tx = q.tx /\ r.order = q.order
      /\ r.task = q.task /\ r.results = c /\ r.left = q.left - 1 /\ r.chosen = b /\ r.grace = g
  BY <1>1, <1>2, <1>5, <1>6, <1>7 DEF Requests
<1>10. CASE req' = [req EXCEPT ![h] = Return(q, q.task[b])]
  BY <1>1, <1>5, <1>10, ReturnKeeps DEF q
<1>11. CASE req' = [req EXCEPT ![h] = r]
  <2>1. RequestInv(r)
    BY <1>1, <1>3, <1>8, <1>9, TakenOK DEF n, c
  <2> QED BY <1>1, <1>11, <2>1, HandlerStep
<1> QED BY <1>4, <1>10, <1>11

LEMMA GraceEndsKeeps ==
  ASSUME FanInv, NEW h \in Handlers, GraceEnds(h)
  PROVE  FanInv'
<1> DEFINE q == req[h]
<1>1. /\ q \in Requests /\ RequestInv(q) /\ q.pc = "collect" /\ q.grace
      /\ req' = [req EXCEPT ![h] = Return(q, q.task[q.chosen])]
      /\ UNCHANGED <<multi, failing>> /\ failing \in [Nodes -> BOOLEAN]
  BY DEF FanInv, GraceEnds, Conclude
<1>2. TasksInv(q) /\ BestInv(q) /\ In(q.order) \subseteq Nodes /\ q.kind \in {"broadcast", "lookup"}
  BY <1>1 DEF RequestInv, Requests, In
<1>3. q.chosen \in Taken(q)
  BY <1>1, <1>2 DEF BestInv
<1>4. q.task[q.chosen] \in Answers
  BY <1>2, <1>3, RepliesAreAnswers DEF Taken, Untaken, TasksInv
<1> QED BY <1>1, <1>4, ReturnKeeps

LEMMA ContextKeeps ==
  ASSUME FanInv, NEW h \in Handlers, NEW c \in {"short", "gone"},
         req' = [req EXCEPT ![h].ctx = c], UNCHANGED <<multi, failing>>
  PROVE  FanInv'
<1> DEFINE q == req[h]
           r == [q EXCEPT !.ctx = c]
<1>1. q \in Requests /\ RequestInv(q) /\ failing \in [Nodes -> BOOLEAN] /\ req' = [req EXCEPT ![h] = r]
  BY DEF FanInv
<1> HIDE DEF q
<1>2. /\ r \in Requests /\ r.pc = q.pc /\ r.kind = q.kind /\ r.tx = q.tx /\ r.order = q.order
      /\ r.task = q.task /\ r.results = q.results /\ r.left = q.left /\ r.chosen = q.chosen
      /\ r.grace = q.grace /\ r.at = q.at
  BY <1>1 DEF Requests
<1> HIDE DEF r
<1>3. Untaken(r) = Untaken(q) /\ Taken(r) = Taken(q)
  BY <1>2 DEF Untaken, Taken
<1>4. TasksInv(q) => TasksInv(r)
  BY <1>2, <1>3 DEF TasksInv
<1>5. BestInv(q) => BestInv(r)
  BY <1>2, <1>3 DEF BestInv
<1>6. AloneInv(r) /\ ExternalInv(r)
  BY <1>1, <1>2 DEF RequestInv, AloneInv, ExternalInv, Fresh
<1>7. RequestInv(r)
  BY <1>1, <1>2, <1>4, <1>5, <1>6 DEF RequestInv
<1> QED BY <1>1, <1>7, HandlerStep

LEMMA FanInvStep == FanInv /\ [Next]_vars => FanInv'
<1> SUFFICES ASSUME FanInv, [Next]_vars PROVE FanInv'
  OBVIOUS
<1>1. ASSUME NEW h \in Handlers, NEW t \in Txns, NEW s \in Selections,
             Broadcast(h, t, s) \/ Lookup(h, t, s)
      PROVE  FanInv'
  BY <1>1, BroadcastKeeps, LookupKeeps
<1>2. ASSUME NEW h \in Handlers, NEW n \in Nodes, NEW a \in Answers, NEW over \in BOOLEAN,
             TaskEnds(h, n, a, over)
      PROVE  FanInv'
  BY <1>2, TaskEndsKeeps
<1>3. ASSUME NEW h \in Handlers, NEW a \in Answers, ForwardEnds(h, a) PROVE FanInv'
  BY <1>3, ForwardEndsKeeps
<1>4. ASSUME NEW h \in Handlers, CollectBroadcast(h) PROVE FanInv'
  BY <1>4, CollectBroadcastKeeps
<1>5. ASSUME NEW h \in Handlers, CollectLookup(h) PROVE FanInv'
  BY <1>5, CollectLookupKeeps
<1>6. ASSUME NEW h \in Handlers, GraceEnds(h) PROVE FanInv'
  BY <1>6, GraceEndsKeeps
<1>7. ASSUME NEW h \in Handlers, LookupLeft(h) PROVE FanInv'
  <2>1. req' = [req EXCEPT ![h] = Return(req[h], "none")] /\ UNCHANGED <<multi, failing>>
    BY <1>7 DEF LookupLeft, FanInv
  <2> QED BY <2>1, ReturnKeeps DEF FanInv
<1>8. ASSUME NEW h \in Handlers, ClientLeaves(h) PROVE FanInv'
  BY <1>8, ContextKeeps DEF ClientLeaves
<1>9. ASSUME NEW h \in Handlers, TimeRunsOut(h) PROVE FanInv'
  BY <1>9, ContextKeeps DEF TimeRunsOut
<1>10. ASSUME UNCHANGED fanVars PROVE FanInv'
  BY <1>10 DEF FanInv, fanVars
<1> QED BY <1>1, <1>2, <1>3, <1>4, <1>5, <1>6, <1>7, <1>8, <1>9, <1>10 DEF Next, Tick, vars

-----------------------------------------------------------------------------
(* What follows.                                                           *)

\* A lookup ends with the answer of a node.
LEMMA ConcludesWithNode ==
  ASSUME FanInv, NEW h \in Handlers, CollectLookup(h) \/ GraceEnds(h)
  PROVE  \E n \in Nodes : Conclude(h, n) \/ UNCHANGED pinVars
<1>1. CASE CollectLookup(h)
  <2>1. /\ req[h] \in Requests /\ RequestInv(req[h])
        /\ req[h].pc = "collect" /\ req[h].kind = "lookup" /\ req[h].results # <<>>
    BY <1>1 DEF CollectLookup, FanInv
  <2>2. Head(req[h].results) \in Nodes /\ In(req[h].order) \subseteq Nodes
    BY <2>1, HeadOK DEF Requests, In
  <2>3. BestAnswer(req[h], Head(req[h].results)) \in Nodes
    BY <2>1, <2>2, BestAnswerOK DEF Taken
  <2>4. Conclude(h, BestAnswer(req[h], Head(req[h].results))) \/ UNCHANGED pinVars
    BY <1>1 DEF CollectLookup
  <2> QED BY <2>3, <2>4
<1>2. CASE GraceEnds(h)
  <2>1. BestInv(req[h]) /\ req[h].grace /\ req[h] \in Requests /\ Conclude(h, req[h].chosen)
    BY <1>2 DEF GraceEnds, FanInv, RequestInv
  <2>2. req[h].chosen \in Nodes
    BY <2>1 DEF BestInv, Requests
  <2> QED BY <2>1, <2>2
<1> QED BY <1>1, <1>2

\* The handlers use the pins by remember and recall alone.
LEMMA PinsStep == FanInv /\ [Next]_vars => [PinsNext]_pinVars
<1> SUFFICES ASSUME FanInv, [Next]_vars PROVE [PinsNext]_pinVars
  OBVIOUS
<1>1. ASSUME NEW h \in Handlers, NEW t \in Txns, NEW s \in Selections,
             Broadcast(h, t, s) \/ Lookup(h, t, s)
      PROVE  [PinsNext]_pinVars
  BY <1>1 DEF Broadcast, Lookup, PinsNext
<1>2. ASSUME NEW h \in Handlers, NEW n \in Nodes, NEW a \in Answers, NEW over \in BOOLEAN,
             TaskEnds(h, n, a, over)
      PROVE  [PinsNext]_pinVars
  BY <1>2 DEF TaskEnds
<1>3. ASSUME NEW h \in Handlers, NEW a \in Answers, ForwardEnds(h, a)
      PROVE  [PinsNext]_pinVars
  <2>1. UNCHANGED pinVars \/ Remember(req[h].tx, req[h].at)
    BY <1>3 DEF ForwardEnds, Relayed
  <2>2. req[h].tx \in Txns /\ req[h].at \in Nodes
    BY <1>3 DEF ForwardEnds, FanInv, RequestInv, AloneInv, ExternalInv
  <2> QED BY <2>1, <2>2 DEF PinsNext
<1>4. ASSUME NEW h \in Handlers, CollectBroadcast(h) PROVE [PinsNext]_pinVars
  <2>1. UNCHANGED pinVars \/ Remember(req[h].tx, Head(req[h].results))
    BY <1>4 DEF CollectBroadcast
  <2>2. req[h].tx \in Txns /\ Head(req[h].results) \in Nodes
    BY <1>4, HeadOK DEF CollectBroadcast, FanInv, RequestInv
  <2> QED BY <2>1, <2>2 DEF PinsNext
<1>5. ASSUME NEW h \in Handlers, CollectLookup(h) \/ GraceEnds(h) PROVE [PinsNext]_pinVars
  <2>2. PICK n \in Nodes : Conclude(h, n) \/ UNCHANGED pinVars
    BY <1>5, ConcludesWithNode
  <2>3. UNCHANGED pinVars \/ Remember(req[h].tx, n)
    BY <2>2 DEF Conclude
  <2>4. req[h].tx \in Txns
    BY <1>5 DEF CollectLookup, GraceEnds, FanInv, RequestInv
  <2> QED BY <2>3, <2>4 DEF PinsNext
<1>6. ASSUME NEW h \in Handlers, LookupLeft(h) \/ ClientLeaves(h) \/ TimeRunsOut(h)
      PROVE  [PinsNext]_pinVars
  BY <1>6 DEF LookupLeft, ClientLeaves, TimeRunsOut
<1>7. CASE Tick \/ UNCHANGED vars
  BY <1>7 DEF Tick, PinsNext, vars
<1> QED BY <1>1, <1>2, <1>3, <1>4, <1>5, <1>6, <1>7 DEF Next

\* The invariant of the requests holds in every behaviour: each fan-out counts its
\* nodes right and keeps the best of what it has taken.
THEOREM FanInvariant == Spec => []FanInv
BY FanInvInit, FanInvStep, PTL DEF Spec

\* The handlers of transactions use txnPins as it is meant to be used: their
\* behaviours are behaviours of the pins.
THEOREM FanOutImplementsPins == Spec => PinsSpec
<1>1. Init => PinsInit
  BY DEF Init
<1> QED BY <1>1, FanInvariant, PinsStep, PTL DEF Spec, PinsSpec

\* Every variable has its type.
THEOREM FanOutTypeCorrect == Spec => []TypeOK
<1>1. PinInv /\ FanInv => TypeOK
  BY PinsAssumption DEF PinInv, FanInv, TypeOK
<1> QED BY <1>1, FanInvariant, FanOutImplementsPins, PinsInvariant, PTL

\* Under the handlers too the last node remembered is found for at least TTL, and
\* nothing is kept for 3 * TTL.
THEOREM FanOutKeepsPins == Spec => PinsKeepTheirPromise
BY FanOutImplementsPins, PinsKeepTheirPromiseHolds

\* A client that is answered while its handler collects is answered by the result
\* of a broadcast's loop, of a lookup's, or of its grace period.
LEMMA TellsWhileCollecting ==
  ASSUME FanInv, [Next]_vars, NEW h \in Handlers, Tells(h), req[h].pc = "collect"
  PROVE  CollectBroadcast(h) \/ CollectLookup(h) \/ GraceEnds(h)
<1> DEFINE q == req[h]
<1>1. q \in Requests /\ RequestInv(q) /\ req'[h].pc = "idle" /\ req'[h].told # "none" /\ q.pc = "collect"
  BY DEF FanInv, Tells
<1>2. ASSUME NEW g \in Handlers, g # h, NEW r, req' = [req EXCEPT ![g] = r] PROVE FALSE
  BY <1>1, <1>2 DEF FanInv
<1>3. ASSUME NEW g \in Handlers, NEW t \in Txns, NEW s \in Selections,
             Broadcast(g, t, s) \/ Lookup(g, t, s)
      PROVE  FALSE
  <2>1. g # h
    BY <1>1, <1>3 DEF Broadcast, Lookup, Free
  <2>2. \E r : req' = [req EXCEPT ![g] = r]
    BY <1>3 DEF Broadcast, Lookup
  <2> QED BY <1>2, <2>1, <2>2
<1>4. ASSUME NEW g \in Handlers, NEW n \in Nodes, NEW a \in Answers, NEW over \in BOOLEAN,
             TaskEnds(g, n, a, over)
      PROVE  FALSE
  <2>1. CASE g # h
    <3>1. \E r : req' = [req EXCEPT ![g] = r]
      BY <1>4 DEF TaskEnds
    <3> QED BY <1>2, <2>1, <3>1
  <2>2. CASE g = h
    <3> DEFINE r == [q EXCEPT !.task[n] = a, !.results = Append(@, n)]
    <3>1. req' = [req EXCEPT ![h] = r]
      BY <1>1, <1>4, <2>2 DEF TaskEnds
    <3>2. r.pc = "collect"
      BY <1>1 DEF Requests
    <3> HIDE DEF r
    <3> QED BY <1>1, <3>1, <3>2 DEF FanInv
  <2> QED BY <2>1, <2>2
<1>5. ASSUME NEW g \in Handlers, NEW a \in Answers, ForwardEnds(g, a) PROVE FALSE
  <2>1. g # h
    BY <1>1, <1>5 DEF ForwardEnds
  <2>2. req'[h] = req[h]
    BY <1>5, <2>1 DEF ForwardEnds, Relayed, TryNext, FanInv
  <2> QED BY <1>1, <2>2
<1>6. ASSUME NEW g \in Handlers, CollectBroadcast(g) \/ CollectLookup(g) \/ GraceEnds(g)
      PROVE  g = h
  <2>1. \E r : req' = [req EXCEPT ![g] = r]
    BY <1>6 DEF CollectBroadcast, CollectLookup, GraceEnds, Conclude
  <2> QED BY <1>2, <2>1
<1>7. ASSUME NEW g \in Handlers, LookupLeft(g) PROVE FALSE
  <2>1. req' = [req EXCEPT ![g] = Return(req[g], "none")]
    BY <1>7 DEF LookupLeft, FanInv
  <2>2. Return(req[h], "none").told = "none"
    BY <1>1, ReturnOK
  <2> QED BY <1>1, <1>2, <2>1, <2>2 DEF FanInv
<1>8. ASSUME NEW g \in Handlers, NEW c, req' = [req EXCEPT ![g].ctx = c] PROVE FALSE
  <2>1. req'[h].pc = req[h].pc
    <3>1. CASE g = h
      <4> DEFINE r == [q EXCEPT !.ctx = c]
      <4>1. req' = [req EXCEPT ![h] = r] /\ r.pc = q.pc
        BY <1>1, <1>8, <3>1 DEF FanInv, Requests
      <4> HIDE DEF r
      <4> QED BY <4>1 DEF FanInv
    <3>2. CASE g # h
      BY <1>8, <3>2 DEF FanInv
    <3> QED BY <3>1, <3>2
  <2> QED BY <1>1, <2>1
<1>9. ASSUME UNCHANGED fanVars PROVE FALSE
  BY <1>1, <1>9 DEF fanVars
<1> QED BY <1>3, <1>4, <1>5, <1>6, <1>7, <1>8, <1>9 DEF Next, ClientLeaves, TimeRunsOut, Tick, vars

\* What the client is told when its handler returns.
LEMMA ToldByReturn ==
  ASSUME FanInv, NEW h \in Handlers, NEW told \in Answers \cup {"none"},
         req' = [req EXCEPT ![h] = Return(req[h], told)]
  PROVE  req'[h].pc = "idle" /\ req'[h].told = told
<1>1. Return(req[h], told).pc = "idle" /\ Return(req[h], told).told = told
  BY ReturnOK DEF FanInv
<1>2. req'[h] = Return(req[h], told)
  BY DEF FanInv
<1> QED BY <1>1, <1>2

\* The best of a lookup, whether a result ends it or the grace period.
LEMMA ConcludeTells ==
  ASSUME FanInv, NEW h \in Handlers, req[h].pc = "collect",
         NEW n \in In(req[h].order), req[h].task[n] # "run", Conclude(h, n)
  PROVE  req'[h].told = req[h].task[n] /\ req[h].task[n] \in Replies(req[h].kind)
<1>1. req[h] \in Requests /\ TasksInv(req[h])
  BY DEF FanInv, RequestInv
<1>2. n \in Nodes
  BY <1>1 DEF Requests, In
<1>3. req[h].task[n] \in Replies(req[h].kind) /\ req[h].kind \in {"broadcast", "lookup"}
  BY <1>1, <1>2 DEF TasksInv, Requests
<1>4. req[h].task[n] \in Answers
  BY <1>3, RepliesAreAnswers
<1>5. req' = [req EXCEPT ![h] = Return(req[h], req[h].task[n])]
  BY DEF Conclude
<1> QED BY <1>3, <1>4, <1>5, ToldByReturn

LEMMA RejectionStep ==
  ASSUME FanInv, [Next]_vars, NEW h \in Handlers, Tells(h), req[h].pc = "collect",
         req[h].kind = "broadcast", req'[h].told # "ok", NEW m \in In(req[h].order)
  PROVE  /\ req[h].task[m] \notin {"ok", "run"}
         /\ req[h].task[m] = "rejected" => req'[h].told = "rejected"
<1> DEFINE q == req[h]
           n == Head(q.results)
           b == BestSoFar(q, n)
           r == [q EXCEPT !.results = Tail(@), !.chosen = b, !.left = @ - 1]
<1>1. q \in Requests /\ RequestInv(q) /\ TasksInv(q) /\ BestInv(q) /\ m \in Nodes /\ q.kind = "broadcast"
  BY DEF FanInv, RequestInv, Requests, In
<1>2. CollectBroadcast(h)
  <2>1. ~GraceEnds(h) /\ ~CollectLookup(h)
    BY <1>1 DEF GraceEnds, CollectLookup, BestInv
  <2> QED BY <2>1, TellsWhileCollecting
<1>3. q.results # <<>>
  BY <1>2 DEF CollectBroadcast
<1>4. n \in Nodes /\ n \in In(q.order) /\ q.task[n] \in Replies("broadcast") /\ q.task[n] \in Answers /\ (q.left = 1 => Untaken(q) = {n})
  BY <1>1, <1>3, HeadOK
<1>5. b \in Taken(q) \cup {n} /\ \A k \in Taken(q) \cup {n} : FanRank(q.task[k]) <= FanRank(q.task[b])
  BY <1>1, <1>4, BestSoFarOK
<1>6. /\ r.pc = "collect" /\ r.chosen = b
      /\ \A e : [r EXCEPT !.pc = "external", !.at = e].pc = "external"
  BY <1>1 DEF Requests
<1>7. \/ q.task[n] = "ok" /\ req' = [req EXCEPT ![h] = Return(q, "ok")]
      \/ q.task[n] # "ok" /\ req' = [req EXCEPT ![h] = r]
      \/ /\ q.task[n] # "ok" /\ q.left = 1
         /\ req' = [req EXCEPT ![h] = Return(q, q.task[r.chosen])]
      \/ /\ q.task[n] # "ok"
         /\ \E e \in Externals : req' = [req EXCEPT ![h] = [r EXCEPT !.pc = "external", !.at = e]]
  BY <1>2 DEF CollectBroadcast, CollectedAll
<1>8. req'[h].pc = "idle"
  BY DEF Tells
<1>9. q.task[n] # "ok"
  <2>1. "ok" \in Answers
    BY DEF Answers
  <2> QED BY <1>7, <2>1, ToldByReturn
<1> HIDE DEF r
<1>10. q.left = 1 /\ req' = [req EXCEPT ![h] = Return(q, q.task[b])]
  <2>1. req' # [req EXCEPT ![h] = r]
    BY <1>6, <1>8 DEF FanInv
  <2>2. \A e : req' # [req EXCEPT ![h] = [r EXCEPT !.pc = "external", !.at = e]]
    <3> SUFFICES ASSUME NEW e, req' = [req EXCEPT ![h] = [r EXCEPT !.pc = "external", !.at = e]]
                 PROVE  FALSE
      OBVIOUS
    <3> DEFINE x == [r EXCEPT !.pc = "external", !.at = e]
    <3>1. x.pc = "external"
      BY <1>6
    <3>2. req' = [req EXCEPT ![h] = x]
      OBVIOUS
    <3> HIDE DEF x
    <3> QED BY <1>8, <3>1, <3>2 DEF FanInv
  <2> QED BY <1>6, <1>7, <1>9, <2>1, <2>2
<1>11. Untaken(q) = {n} /\ In(q.order) = Taken(q) \cup {n}
  BY <1>4, <1>10 DEF Taken
<1>12. \A k \in Taken(q) : q.task[k] \in Replies("broadcast") /\ q.task[k] # "ok"
  <2>1. In(q.order) \subseteq Nodes
    BY <1>1 DEF Requests, In
  <2> QED BY <1>1, <2>1 DEF Taken, Untaken, TasksInv, BestInv
<1>13. /\ q.task[m] \in Replies("broadcast") /\ q.task[m] # "ok"
       /\ q.task[b] \in Replies("broadcast") /\ q.task[b] # "ok"
       /\ FanRank(q.task[m]) <= FanRank(q.task[b])
  BY <1>4, <1>5, <1>9, <1>11, <1>12
<1>14. req'[h].told = q.task[b]
  BY <1>10, <1>13, ToldByReturn, RepliesAreAnswers
<1>15. \A a \in Replies("broadcast") : a \in {"ok", "rejected", "withheld", "err"}
  BY DEF Replies, Unanswered
<1>16. q.task[m] = "rejected" => q.task[b] = "rejected"
  BY <1>13, <1>15 DEF FanRank
<1> QED BY <1>13, <1>14, <1>15, <1>16

\* A client is told that its broadcast failed only when every node it was sent to has
\* answered and none has accepted it, and no failure to answer hides a rejection,
\* for any number of nodes and any order of their answers (handleBroadcast).
THEOREM RejectionHidesNothingHolds == Spec => RejectionHidesNothing
<1>1. FanInv /\ [Next]_vars =>
        [\A h \in Handlers :
           Tells(h) /\ req[h].pc = "collect" /\ req[h].kind = "broadcast" /\ req'[h].told # "ok"
             => \A n \in In(req[h].order) :
                  /\ req[h].task[n] \notin {"ok", "run"}
                  /\ req[h].task[n] = "rejected" => req'[h].told = "rejected"]_vars
  BY RejectionStep
<1> QED BY <1>1, FanInvariant, PTL DEF Spec, RejectionHidesNothing

LEMMA NotFoundStep ==
  ASSUME FanInv, [Next]_vars, NEW h \in Handlers, Tells(h), req[h].pc = "collect",
         req[h].kind = "lookup", req'[h].told \notin Held, NEW m \in In(req[h].order)
  PROVE  req[h].task[m] \notin Held \cup {"run"}
<1> DEFINE q == req[h]
           n == Head(q.results)
           b == BestAnswer(q, n)
<1>1. /\ q \in Requests /\ RequestInv(q) /\ TasksInv(q) /\ BestInv(q) /\ q.kind = "lookup"
      /\ q.pc = "collect" /\ In(q.order) \subseteq Nodes
  BY DEF FanInv, RequestInv, Requests, In
<1>2. \A a \in Replies("lookup") : PendingRank(a) >= 3 <=> a \in Held
  BY FanAssumption DEF Replies, PendingRank, Held
<1>3. \A k \in Taken(q) : k \in In(q.order) /\ q.task[k] # "run" /\ q.task[k] \in Replies("lookup")
  BY <1>1 DEF Taken, Untaken, TasksInv
<1>4. ~GraceEnds(h)
  <2> SUFFICES ASSUME GraceEnds(h) PROVE FALSE
    OBVIOUS
  <2>1. q.chosen \in Taken(q) /\ PendingRank(q.task[q.chosen]) >= 3 /\ Conclude(h, q.chosen)
    BY <1>1 DEF GraceEnds, BestInv
  <2>2. q.task[q.chosen] \in Held
    BY <1>2, <1>3, <2>1
  <2>3. req'[h].told = q.task[q.chosen]
    BY <1>1, <1>3, <2>1, ConcludeTells
  <2> QED BY <2>2, <2>3
<1>5. CollectLookup(h)
  <2>1. ~CollectBroadcast(h)
    BY DEF CollectBroadcast
  <2> QED BY <1>4, <2>1, TellsWhileCollecting
<1>6. q.results # <<>>
  BY <1>5 DEF CollectLookup
<1>7. /\ n \in Nodes /\ n \in In(q.order) /\ q.task[n] \in Replies("lookup")
      /\ q.left = 1 => Untaken(q) = {n}
  BY <1>1, <1>6, HeadOK
<1>8. /\ b \in Taken(q) \cup {n}
      /\ \A k \in Taken(q) \cup {n} : PendingRank(q.task[k]) <= PendingRank(q.task[b])
  BY <1>1, <1>7, BestAnswerOK
<1>9. b \in In(q.order) /\ q.task[b] \in Replies("lookup") /\ q.task[b] # "run"
  BY <1>3, <1>7, <1>8, RepliesAreAnswers
<1>10. Conclude(h, b) /\ (q.task[b] = "confirmed" \/ q.left = 1)
  <2> DEFINE r == [q EXCEPT !.results = Tail(@), !.chosen = b, !.left = @ - 1,
                            !.grace = @ \/ StartsGrace(q.task[b])]
  <2>1. r.pc = "collect"
    BY <1>1 DEF Requests
  <2>2. \/ Conclude(h, b) /\ (q.task[b] = "confirmed" \/ q.left = 1)
        \/ req' = [req EXCEPT ![h] = r]
    BY <1>5 DEF CollectLookup
  <2> HIDE DEF r
  <2>3. req' # [req EXCEPT ![h] = r]
    BY <2>1 DEF Tells, FanInv
  <2> QED BY <2>2, <2>3
<1>11. req'[h].told = q.task[b]
  BY <1>1, <1>9, <1>10, ConcludeTells
<1>12. q.left = 1
  BY <1>10, <1>11 DEF Held
<1>13. m \in Taken(q) \cup {n}
  BY <1>7, <1>12 DEF Taken
<1>14. q.task[m] \in Replies("lookup") /\ q.task[m] # "run"
  BY <1>3, <1>7, <1>13, RepliesAreAnswers
<1>15. ~(PendingRank(q.task[b]) >= 3)
  BY <1>2, <1>9, <1>11
<1>16. ~(PendingRank(q.task[m]) >= 3)
  BY <1>8, <1>13, <1>15, RanksAreNumbers
<1> QED BY <1>2, <1>14, <1>16

\* A lookup answers that a transaction is unknown, or that the nodes failed, only when
\* every node has answered and none of them holds it: the grace period begins only
\* with an answer that a client is given in the end (handlePending).
THEOREM NotFoundIsEverywhereHolds == Spec => NotFoundIsEverywhere
<1>1. FanInv /\ [Next]_vars =>
        [\A h \in Handlers :
           Tells(h) /\ req[h].pc = "collect" /\ req[h].kind = "lookup" /\ req'[h].told \notin Held
             => \A n \in In(req[h].order) : req[h].task[n] \notin Held \cup {"run"}]_vars
  BY NotFoundStep
<1> QED BY <1>1, FanInvariant, PTL DEF Spec, NotFoundIsEverywhere

\* A step that changes what recall finds of a transaction to another node is a
\* remember of that node.
LEMMA NewPin ==
  ASSUME PinInv, PinInv', [PinsNext]_pinVars, NEW t \in Txns,
         Recalled(t)' # None, Recalled(t)' # Recalled(t)
  PROVE  ~PinsAge /\ ~Recall /\ ~UNCHANGED pinVars
BY AgeShows, RecallShows, StillShown

LEMMA RememberedPin ==
  ASSUME PinInv, NEW t \in Txns, NEW u \in Txns, NEW n \in Nodes, Remember(u, n),
         Recalled(t)' # Recalled(t)
  PROVE  t = u /\ Recalled(t)' = n
BY RememberShows

LEMMA PinsNameStep ==
  ASSUME FanInv, PinInv, PinInv', [Next]_vars, NEW t \in Txns,
         Recalled(t)' \notin {None, Recalled(t)}
  PROVE  \E h \in Handlers :
           /\ req[h].tx = t /\ Tells(h) /\ req'[h].told \in Held
           /\ Recalled(t)' = req[h].at \/ req[h].task[Recalled(t)'] = req'[h].told
<1>1. [PinsNext]_pinVars
  BY PinsStep
<1>2. ~PinsAge /\ ~Recall /\ ~UNCHANGED pinVars
  BY <1>1, NewPin
<1>3. ASSUME NEW h \in Handlers, NEW a \in Answers, ForwardEnds(h, a)
      PROVE  /\ req[h].tx = t /\ Tells(h) /\ req'[h].told \in Held
             /\ Recalled(t)' = req[h].at
  <2>1. Relayed(h, a) /\ a = "ok" /\ Remember(req[h].tx, req[h].at)
    BY <1>2, <1>3 DEF ForwardEnds, Relayed
  <2>2. req[h].tx \in Txns /\ req[h].at \in Nodes /\ req[h].pc # "idle"
    BY <1>3 DEF ForwardEnds, FanInv, RequestInv, AloneInv, ExternalInv
  <2>3. t = req[h].tx /\ Recalled(t)' = req[h].at
    BY <2>1, <2>2, RememberedPin
  <2>4. req'[h].pc = "idle" /\ req'[h].told = "ok"
    BY <2>1, ToldByReturn DEF Relayed
  <2> QED BY <2>2, <2>3, <2>4 DEF Tells, Held
<1>4. ASSUME NEW h \in Handlers, CollectBroadcast(h)
      PROVE  /\ req[h].tx = t /\ Tells(h) /\ req'[h].told \in Held
             /\ req[h].task[Recalled(t)'] = req'[h].told
  <2> DEFINE n == Head(req[h].results)
  <2>1. /\ req[h].task[n] = "ok" /\ Remember(req[h].tx, n) /\ req[h].pc = "collect"
        /\ req' = [req EXCEPT ![h] = Return(req[h], "ok")]
    BY <1>2, <1>4 DEF CollectBroadcast
  <2>2. req[h].tx \in Txns /\ n \in Nodes
    BY <1>4, HeadOK DEF CollectBroadcast, FanInv, RequestInv
  <2>3. t = req[h].tx /\ Recalled(t)' = n
    BY <2>1, <2>2, RememberedPin
  <2>4. req'[h].pc = "idle" /\ req'[h].told = "ok"
    BY <2>1, ToldByReturn DEF Answers
  <2> QED BY <2>1, <2>3, <2>4 DEF Tells, Held
<1>5. ASSUME NEW h \in Handlers, NEW n \in Nodes, Conclude(h, n), req[h].pc = "collect"
      PROVE  /\ req[h].tx = t /\ Tells(h) /\ req'[h].told \in Held
             /\ req[h].task[Recalled(t)'] = req'[h].told
  <2>1. /\ req[h].task[n] \in {"inPool", "poolError"} /\ Remember(req[h].tx, n)
        /\ req' = [req EXCEPT ![h] = Return(req[h], req[h].task[n])]
    BY <1>2, <1>5 DEF Conclude, Pins
  <2>2. req[h].tx \in Txns
    BY <1>5 DEF FanInv, RequestInv
  <2>3. t = req[h].tx /\ Recalled(t)' = n
    BY <2>1, <2>2, RememberedPin
  <2>4. req'[h].pc = "idle" /\ req'[h].told = req[h].task[n]
    BY <2>1, ToldByReturn DEF Answers
  <2> QED BY <1>5, <2>1, <2>3, <2>4 DEF Tells, Held
<1>6. ASSUME NEW h \in Handlers, CollectLookup(h) \/ GraceEnds(h)
      PROVE  /\ req[h].tx = t /\ Tells(h) /\ req'[h].told \in Held
             /\ req[h].task[Recalled(t)'] = req'[h].told
  <2>1. req[h].pc = "collect" /\ \E n \in Nodes : Conclude(h, n)
    BY <1>2, <1>6, ConcludesWithNode DEF CollectLookup, GraceEnds
  <2> QED BY <1>5, <2>1
<1> QED BY <1>2, <1>3, <1>4, <1>6 DEF Next, Broadcast, Lookup, TaskEnds, LookupLeft, ClientLeaves,
        TimeRunsOut, Tick, vars

\* A lookup is sent first to another node than before only when that node has just
\* answered that it holds the transaction, and the client is given its answer
\* (rememberTxn's callers).
THEOREM PinsNameHoldersHolds == Spec => PinsNameHolders
<1>1. FanInv /\ PinInv /\ PinInv' /\ [Next]_vars =>
        [\A t \in Txns : Recalled(t)' \notin {None, Recalled(t)} =>
           \E h \in Handlers :
             /\ req[h].tx = t /\ Tells(h) /\ req'[h].told \in Held
             /\ Recalled(t)' = req[h].at \/ req[h].task[Recalled(t)'] = req'[h].told]_vars
  BY PinsNameStep
<1> QED BY <1>1, FanInvariant, FanOutImplementsPins, PinsInvariant, PTL DEF Spec, PinsNameHolders

LEMMA BookedStep ==
  ASSUME FanInv, [Next]_vars, NEW n \in Nodes, failing'[n] # failing[n]
  PROVE  \E h \in Handlers : req[h].pc # "idle" /\ (req[h].task[n] = "run" \/ req[h].at = n)
<1>1. ASSUME NEW h \in Handlers, NEW m \in Nodes, NEW a \in Answers, NEW over \in BOOLEAN,
             TaskEnds(h, m, a, over)
      PROVE  req[h].pc # "idle" /\ req[h].task[n] = "run"
  <2>1. failing' # failing
    OBVIOUS
  <2>2. Books(req[h]) /\ failing' = [failing EXCEPT ![m] = Failed(a)]
    BY <1>1, <2>1 DEF TaskEnds
  <2>3. m = n
    BY <2>2 DEF FanInv
  <2> QED BY <1>1, <2>2, <2>3 DEF TaskEnds, Books
<1>2. ASSUME NEW h \in Handlers, NEW a \in Answers, ForwardEnds(h, a)
      PROVE  req[h].pc # "idle" /\ req[h].at = n
  <2>1. failing' = [failing EXCEPT ![req[h].at] = Failed(a)] /\ req[h].pc # "idle"
    BY <1>2 DEF ForwardEnds
  <2>2. req[h].at = n
    BY <2>1 DEF FanInv
  <2> QED BY <2>1, <2>2
<1> QED BY <1>1, <1>2 DEF Next, Broadcast, Lookup, CollectBroadcast, CollectLookup, GraceEnds,
        LookupLeft, ClientLeaves, TimeRunsOut, Tick, fanVars, vars

\* What is left of a fan-out once its client has been answered, and is then cancelled,
\* says nothing about the nodes in the StatsBook (fanOut).
THEOREM LeftoversAreNotBookedHolds == Spec => LeftoversAreNotBooked
<1>1. FanInv /\ [Next]_vars =>
        [\A n \in Nodes : failing'[n] # failing[n] =>
           \E h \in Handlers :
             req[h].pc # "idle" /\ (req[h].task[n] = "run" \/ req[h].at = n)]_vars
  BY BookedStep
<1> QED BY <1>1, FanInvariant, PTL DEF Spec, LeftoversAreNotBooked
=============================================================================
