----------------------------- MODULE FleetProofs -----------------------------
(***************************************************************************)
(* Routing, for any fleet and any situation it may be in: who is selected  *)
(* holds the round it is asked for, who could answer is not passed over,   *)
(* an outage relaxes nothing, and the limits told are served.  The proofs  *)
(* follow the router: what Classify asks for, who is Eligible for it, what *)
(* Select makes of them, and which of the classes the request is sent by.  *)
(***************************************************************************)
EXTENDS Fleet, FiniteSetTheorems, SequenceTheorems, WellFoundedInduction, TLAPS

-----------------------------------------------------------------------------
(* Sorting.  Select's order is total, so that a finite set of upstreams    *)
(* has a least member and can be sorted.  Both are inductions on its size. *)

LEMMA LeastNumber ==
  ASSUME NEW T \in SUBSET Nat, T # {}
  PROVE  \E n \in T : \A m \in T : n <= m
<1> DEFINE R == OpToRel(<, Nat)
<1>1. IsWellFoundedOn(R, Nat)
  BY NatLessThanWellFounded
<1>2. \A x, y \in Nat : y < x => <<y, x>> \in R
  BY DEF OpToRel
<1> HIDE DEF R
<1>3. PICK n \in T : \A m \in T : ~(<<m, n>> \in R)
  BY <1>1, WFMin
<1>4. \A m \in T : ~(m < n)
  BY <1>2, <1>3
<1>5. \A m \in T : n <= m
  BY <1>4
<1> QED BY <1>5

\* Induction, of a set of numbers.
LEMMA Inductive ==
  ASSUME NEW S, 0 \in S, \A n \in Nat : n \in S => n + 1 \in S
  PROVE  \A n \in Nat : n \in S
<1> SUFFICES ASSUME Nat \ S # {} PROVE FALSE
  OBVIOUS
<1>1. PICK n \in Nat \ S : \A m \in Nat \ S : n <= m
  BY LeastNumber
<1>2. n # 0 /\ n - 1 \in Nat /\ n - 1 \in S
  BY <1>1
<1>3. (n - 1) + 1 \in S
  BY <1>2
<1> QED BY <1>1, <1>3

TotalOn(R, S) ==
  /\ \A x, y \in S : x # y => <<x, y>> \in R \/ <<y, x>> \in R
  /\ \A x, y, z \in S : <<x, y>> \in R /\ <<y, z>> \in R => <<x, z>> \in R

Least(R, T, x) == x \in T /\ \A y \in T \ {x} : <<x, y>> \in R

LEMMA LeastExists ==
  ASSUME NEW S, IsFiniteSet(S), NEW R, TotalOn(R, S), NEW T \in SUBSET S, T # {}
  PROVE  \E x : Least(R, T, x)
<1> DEFINE Good(U) == U # {} => \E x : Least(R, U, x)
           N == {n \in Nat : \A U \in SUBSET S : Cardinality(U) = n => Good(U)}
<1>1. 0 \in N
  <2> SUFFICES ASSUME NEW U \in SUBSET S, Cardinality(U) = 0 PROVE U = {}
    OBVIOUS
  <2> QED BY FS_Subset, FS_EmptySet
<1>2. ASSUME NEW n \in Nat, n \in N PROVE n + 1 \in N
  <2> SUFFICES ASSUME NEW U \in SUBSET S, Cardinality(U) = n + 1, U # {}
               PROVE  \E x : Least(R, U, x)
    OBVIOUS
  <2>1. PICK a : a \in U
    OBVIOUS
  <2>2. Cardinality(U \ {a}) = n /\ U \ {a} \in SUBSET S
    <3>1. Cardinality(U \ {a}) = Cardinality(U) - 1
      BY <2>1, FS_Subset, FS_RemoveElement
    <3> QED BY <3>1
  <2>3. Good(U \ {a})
    BY <1>2, <2>2
  <2>4. CASE U \ {a} = {}
    BY <2>1, <2>4 DEF Least
  <2>5. CASE U \ {a} # {}
    <3>1. PICK m : Least(R, U \ {a}, m)
      BY <2>3, <2>5
    <3>2. m \in S /\ a \in S /\ m # a /\ m \in U
      BY <2>1, <3>1 DEF Least
    <3>3. CASE <<m, a>> \in R
      <4>1. Least(R, U, m)
        BY <3>1, <3>2, <3>3 DEF Least
      <4> QED BY <4>1
    <3>4. CASE <<a, m>> \in R
      <4>1. \A y \in U \ {a} : <<a, y>> \in R
        BY <3>1, <3>2, <3>4 DEF Least, TotalOn
      <4>2. Least(R, U, a)
        BY <2>1, <4>1 DEF Least
      <4> QED BY <4>2
    <3> QED BY <3>2, <3>3, <3>4 DEF TotalOn
  <2> QED BY <2>4, <2>5
<1> HIDE DEF N
<1>3. \A n \in Nat : n \in N
  BY <1>1, <1>2, Inductive
<1>4. Cardinality(T) \in N
  BY <1>3, FS_Subset, FS_CardinalityType
<1> QED BY <1>4 DEF N

Ascends(f, n, R) == \A i, j \in 1 .. n : i < j => <<f[i], f[j]>> \in R

\* A finite set that is totally ordered can be sorted.
LEMMA SortExists ==
  ASSUME NEW S, IsFiniteSet(S), NEW R, TotalOn(R, S)
  PROVE  \E f \in [1 .. Cardinality(S) -> S] : Ascends(f, Cardinality(S), R)
<1> DEFINE Good(U, n) == \E f \in [1 .. n -> U] : Ascends(f, n, R)
           N == {n \in Nat : \A U \in SUBSET S : Cardinality(U) = n => Good(U, n)}
<1>1. 0 \in N
  <2> SUFFICES ASSUME NEW U \in SUBSET S PROVE Good(U, 0)
    OBVIOUS
  <2>1. [i \in 1 .. 0 |-> i] \in [1 .. 0 -> U] /\ Ascends([i \in 1 .. 0 |-> i], 0, R)
    BY DEF Ascends
  <2> QED BY <2>1
<1>2. ASSUME NEW n \in Nat, n \in N PROVE n + 1 \in N
  <2> SUFFICES ASSUME NEW U \in SUBSET S, Cardinality(U) = n + 1 PROVE Good(U, n + 1)
    OBVIOUS
  <2>1. U # {} /\ IsFiniteSet(U)
    BY FS_Subset, FS_EmptySet
  <2>2. PICK m : Least(R, U, m)
    BY <2>1, LeastExists
  <2>3. Cardinality(U \ {m}) = n /\ U \ {m} \in SUBSET S /\ m \in U
    <3>1. m \in U
      BY <2>2 DEF Least
    <3>2. Cardinality(U \ {m}) = Cardinality(U) - 1
      BY <2>1, <3>1, FS_RemoveElement
    <3> QED BY <3>1, <3>2
  <2>4. PICK f \in [1 .. n -> U \ {m}] : Ascends(f, n, R)
    BY <1>2, <2>3
  <2> DEFINE g == [i \in 1 .. n + 1 |-> IF i = 1 THEN m ELSE f[i - 1]]
  <2>5. \A i \in 1 .. n + 1 : i # 1 => i - 1 \in 1 .. n /\ f[i - 1] \in U \ {m}
    OBVIOUS
  <2>6. g \in [1 .. n + 1 -> U]
    BY <2>3, <2>5
  <2>7. ASSUME NEW i \in 1 .. n + 1, NEW j \in 1 .. n + 1, i < j PROVE <<g[i], g[j]>> \in R
    <3>1. j # 1 /\ g[j] = f[j - 1] /\ f[j - 1] \in U \ {m} /\ j - 1 \in 1 .. n
      BY <2>5, <2>7
    <3>2. CASE i = 1
      BY <2>2, <3>1, <3>2 DEF Least
    <3>3. CASE i # 1
      <4>1. g[i] = f[i - 1] /\ i - 1 \in 1 .. n /\ i - 1 < j - 1
        BY <2>5, <2>7, <3>3
      <4>2. <<f[i - 1], f[j - 1]>> \in R
        BY <2>4, <3>1, <4>1 DEF Ascends
      <4> HIDE DEF g
      <4> QED BY <3>1, <4>1, <4>2
    <3> QED BY <3>2, <3>3
  <2>8. Ascends(g, n + 1, R)
    BY <2>7 DEF Ascends
  <2> HIDE DEF g
  <2> QED BY <2>6, <2>8
<1> HIDE DEF N
<1>3. \A n \in Nat : n \in N
  BY <1>1, <1>2, Inductive
<1>4. Cardinality(S) \in N /\ Cardinality(S) \in Nat /\ S \in SUBSET S
  BY <1>3, FS_CardinalityType
<1> QED BY <1>4 DEF N

\* What Sorted returns: every member once, in order.
LEMMA SortedOK ==
  ASSUME NEW S, IsFiniteSet(S), NEW R, TotalOn(R, S), \A x \in S : <<x, x>> \notin R
  PROVE  /\ Cardinality(S) \in Nat
         /\ Sorted(S, R) \in [1 .. Cardinality(S) -> S]
         /\ Ascends(Sorted(S, R), Cardinality(S), R)
         /\ \A x \in S : \E i \in 1 .. Cardinality(S) : Sorted(S, R)[i] = x
<1> DEFINE n == Cardinality(S)
           f == Sorted(S, R)
<1>1. n \in Nat
  BY FS_CardinalityType
<1>2. f \in [1 .. n -> S] /\ Ascends(f, n, R)
  BY SortExists DEF Sorted, Ascends
<1>3. \A i, j \in 1 .. n : f[i] = f[j] => i = j
  <2> SUFFICES ASSUME NEW i \in 1 .. n, NEW j \in 1 .. n, f[i] = f[j], i # j PROVE FALSE
    OBVIOUS
  <2>1. i < j \/ j < i
    BY <1>1
  <2> HIDE DEF f
  <2>2. <<f[i], f[j]>> \in R \/ <<f[j], f[i]>> \in R
    BY <1>2, <2>1 DEF Ascends
  <2> QED BY <1>2, <2>2
<1>4. \A x \in S : \E i \in 1 .. n : f[i] = x
  <2> HIDE DEF f
  <2>1. IsInjective(f)
    BY <1>2, <1>3 DEF IsInjective
  <2>2. f \in Injection(1 .. n, S)
    BY <1>2, <1>3, <2>1 DEF Injection
  <2>3. IsFiniteSet(1 .. n) /\ Cardinality(1 .. n) = n
    BY <1>1, FS_Interval
  <2>4. f \in Surjection(1 .. n, S)
    BY <2>2, <2>3, FS_Injection
  <2> QED BY <2>4 DEF Surjection
<1> QED BY <1>1, <1>2, <1>4

-----------------------------------------------------------------------------
(* The candidates.                                                         *)

Records0 == [Others -> Facts \cup {None}]

\* What is known of a candidate, and how it follows from the situation.
LEMMA CandidateOK ==
  ASSUME NEW s, IsSituation(s), NEW recs0 \in Records0, NEW u \in Known(recs0),
         NEW x, x = Candidate(s, recs0, u)
  PROVE  /\ u \in Upstreams
         /\ x.id = u /\ x.kind = KindOf(u) /\ x.tier \in Nat /\ x.rank = Rank[u] /\ Rank[u] \in Nat
         /\ x.last \in Nat /\ x.measured = 20 /\ x.excluded = FALSE /\ x.throttled = FALSE
         /\ x.health = Health(s, u, Best(s, recs0))
         /\ (x.draining <=> s.out[u] = "draining") /\ (x.breaker <=> s.out[u] = "breaker")
         /\ (x.busy <=> s.out[u] = "busy")
         /\ ~Silent(s, u) => x.last = s.seen[u] /\ x.caps = ToldCaps(s, u)
         /\ s.at[u] \in Nat /\ s.seen[u] \in Nat /\ s.seen[u] <= s.at[u]
<1>1. u \in Upstreams /\ (u \in Others => recs0[u] \in Nat)
  BY FleetAssumption, RegistryAssumption DEF Known, Upstreams, Agents, Records0
<1>2. s.at[u] \in Nat /\ s.seen[u] \in Nat /\ s.seen[u] <= s.at[u]
  BY <1>1 DEF IsSituation
<1>4. /\ x.id = u /\ x.kind = KindOf(u) /\ x.rank = Rank[u] /\ x.measured = 20
      /\ x.excluded = FALSE /\ x.throttled = FALSE
      /\ x.health = Health(s, u, Best(s, recs0))
      /\ (x.draining <=> s.out[u] = "draining") /\ (x.breaker <=> s.out[u] = "breaker")
      /\ (x.busy <=> s.out[u] = "busy")
      /\ x.tier = (IF u \in Others THEN recs0[u] ELSE 0)
      /\ x.last = (IF Silent(s, u) THEN 0 ELSE s.seen[u])
      /\ x.caps = (IF Silent(s, u) THEN NoCaps ELSE ToldCaps(s, u))
  BY DEF Candidate
<1>5. x.tier \in Nat /\ x.last \in Nat /\ Rank[u] \in Nat
  BY <1>1, <1>2, <1>4, FleetAssumption
<1> QED BY <1>1, <1>2, <1>4, <1>5

LEMMA SnapshotOK ==
  ASSUME NEW s, IsSituation(s), NEW recs0 \in Records0
  PROVE  /\ IsFiniteSet(Known(recs0)) /\ IsFiniteSet(Snapshot(s, recs0))
         /\ \A x \in Snapshot(s, recs0) :
              /\ x.tier \in Int /\ x.rank \in Int /\ x.last \in Int /\ x.measured \in Int
              /\ x.id \in Known(recs0) /\ x = Candidate(s, recs0, x.id)
         /\ \A x, y \in Snapshot(s, recs0) : x.rank = y.rank => x = y
<1>1. IsFiniteSet(Known(recs0))
  <2>1. IsFiniteSet({a \in Others : recs0[a] # None})
    BY FleetAssumption, FS_Subset
  <2>2. IsFiniteSet({Self, Ext})
    <3>1. IsFiniteSet({Self}) /\ IsFiniteSet({Ext}) /\ {Self, Ext} = {Self} \cup {Ext}
      BY FS_Singleton
    <3> QED BY <3>1, FS_Union
  <2> QED BY <2>1, <2>2, FS_Union DEF Known
<1>2. IsFiniteSet(Snapshot(s, recs0))
  <2> DEFINE f == [u \in Known(recs0) |-> Candidate(s, recs0, u)]
  <2>1. f \in Surjection(Known(recs0), Snapshot(s, recs0))
    BY DEF Surjection, Snapshot
  <2> HIDE DEF f
  <2> QED BY <1>1, <2>1, FS_Surjection
<1>3. ASSUME NEW x \in Snapshot(s, recs0)
      PROVE  /\ x.tier \in Int /\ x.rank \in Int /\ x.last \in Int /\ x.measured \in Int
             /\ x.id \in Known(recs0) /\ x = Candidate(s, recs0, x.id)
             /\ x.rank = Rank[x.id] /\ x.id \in Upstreams
  <2>1. PICK u \in Known(recs0) : x = Candidate(s, recs0, u)
    BY DEF Snapshot
  <2>2. /\ x.id = u /\ x.tier \in Nat /\ x.rank = Rank[u] /\ Rank[u] \in Nat /\ x.last \in Nat
        /\ x.measured = 20 /\ u \in Upstreams
    <3>1. x.id = u /\ x.rank = Rank[u] /\ x.measured = 20
      BY <2>1 DEF Candidate
    <3>2. x.tier \in Nat
      BY <2>1, CandidateOK, ZenonT(60)
    <3>3. Rank[u] \in Nat /\ u \in Upstreams
      BY <2>1, CandidateOK
    <3>4. x.last \in Nat
      <4>1. s.seen[u] \in Nat
        BY <3>3 DEF IsSituation
      <4>2. x.last = (IF Silent(s, u) THEN 0 ELSE s.seen[u])
        BY <2>1 DEF Candidate
      <4> QED BY <4>1, <4>2
    <3> QED BY <3>1, <3>2, <3>3, <3>4
  <2> QED BY <2>1, <2>2
<1>4. ASSUME NEW x \in Snapshot(s, recs0), NEW y \in Snapshot(s, recs0), x.rank = y.rank
      PROVE  x = y
  <2>1. Rank[x.id] = Rank[y.id] /\ x.id \in Upstreams /\ y.id \in Upstreams
    BY <1>3, <1>4
  <2>2. x.id = y.id
    BY <2>1, FleetAssumption
  <2> QED BY <1>3, <2>2
<1> QED BY <1>1, <1>2, <1>3, <1>4

\* The best round is one that was seen, or none.
LEMMA MaxOK ==
  ASSUME NEW S \in SUBSET Int, IsFiniteSet(S), S # {}
  PROVE  Max(S) \in S /\ \A x \in S : Max(S) >= x
<1> DEFINE R == {p \in S \X S : p[1] > p[2]}
<1>1. \A x, y \in S : <<x, y>> \in R <=> x > y
  OBVIOUS
<1> HIDE DEF R
<1>2. TotalOn(R, S)
  <2>1. \A x, y \in S : x # y => <<x, y>> \in R \/ <<y, x>> \in R
    BY <1>1
  <2>2. \A x, y, z \in S : <<x, y>> \in R /\ <<y, z>> \in R => <<x, z>> \in R
    BY <1>1
  <2> QED BY <2>1, <2>2 DEF TotalOn
<1>3. PICK m : Least(R, S, m)
  BY <1>2, LeastExists
<1>4. m \in S /\ \A x \in S : m >= x
  <2>1. m \in S /\ \A x \in S \ {m} : <<m, x>> \in R
    BY <1>3 DEF Least
  <2>2. \A x \in S \ {m} : m > x
    BY <1>1, <2>1
  <2> QED BY <2>1, <2>2
<1> QED BY <1>4 DEF Max

LEMMA BestType ==
  ASSUME NEW s, IsSituation(s), NEW recs0 \in Records0
  PROVE  Best(s, recs0) \in Nat
<1> DEFINE K == {v \in Known(recs0) : s.out[v] \notin {"silent", "offline"}}
           S == {0} \cup {s.seen[u] : u \in K}
<1>1. IsFiniteSet(K)
  BY SnapshotOK, FS_Subset
<1>2. IsFiniteSet({s.seen[u] : u \in K})
  <2> DEFINE f == [u \in K |-> s.seen[u]]
  <2>1. f \in Surjection(K, {s.seen[u] : u \in K})
    BY DEF Surjection
  <2> HIDE DEF f
  <2> QED BY <1>1, <2>1, FS_Surjection
<1>3. IsFiniteSet(S)
  BY <1>2, FS_Singleton, FS_Union
<1>4. S \subseteq Nat /\ S # {}
  <2>1. \A u \in Known(recs0) : s.seen[u] \in Nat
    BY CandidateOK
  <2> QED BY <2>1
<1>5. Best(s, recs0) = Max(S)
  BY DEF Best
<1> HIDE DEF S
<1>6. S \in SUBSET Int
  BY <1>4
<1>7. Max(S) \in S
  BY <1>3, <1>4, <1>6, MaxOK
<1> QED BY <1>4, <1>5, <1>7

-----------------------------------------------------------------------------
(* Selection.                                                              *)

LEMMA TierType ==
  ASSUME NEW mode, NEW u, u.tier \in Int
  PROVE  EffectiveTier(mode, u) \in Int
<1>1. \/ EffectiveTier(mode, u) = MinInt32
      \/ EffectiveTier(mode, u) = MaxInt32 \div 2 + u.tier
      \/ EffectiveTier(mode, u) = u.tier
  BY Zenon DEF EffectiveTier
<1>2. MinInt32 \in Int /\ MaxInt32 \div 2 + u.tier \in Int
  BY DEF MinInt32, MaxInt32
<1> QED BY <1>1, <1>2

LEMMA ScoreType ==
  ASSUME NEW u, u.last \in Int, u.measured \in Int, NEW best \in Int
  PROVE  Score(u, best) \in Int
<1>1. Larger(best - u.last, 0) \in Int
  BY DEF Larger
<1> QED BY <1>1 DEF Score

\* Select's comparison.
Precedes(mode, elig, c, best, u, v) ==
  LET tu == EffectiveTier(mode, u)
      tv == EffectiveTier(mode, v)
  IN \/ tu < tv
     \/ (tu = tv /\ ~Risky(elig, c, u) /\ Risky(elig, c, v))
     \/ /\ tu = tv /\ (Risky(elig, c, u) <=> Risky(elig, c, v))
        /\ \/ Score(u, best) < Score(v, best)
           \/ (Score(u, best) = Score(v, best) /\ u.rank < v.rank)

\* Upstreams that can be sorted: their keys are numbers, and no two have one ID.
Sortable(elig) ==
  /\ IsFiniteSet(elig)
  /\ \A x \in elig : x.tier \in Int /\ x.rank \in Int /\ x.last \in Int /\ x.measured \in Int
  /\ \A x, y \in elig : x.rank = y.rank => x = y

LEMMA BeforeOK ==
  ASSUME NEW mode, NEW elig, Sortable(elig), NEW c, NEW best \in Int
  PROVE  LET R == Before(mode, elig, c, best) IN
         /\ \A u, v \in elig : <<u, v>> \in R <=> Precedes(mode, elig, c, best, u, v)
         /\ TotalOn(R, elig)
         /\ \A x \in elig : <<x, x>> \notin R
<1> DEFINE R == Before(mode, elig, c, best)
           T(u) == EffectiveTier(mode, u)
           E(u) == Risky(elig, c, u)
           V(u) == Score(u, best)
<1>1. \A u, v \in elig : <<u, v>> \in R <=> Precedes(mode, elig, c, best, u, v)
  BY DEF Before, Precedes
<1>2. \A u \in elig : T(u) \in Int /\ V(u) \in Int /\ u.rank \in Int
  BY TierType, ScoreType DEF Sortable
<1>3. ASSUME NEW u \in elig, NEW v \in elig
      PROVE  <<u, v>> \in R <=> \/ T(u) < T(v)
                                \/ (T(u) = T(v) /\ ~E(u) /\ E(v))
                                \/ /\ T(u) = T(v) /\ (E(u) <=> E(v))
                                   /\ V(u) < V(v) \/ (V(u) = V(v) /\ u.rank < v.rank)
  BY <1>1 DEF Precedes
<1>4. \A u, v \in elig : u.rank = v.rank => u = v
  BY DEF Sortable
<1>5. \A x \in elig : <<x, x>> \notin R
  <2> HIDE DEF R, T, E, V
  <2> QED BY <1>2, <1>3
<1>6. TotalOn(R, elig)
  <2> HIDE DEF R, T, E, V
  <2>1. ASSUME NEW x \in elig, NEW y \in elig, x # y PROVE <<x, y>> \in R \/ <<y, x>> \in R
    <3>1. x.rank # y.rank
      BY <1>4, <2>1
    <3> QED BY <1>2, <1>3, <3>1
  <2>2. ASSUME NEW x \in elig, NEW y \in elig, NEW z \in elig, <<x, y>> \in R, <<y, z>> \in R
        PROVE  <<x, z>> \in R
    BY <1>2, <1>3, <2>2
  <2> QED BY <2>1, <2>2 DEF TotalOn
<1> QED BY <1>1, <1>5, <1>6

\* Whom Select returns: some of the eligible, if there are any; and the first of
\* them is not risky while its tier has a history.
LEMMA SelectionsOK ==
  ASSUME NEW mode, NEW elig, Sortable(elig), NEW c, NEW best \in Int
  PROVE  /\ Selections(mode, elig, c, best) = {} <=> elig = {}
         /\ \A sel \in Selections(mode, elig, c, best) :
              /\ \A i \in DOMAIN sel : sel[i] \in elig
              /\ \A v \in elig :
                   EffectiveTier(mode, v) = EffectiveTier(mode, sel[1]) /\ v.caps.timeTravel
                   => ~Risky(elig, c, sel[1])
<1> DEFINE R == Before(mode, elig, c, best)
           n == Cardinality(elig)
           T(u) == EffectiveTier(mode, u)
           order == Sorted(elig, R)
           first == {i \in DOMAIN order : EffectiveTier(mode, order[i]) = EffectiveTier(mode, order[1])}
           safe == {i \in first : ~Risky(elig, c, order[i])}
           pool == IF safe = {} THEN first ELSE safe
           drawn == {IF Score(order[b], best) < Score(order[a], best) THEN b ELSE a : a, b \in pool}
           With(i) == <<order[i]>> \o RemoveAt(order, i)
<1>1. Selections(mode, elig, c, best) =
        IF elig = {} THEN {}
        ELSE IF mode = "loadbalancer" /\ Cardinality(first) > 1 THEN {With(i) : i \in drawn}
        ELSE {order}
  BY DEF Selections
<1>2. /\ \A u, v \in elig : <<u, v>> \in R <=> Precedes(mode, elig, c, best, u, v)
      /\ TotalOn(R, elig) /\ \A x \in elig : <<x, x>> \notin R
  BY BeforeOK
<1>3. /\ n \in Nat /\ order \in [1 .. n -> elig] /\ Ascends(order, n, R)
      /\ \A x \in elig : \E i \in 1 .. n : order[i] = x
  <2> HIDE DEF R
  <2> QED BY <1>2, SortedOK DEF Sortable
<1>4. order \in Seq(elig) /\ Len(order) = n /\ DOMAIN order = 1 .. n
  <2> HIDE DEF order
  <2> QED BY <1>3
<1> HIDE DEF order, R
<1>5. ASSUME NEW v \in elig, v.caps.timeTravel PROVE ~Risky(elig, c, v)
  BY <1>5 DEF Risky, StateWindowEdge
<1>6. pool \subseteq first /\ first \subseteq 1 .. n
  BY <1>4
<1>7. drawn \subseteq pool
  OBVIOUS
<1>8. (Cardinality(first) > 1) => drawn # {}
  <2> SUFFICES ASSUME Cardinality(first) > 1 PROVE drawn # {}
    OBVIOUS
  <2>1. first # {}
    BY FS_EmptySet
  <2>2. PICK i : i \in pool
    BY <2>1
  <2>3. (IF Score(order[i], best) < Score(order[i], best) THEN i ELSE i) \in drawn
    BY <2>2
  <2> QED BY <2>3
<1>9. ASSUME NEW i \in 1 .. n
      PROVE  With(i) \in Seq(elig) /\ With(i)[1] = order[i]
  <2>1. SubSeq(order, 1, i - 1) \in Seq(elig) /\ SubSeq(order, i + 1, Len(order)) \in Seq(elig)
    BY <1>3, <1>4, SubSeqProperties
  <2>2. RemoveAt(order, i) \in Seq(elig)
    BY <2>1, ConcatProperties DEF RemoveAt
  <2>3. order[i] \in elig
    BY <1>3
  <2> QED BY <2>2, <2>3, ConcatProperties
<1>10. Selections(mode, elig, c, best) = {} <=> elig = {}
  <2> HIDE DEF drawn, first, With
  <2> QED BY <1>1, <1>8
<1>11. ASSUME NEW sel \in Selections(mode, elig, c, best), elig # {},
              mode = "loadbalancer" /\ Cardinality(first) > 1
       PROVE  /\ \A i \in DOMAIN sel : sel[i] \in elig
              /\ \A v \in elig : T(v) = T(sel[1]) /\ v.caps.timeTravel => ~Risky(elig, c, sel[1])
  <2>1. PICK i \in drawn : sel = With(i)
    <3> HIDE DEF drawn, first, With
    <3>1. Selections(mode, elig, c, best) = {With(i) : i \in drawn}
      BY <1>1, <1>11
    <3> QED BY <3>1
  <2>2. i \in pool /\ i \in first /\ i \in 1 .. n
    BY <1>6, <1>7
  <2>3. sel \in Seq(elig) /\ sel[1] = order[i]
    BY <1>9, <2>1, <2>2
  <2>4. \A j \in DOMAIN sel : sel[j] \in elig
    BY <2>3
  <2>5. ASSUME NEW v \in elig, T(v) = T(sel[1]), v.caps.timeTravel PROVE ~Risky(elig, c, sel[1])
    <3>1. PICK j \in 1 .. n : order[j] = v
      BY <1>3
    <3>2. T(order[i]) = T(order[1])
      BY <2>2
    <3>3. j \in first
      BY <1>4, <2>3, <2>5, <3>1, <3>2
    <3>4. j \in safe
      BY <1>5, <2>5, <3>1, <3>3
    <3>5. i \in safe
      BY <2>2, <3>4
    <3> QED BY <2>3, <3>5
  <2> QED BY <2>4, <2>5
<1>12. ASSUME NEW sel \in Selections(mode, elig, c, best), elig # {},
              ~(mode = "loadbalancer" /\ Cardinality(first) > 1)
       PROVE  /\ \A i \in DOMAIN sel : sel[i] \in elig
              /\ \A v \in elig : T(v) = T(sel[1]) /\ v.caps.timeTravel => ~Risky(elig, c, sel[1])
  <2>1. sel = order
    BY <1>1, <1>12
  <2>2. \A i \in DOMAIN sel : sel[i] \in elig
    BY <1>3, <1>4, <2>1
  <2>3. ASSUME NEW v \in elig, T(v) = T(sel[1]), v.caps.timeTravel, Risky(elig, c, sel[1])
        PROVE  FALSE
    <3>1. PICK j \in 1 .. n : order[j] = v
      BY <1>3
    <3>2. 1 \in 1 .. n /\ order[1] \in elig
      BY <1>3, <3>1
    <3>3. ~Risky(elig, c, v) /\ j # 1
      BY <1>5, <2>1, <2>3, <3>1
    <3>4. <<order[1], v>> \in R
      BY <1>3, <3>1, <3>2, <3>3 DEF Ascends
    <3>5. Precedes(mode, elig, c, best, order[1], v)
      BY <1>2, <3>2, <3>4
    <3>6. T(v) \in Int
      BY TierType DEF Sortable
    <3> QED BY <2>1, <2>3, <3>3, <3>5, <3>6 DEF Precedes
  <2> QED BY <2>2, <2>3
<1>13. ASSUME NEW sel \in Selections(mode, elig, c, best) PROVE elig # {}
  BY <1>10
<1> QED BY <1>10, <1>11, <1>12, <1>13

-----------------------------------------------------------------------------
(* Classification.                                                         *)

NeedsRec == [asked : BOOLEAN, groups : Nat, rounds : Nat, budget : Nat, fork : BOOLEAN,
             dev : BOOLEAN, span : BOOLEAN, latest : BOOLEAN]

ClassRec ==
  [round : Nat \cup {NoRound}, high : Nat, window : {"block", "state", "delta"},
   anyRound : BOOLEAN, timeTravel : BOOLEAN, dev : BOOLEAN, broadcast : BOOLEAN,
   pending : BOOLEAN, wait : Nat \cup {NoRound}, localOnly : BOOLEAN, agent : BOOLEAN,
   idempotent : BOOLEAN, simulate : BOOLEAN, needs : NeedsRec, limits : BOOLEAN,
   deltas : BOOLEAN, ahead : BOOLEAN]

\* A class without demands but for those of a round.
Roundly(c) ==
  /\ c \in ClassRec
  /\ c.high = 0 /\ c.wait = NoRound /\ c.dev = FALSE /\ c.broadcast = FALSE
  /\ c.localOnly = FALSE /\ c.needs.latest = FALSE /\ c.needs.span = FALSE

LEMMA PlainOK ==
  /\ NoNeeds \in NeedsRec /\ NoNeeds.asked = FALSE /\ NoNeeds.latest = FALSE /\ NoNeeds.span = FALSE
  /\ Roundly(Plain) /\ Plain.needs.asked = FALSE /\ Plain.round = NoRound
  /\ Plain.window = "block" /\ Plain.anyRound = FALSE /\ Plain.timeTravel = FALSE
  /\ Plain.simulate = FALSE /\ Plain.deltas = FALSE /\ Plain.ahead = FALSE /\ Plain.needs = NoNeeds
<1> DEFINE n == NoNeeds
<1>1. n \in NeedsRec /\ n.asked = FALSE /\ n.latest = FALSE /\ n.span = FALSE
  BY DEF NoNeeds, NeedsRec
<1>2. Plain = [round |-> NoRound, high |-> 0, window |-> "block", anyRound |-> FALSE,
       timeTravel |-> FALSE, dev |-> FALSE, broadcast |-> FALSE, pending |-> FALSE,
       wait |-> NoRound, localOnly |-> FALSE, agent |-> FALSE, idempotent |-> TRUE,
       simulate |-> FALSE, needs |-> n, limits |-> FALSE, deltas |-> FALSE,
       ahead |-> FALSE]
  BY DEF Plain
<1> HIDE DEF n
<1>3. Plain \in ClassRec /\ Plain.needs = n
  BY <1>1, <1>2 DEF ClassRec
<1>4. /\ Plain.high = 0 /\ Plain.wait = NoRound /\ Plain.dev = FALSE /\ Plain.broadcast = FALSE
      /\ Plain.localOnly = FALSE /\ Plain.round = NoRound
      /\ Plain.window = "block" /\ Plain.anyRound = FALSE /\ Plain.timeTravel = FALSE
      /\ Plain.simulate = FALSE /\ Plain.deltas = FALSE /\ Plain.ahead = FALSE
  BY <1>2
<1> QED BY <1>1, <1>3, <1>4 DEF Roundly, n

Base(m) == [Plain EXCEPT !.idempotent = m \in {"GET", "HEAD"}]

Stored(m, r) == [Base(m) EXCEPT !.round = r, !.ahead = r # NoRound /\ m = "GET"]

LEMMA BaseOK ==
  ASSUME NEW m, NEW r \in Nat
  PROVE  /\ Roundly(Base(m)) /\ Base(m).needs.asked = FALSE /\ Base(m).round = NoRound
         /\ Base(m).window = "block" /\ Base(m).anyRound = FALSE /\ Base(m).timeTravel = FALSE
         /\ Base(m).ahead = FALSE
         /\ Roundly(Stored(m, r)) /\ Stored(m, r).needs.asked = FALSE /\ Stored(m, r).round = r
         /\ Stored(m, r).window = "block" /\ Stored(m, r).anyRound = FALSE
         /\ Stored(m, r).timeTravel = FALSE
<1> DEFINE i == m \in {"GET", "HEAD"}
           a == r # NoRound /\ m = "GET"
           x == Base(m)
           y == Stored(m, r)
<1>1. i \in BOOLEAN /\ a \in BOOLEAN
  OBVIOUS
<1>2. x = [Plain EXCEPT !.idempotent = i] /\ y = [x EXCEPT !.round = r, !.ahead = a]
  BY DEF Base, Stored
<1> HIDE DEF i, a, x, y
<1>3. /\ Roundly(x) /\ x.needs = Plain.needs /\ x.round = NoRound
      /\ x.window = "block" /\ x.anyRound = FALSE /\ x.timeTravel = FALSE /\ x.ahead = FALSE
  BY <1>1, <1>2, PlainOK DEF Roundly, ClassRec
<1>4. /\ Roundly(y) /\ y.needs = x.needs /\ y.round = r
      /\ y.window = "block" /\ y.anyRound = FALSE /\ y.timeTravel = FALSE
  BY <1>1, <1>2, <1>3 DEF Roundly, ClassRec
<1> QED BY <1>3, <1>4, PlainOK DEF x, y

\* The class x names round r where c named none, and asks nothing else.
Names(x, c, r) == Roundly(x) /\ x.needs = c.needs /\ x.round = r

LEMMA AtRoundOK ==
  ASSUME NEW c, Roundly(c), NEW r \in Nat, NEW x, x = AtRound(c, r)
  PROVE  Names(x, c, r) /\ x.window = "state" /\ x.anyRound = TRUE /\ x.timeTravel = c.timeTravel
<1>1. x = [c EXCEPT !.round = r, !.window = "state", !.anyRound = TRUE]
  BY DEF AtRound
<1>2. x \in ClassRec /\ x.needs = c.needs /\ x.round = r
  BY <1>1 DEF Roundly, ClassRec
<1>3. x.high = c.high /\ x.wait = c.wait /\ x.dev = c.dev /\ x.broadcast = c.broadcast
      /\ x.localOnly = c.localOnly
  BY <1>1 DEF Roundly, ClassRec
<1>4. x.window = "state" /\ x.anyRound = TRUE /\ x.timeTravel = c.timeTravel
  BY <1>1 DEF Roundly, ClassRec
<1> QED BY <1>2, <1>3, <1>4 DEF Names, Roundly

LEMMA HistoryOnlyOK ==
  ASSUME NEW c, Roundly(c), NEW r \in Nat, NEW x, x = HistoryOnly(c, r)
  PROVE  Names(x, c, r) /\ x.window = "state" /\ x.anyRound = TRUE /\ x.timeTravel = TRUE
<1> DEFINE y == AtRound(c, r)
<1>1. x = [y EXCEPT !.timeTravel = TRUE]
  BY DEF HistoryOnly
<1>2. Names(y, c, r) /\ y.window = "state" /\ y.anyRound = TRUE
  BY AtRoundOK
<1> HIDE DEF y
<1>3. x \in ClassRec /\ x.needs = c.needs /\ x.round = r
  BY <1>1, <1>2 DEF Names, Roundly, ClassRec
<1>4. x.high = y.high /\ x.wait = y.wait /\ x.dev = y.dev /\ x.broadcast = y.broadcast
      /\ x.localOnly = y.localOnly
  BY <1>1, <1>2 DEF Names, Roundly, ClassRec
<1>5. x.window = "state" /\ x.anyRound = TRUE /\ x.timeTravel = TRUE
  BY <1>1, <1>2 DEF Names, Roundly, ClassRec
<1> QED BY <1>2, <1>3, <1>4, <1>5 DEF Names, Roundly

\* The arms of Classify that name a round, and that of a simulation.
LEMMA StoredArm ==
  ASSUME NEW m, NEW p, NEW r, p \in {"block", "stateproof"}
  PROVE  Classify(m, p, r, r) = Stored(m, r)
BY Zenon DEF Classify, Stored, Base

LEMMA HeaderArm ==
  ASSUME NEW m, NEW p, NEW r, p = "header"
  PROVE  Classify(m, p, r, r) = [Stored(m, r) EXCEPT !.anyRound = TRUE]
BY Zenon DEF Classify, Stored, Base

Deltas(m, r) == [Stored(m, r) EXCEPT !.window = "delta", !.deltas = m = "GET"]

LEMMA DeltaArm ==
  ASSUME NEW m, NEW p, NEW r, p = "delta", r # NoRound
  PROVE  Classify(m, p, r, r) = Deltas(m, r)
BY Zenon DEF Classify, Stored, Base, Deltas

LEMMA BoxesArm ==
  ASSUME NEW m, NEW p, NEW r, p = "boxes", r # NoRound
  PROVE  Classify(m, p, r, r) = AtRound(Base(m), r)
BY Zenon DEF Classify, Base

LEMMA HistoryArm ==
  ASSUME NEW m, NEW p, NEW r, p \in {"account", "box", "supply"}, r # NoRound
  PROVE  Classify(m, p, r, r) = HistoryOnly(Base(m), r)
<1>1. CASE p \in {"account", "box"}
  BY <1>1, Zenon DEF Classify, Base
<1>2. CASE p = "supply"
  BY <1>2, Zenon DEF Classify, Base
<1> QED BY <1>1, <1>2

LEMMA SimulateArm ==
  ASSUME NEW m, NEW r
  PROVE  Classify(m, "simulate", r, r) = [Base(m) EXCEPT !.idempotent = TRUE, !.simulate = TRUE]
BY Zenon DEF Classify, Base

Named(b) == {r \in Range(b.rounds) : r # 0}

NeedsOf(b) ==
  [NoNeeds EXCEPT !.asked = TRUE, !.groups = b.groups, !.rounds = Len(b.rounds),
     !.budget = Larger(b.budget, 0), !.fork = b.fork, !.dev = b.dev,
     !.span = b.round = 0 /\ Named(b) # {}, !.latest = b.round = 0 /\ 0 \in Range(b.rounds)]

LEMMA NeedsOK ==
  ASSUME NEW b \in Bodies
  PROVE  /\ NeedsOf(b) \in NeedsRec /\ NeedsOf(b).asked = TRUE
         /\ NeedsOf(b).groups = b.groups /\ NeedsOf(b).rounds = Len(b.rounds)
         /\ NeedsOf(b).budget = Larger(b.budget, 0)
         /\ NeedsOf(b).fork = b.fork /\ NeedsOf(b).dev = b.dev
         /\ NeedsOf(b).span <=> b.round = 0 /\ Named(b) # {}
         /\ NeedsOf(b).latest <=> b.round = 0 /\ 0 \in Range(b.rounds)
<1> DEFINE g == Larger(b.budget, 0)
           l == Len(b.rounds)
           sp == b.round = 0 /\ Named(b) # {}
           la == b.round = 0 /\ 0 \in Range(b.rounds)
           n == NeedsOf(b)
<1>1. b.groups \in Nat /\ b.fork \in BOOLEAN /\ b.dev \in BOOLEAN /\ b.budget \in Int /\ b.rounds \in Seq(Nat)
  BY DEF Bodies
<1>2. g \in Nat /\ l \in Nat
  BY <1>1 DEF Larger
<1>3. sp \in BOOLEAN /\ la \in BOOLEAN
  OBVIOUS
<1>4. n = [NoNeeds EXCEPT !.asked = TRUE, !.groups = b.groups, !.rounds = l, !.budget = g,
             !.fork = b.fork, !.dev = b.dev, !.span = sp, !.latest = la]
  BY DEF NeedsOf
<1> HIDE DEF g, l, sp, la, n
<1>5. /\ n \in NeedsRec /\ n.asked = TRUE /\ n.groups = b.groups /\ n.rounds = l /\ n.budget = g
      /\ n.fork = b.fork /\ n.dev = b.dev /\ n.span = sp /\ n.latest = la
  BY <1>1, <1>2, <1>3, <1>4, PlainOK DEF NeedsRec
<1>6. (n.span <=> sp) /\ (n.latest <=> la)
  BY <1>5
<1> QED BY <1>5, <1>6 DEF g, l, sp, la, n

\* What a simulation asks, of its base class.
SimBase(m) == [Base(m) EXCEPT !.idempotent = TRUE, !.simulate = TRUE]

Asking(m, b) == [SimBase(m) EXCEPT !.needs = NeedsOf(b)]

LEMMA AskingOK ==
  ASSUME NEW m, NEW b \in Bodies
  PROVE  /\ Asking(m, b).needs = NeedsOf(b) /\ Asking(m, b) \in ClassRec
         /\ Asking(m, b).simulate = TRUE
         /\ Asking(m, b).round = NoRound /\ Asking(m, b).timeTravel = FALSE
         /\ Asking(m, b).wait = NoRound /\ Asking(m, b).dev = FALSE
         /\ Asking(m, b).broadcast = FALSE /\ Asking(m, b).localOnly = FALSE
         /\ Asking(m, b).high = 0
         /\ ~NeedsOf(b).span /\ ~NeedsOf(b).latest => Roundly(Asking(m, b))
         /\ b.round # 0 => ApplySimulate(SimBase(m), b) = AtRound(Asking(m, b), b.round)
         /\ b.round = 0 /\ Named(b) = {} => ApplySimulate(SimBase(m), b) = Asking(m, b)
<1> DEFINE x == SimBase(m)
           y == Asking(m, b)
           n == NeedsOf(b)
           k == Base(m)
<1>1. x = [k EXCEPT !.idempotent = TRUE, !.simulate = TRUE] /\ y = [x EXCEPT !.needs = n]
  BY DEF SimBase, Asking
<1>2. n \in NeedsRec /\ Roundly(k) /\ k.round = NoRound /\ k.timeTravel = FALSE
  BY NeedsOK, BaseOK
<1>3. b.round # 0 => ApplySimulate(x, b) = AtRound(y, b.round)
  BY Zenon DEF ApplySimulate, Asking, NeedsOf, Named
<1>4. b.round = 0 /\ Named(b) = {} => ApplySimulate(x, b) = y
  BY Zenon DEF ApplySimulate, Asking, NeedsOf, Named
<1>5. n.span \in BOOLEAN /\ n.latest \in BOOLEAN
  BY <1>2 DEF NeedsRec
<1> HIDE DEF x, y, n, k
<1>6. x \in ClassRec /\ x.simulate = TRUE /\ x.round = NoRound /\ x.timeTravel = FALSE
      /\ x.wait = NoRound /\ x.dev = FALSE
      /\ x.broadcast = FALSE /\ x.localOnly = FALSE /\ x.high = 0
  BY <1>1, <1>2 DEF Roundly, ClassRec
<1>7. y \in ClassRec /\ y.simulate = TRUE /\ y.round = NoRound /\ y.timeTravel = FALSE
      /\ y.wait = NoRound /\ y.dev = FALSE
      /\ y.broadcast = FALSE /\ y.localOnly = FALSE /\ y.high = 0 /\ y.needs = n
  BY <1>1, <1>2, <1>6, ZenonT(60) DEF ClassRec
<1>8. ~n.span /\ ~n.latest => Roundly(y)
  BY <1>5, <1>7 DEF Roundly
<1> QED BY <1>3, <1>4, <1>7, <1>8 DEF x, y, n

\* The class handleDefault begins with.
Asked(q) ==
  LET c == Classify(q.method, q.path, q.round, q.round)
  IN IF q.path = "simulate" THEN ApplySimulate(c, q.body) ELSE c

\* What is asked of the node for a request about a round: the round itself, and
\* where it may come from.
LEMMA RoundClass ==
  ASSUME NEW q, IsRequest(q), RoundOf(q) # NoRound, NEW c, c = Asked(q)
  PROVE  /\ RoundOf(q) \in Nat /\ c.round = RoundOf(q) /\ Roundly(c)
         /\ q.path \in RoundPaths \cup {"simulate"}
         /\ c.needs.asked <=> q.path = "simulate"
         /\ c.window = (IF q.path \in {"block", "stateproof", "header"} THEN "block"
                        ELSE IF q.path = "delta" THEN "delta" ELSE "state")
         /\ c.anyRound <=> q.path \notin {"block", "stateproof", "delta"}
         /\ c.timeTravel <=> q.path \in {"account", "box", "supply"}
<1> DEFINE m == q.method
           p == q.path
           r == q.round
           b == q.body
<1>1. b \in Bodies /\ r \in Nat \cup {NoRound} /\ (r # NoRound => p \in RoundPaths)
  BY DEF IsRequest
<1>2. CASE p = "simulate"
  <2>1. RoundOf(q) = b.round /\ b.round # 0 /\ b.round \in Nat
    BY <1>1, <1>2 DEF RoundOf, Bodies
  <2>2. Classify(m, p, r, r) = SimBase(m)
    BY <1>2, SimulateArm DEF SimBase
  <2>3. c = ApplySimulate(SimBase(m), b)
    BY <1>2, <2>2 DEF Asked
  <2>4. c = AtRound(Asking(m, b), b.round)
    BY <1>1, <2>1, <2>3, AskingOK
  <2>5. NeedsOf(b).asked = TRUE /\ ~NeedsOf(b).span /\ ~NeedsOf(b).latest
    BY <1>1, <2>1, NeedsOK
  <2>6. Roundly(Asking(m, b)) /\ Asking(m, b).needs = NeedsOf(b) /\ Asking(m, b).timeTravel = FALSE
    BY <1>1, <2>5, AskingOK
  <2>7. /\ Names(c, Asking(m, b), b.round)
        /\ c.window = "state" /\ c.anyRound = TRUE /\ c.timeTravel = Asking(m, b).timeTravel
    BY <2>1, <2>4, <2>6, AtRoundOK
  <2>8. /\ Roundly(c) /\ c.needs = NeedsOf(b) /\ c.round = b.round /\ c.timeTravel = FALSE
    BY <2>6, <2>7 DEF Names
  <2> QED BY <1>2, <2>1, <2>5, <2>7, <2>8
<1>3. CASE p # "simulate"
  <2>1. RoundOf(q) = r /\ r # NoRound /\ r \in Nat /\ p \in RoundPaths
    BY <1>1, <1>3 DEF RoundOf
  <2>2. c = Classify(m, p, r, r)
    BY <1>3 DEF Asked
  <2>3. Roundly(Base(m)) /\ Base(m).needs.asked = FALSE
    BY <2>1, BaseOK
  <2>4. CASE p \in {"block", "stateproof", "header", "delta"}
    <3> DEFINE y == Stored(m, r)
               g == m = "GET"
    <3>1. /\ Roundly(y) /\ y.needs.asked = FALSE /\ y.round = r
          /\ y.window = "block" /\ y.anyRound = FALSE /\ y.timeTravel = FALSE
      BY <2>1, BaseOK
    <3>2. /\ p \in {"block", "stateproof"} => c = y
          /\ p = "header" => c = [y EXCEPT !.anyRound = TRUE]
          /\ p = "delta" => c = [y EXCEPT !.window = "delta", !.deltas = g]
      <4>1. p \in {"block", "stateproof"} => c = y
        BY <2>2, StoredArm
      <4>2. p = "header" => c = [y EXCEPT !.anyRound = TRUE]
        BY <2>2, HeaderArm, ZenonT(60)
      <4>3. p = "delta" => c = [y EXCEPT !.window = "delta", !.deltas = g]
        <5>1. p = "delta" => c = Deltas(m, r)
          BY <2>1, <2>2, DeltaArm
        <5> QED BY <5>1 DEF Deltas
      <4> QED BY <4>1, <4>2, <4>3
    <3>3. g \in BOOLEAN
      OBVIOUS
    <3> HIDE DEF y, g
    <3>4. CASE p \in {"block", "stateproof"} /\ c = y
      BY <2>1, <3>1, <3>4
    <3>5. CASE p = "header" /\ c = [y EXCEPT !.anyRound = TRUE]
      <4>1. Roundly(c) /\ c.needs = y.needs /\ c.round = r /\ c.window = "block"
            /\ c.anyRound = TRUE /\ c.timeTravel = FALSE
        BY <3>1, <3>5 DEF Roundly, ClassRec
      <4> QED BY <2>1, <3>1, <3>5, <4>1
    <3>6. CASE p = "delta" /\ c = [y EXCEPT !.window = "delta", !.deltas = g]
      <4>1. Roundly(c) /\ c.needs = y.needs /\ c.round = r /\ c.window = "delta"
            /\ c.anyRound = FALSE /\ c.timeTravel = FALSE
        BY <3>1, <3>3, <3>6 DEF Roundly, ClassRec
      <4> QED BY <2>1, <3>1, <3>6, <4>1
    <3> QED BY <2>4, <3>2, <3>4, <3>5, <3>6
  <2>5. CASE p = "boxes"
    <3>1. c = AtRound(Base(m), r)
      BY <2>1, <2>2, <2>5, BoxesArm
    <3>2. Names(c, Base(m), r) /\ c.window = "state" /\ c.anyRound = TRUE
          /\ c.timeTravel = Base(m).timeTravel
      BY <2>1, <2>3, <3>1, AtRoundOK
    <3>3. Base(m).timeTravel = FALSE
      BY <2>1, BaseOK
    <3> QED BY <2>1, <2>3, <2>5, <3>2, <3>3 DEF Names
  <2>6. CASE p \in {"account", "box", "supply"}
    <3>1. c = HistoryOnly(Base(m), r)
      BY <2>1, <2>2, <2>6, HistoryArm
    <3>2. Names(c, Base(m), r) /\ c.window = "state" /\ c.anyRound = TRUE /\ c.timeTravel = TRUE
      BY <2>1, <2>3, <3>1, HistoryOnlyOK
    <3> QED BY <2>1, <2>3, <2>6, <3>2 DEF Names
  <2> QED BY <2>1, <2>4, <2>5, <2>6 DEF RoundPaths
<1> QED BY <1>2, <1>3

-----------------------------------------------------------------------------
(* The decision.                                                           *)

\* FirstServed takes one of the classes tried: the first, unless that finds nobody
\* and nobody could serve it; and if it is not the first then one that is served.
LEMMA FirstServedOK ==
  ASSUME NEW us, NEW n \in Nat, n > 0, NEW tried, DOMAIN tried = 1 .. n
  PROVE  \E i \in 1 .. n :
           /\ FirstServed(us, tried) = tried[i]
           /\ tried[1].sels # {} => i = 1
           /\ i # 1 => tried[i].sels # {} /\ ~CouldServe(us, tried[1].class)
<1> DEFINE good == {i \in DOMAIN tried :
                      /\ tried[i].sels # {}
                      /\ \A j \in 1 .. i - 1 : tried[j].sels = {} /\ ~CouldServe(us, tried[j].class)}
           k == IF good = {} THEN 1 ELSE Min(good)
<1>1. FirstServed(us, tried) = tried[k]
  BY DEF FirstServed
<1>2. CASE good = {}
  <2>1. k = 1 /\ 1 \in 1 .. n
    BY <1>2
  <2> QED BY <1>1, <2>1
<1>3. CASE good # {}
  <2>1. PICK m \in good : \A j \in good : m <= j
    <3>1. good \in SUBSET Nat
      OBVIOUS
    <3> HIDE DEF good
    <3> QED BY <1>3, <3>1, LeastNumber
  <2>2. k \in good /\ \A j \in good : k <= j
    BY <1>3, <2>1 DEF Min
  <2>3. k \in 1 .. n
    BY <2>2
  <2>4. tried[1].sels # {} => k = 1
    <3> SUFFICES ASSUME tried[1].sels # {} PROVE k = 1
      OBVIOUS
    <3>1. 1 \in good
      OBVIOUS
    <3>2. k <= 1
      BY <2>2, <3>1
    <3> HIDE DEF k
    <3> QED BY <2>3, <3>2
  <2>5. k # 1 => tried[k].sels # {} /\ ~CouldServe(us, tried[1].class)
    <3> SUFFICES ASSUME k # 1 PROVE tried[k].sels # {} /\ ~CouldServe(us, tried[1].class)
      OBVIOUS
    <3> HIDE DEF k
    <3>1. 1 \in 1 .. k - 1
      BY <2>3
    <3> QED BY <2>2, <3>1
  <2> HIDE DEF k
  <2> QED BY <1>1, <2>3, <2>4, <2>5
<1> QED BY <1>2, <1>3

Needless(c) == [c EXCEPT !.needs = NoNeeds]

\* The classes tried, in order.
LEMMA RelaxedOK ==
  ASSUME NEW c
  PROVE  /\ ~c.needs.asked => Relaxed(c) = <<>>
         /\ c.needs.asked /\ ~c.needs.span => Relaxed(c) = <<Needless(c)>>
         /\ \E n \in {0, 1, 2} : \E a, b :
              Relaxed(c) = IF n = 0 THEN <<>> ELSE IF n = 1 THEN <<a>> ELSE <<a, b>>
<1>1. ~c.needs.asked => Relaxed(c) = <<>>
  BY Zenon DEF Relaxed
<1>2. c.needs.asked /\ ~c.needs.span => Relaxed(c) = <<Needless(c)>>
  BY Zenon DEF Relaxed, Needless
<1>3. c.needs.asked /\ c.needs.span => \E a, b : Relaxed(c) = <<a, b>>
  BY Zenon DEF Relaxed
<1> QED BY <1>1, <1>2, <1>3

LEMMA FirstThen ==
  ASSUME NEW S, NEW c \in S, NEW t \in Seq(S)
  PROVE  /\ DOMAIN (<<c>> \o t) = 1 .. 1 + Len(t) /\ Len(t) \in Nat
         /\ (<<c>> \o t)[1] = c
         /\ \A i \in 1 .. 1 + Len(t) : i # 1 => (<<c>> \o t)[i] = t[i - 1]
<1> DEFINE f == <<c>>
<1>1. f \in Seq(S) /\ Len(f) = 1 /\ f[1] = c
  OBVIOUS
<1> HIDE DEF f
<1>2. f \o t \in Seq(S) /\ Len(f \o t) = 1 + Len(t) /\ Len(t) \in Nat
  <2>1. f \o t \in Seq(S) /\ Len(f \o t) = Len(f) + Len(t)
    BY <1>1, ConcatProperties
  <2>2. Len(t) \in Nat
    OBVIOUS
  <2> QED BY <1>1, <2>1, <2>2
<1>3. \A i \in 1 .. 1 + Len(t) : (f \o t)[i] = IF i <= 1 THEN f[i] ELSE t[i - 1]
  BY <1>1, <1>2, ConcatProperties
<1>4. DOMAIN (f \o t) = 1 .. 1 + Len(t) /\ 1 \in 1 .. 1 + Len(t)
  BY <1>2
<1>5. (f \o t)[1] = c
  BY <1>1, <1>3, <1>4
<1>6. \A i \in 1 .. 1 + Len(t) : i # 1 => (f \o t)[i] = t[i - 1]
  BY <1>2, <1>3
<1> QED BY <1>2, <1>4, <1>5, <1>6 DEF f

LEMMA ClassesOK ==
  ASSUME NEW c, NEW cs, cs = <<c>> \o Relaxed(c)
  PROVE  /\ \E n \in Nat : n > 0 /\ DOMAIN cs = 1 .. n
         /\ cs[1] = c
         /\ ~c.needs.span => \A i \in DOMAIN cs : cs[i] = c \/ cs[i] = Needless(c)
         /\ ~c.needs.asked => DOMAIN cs = {1}
<1>0. PICK n \in {0, 1, 2} :
        \E a, b : Relaxed(c) = IF n = 0 THEN <<>> ELSE IF n = 1 THEN <<a>> ELSE <<a, b>>
  BY RelaxedOK
<1>1. PICK a, b :
        Relaxed(c) = IF n = 0 THEN <<>> ELSE IF n = 1 THEN <<a>> ELSE <<a, b>>
  BY <1>0
<1> DEFINE t == Relaxed(c)
           S == {c, a, b}
<1>2. t \in Seq(S) /\ c \in S
  <2>1. <<>> \in Seq(S) /\ <<a>> \in Seq(S) /\ <<a, b>> \in Seq(S)
    OBVIOUS
  <2>2. t = <<>> \/ t = <<a>> \/ t = <<a, b>>
    BY <1>1
  <2> QED BY <2>1, <2>2
<1>3. ~c.needs.asked => Len(t) = 0
  BY RelaxedOK
<1>4. c.needs.asked /\ ~c.needs.span => Len(t) = 1 /\ t[1] = Needless(c)
  BY RelaxedOK
<1> HIDE DEF t, S
<1>5. /\ DOMAIN cs = 1 .. 1 + Len(t) /\ Len(t) \in Nat
      /\ cs[1] = c
      /\ \A i \in 1 .. 1 + Len(t) : i # 1 => cs[i] = t[i - 1]
  <2>1. cs = <<c>> \o t
    BY DEF t
  <2> QED BY <1>2, <2>1, FirstThen
<1>6. ASSUME ~c.needs.span, NEW i \in DOMAIN cs PROVE cs[i] = c \/ cs[i] = Needless(c)
  <2>1. CASE c.needs.asked
    BY <1>4, <1>5, <1>6, <2>1
  <2>2. CASE ~c.needs.asked
    BY <1>3, <1>5, <2>2
  <2> QED BY <2>1, <2>2
<1>7. ~c.needs.asked => DOMAIN cs = {1}
  BY <1>3, <1>5
<1>8. 1 + Len(t) \in Nat /\ 1 + Len(t) > 0
  BY <1>5
<1> QED BY <1>5, <1>6, <1>7, <1>8

\* What is decided, about a class without a span of rounds and about any.
LEMMA DecisionOK ==
  ASSUME NEW mode, NEW us, Sortable(us), NEW c, NEW best \in Int,
         NEW d, d = Decision(mode, us, c, best)
  PROVE  /\ d.sels = Select(mode, us, d.class, best)
         /\ d.class # c => ~CouldServe(us, c)
         /\ ~c.needs.asked => d.class = c
         /\ ~c.needs.span => d.class = c \/ d.class = Needless(c)
         /\ d.sels = {} => d.class = c
         /\ Select(mode, us, c, best) # {} => d.class = c
<1> DEFINE cs == <<c>> \o Relaxed(c)
           tried == [i \in DOMAIN cs |-> [class |-> cs[i], sels |-> Select(mode, us, cs[i], best)]]
<1>1. PICK n \in Nat : n > 0 /\ DOMAIN cs = 1 .. n
  BY ClassesOK
<1>2. cs[1] = c
  BY ClassesOK
<1>3. ~c.needs.span => \A i \in DOMAIN cs : cs[i] = c \/ cs[i] = Needless(c)
  BY ClassesOK
<1>4. ~c.needs.asked => DOMAIN cs = {1}
  BY ClassesOK
<1>5. d = FirstServed(us, tried)
  BY DEF Decision
<1> HIDE DEF cs
<1>6. DOMAIN tried = 1 .. n
  BY <1>1
<1>7. \A i \in 1 .. n : tried[i].class = cs[i] /\ tried[i].sels = Select(mode, us, cs[i], best)
  BY <1>1
<1> HIDE DEF tried
<1>8. PICK i \in 1 .. n :
           /\ FirstServed(us, tried) = tried[i]
           /\ tried[1].sels # {} => i = 1
           /\ i # 1 => tried[i].sels # {} /\ ~CouldServe(us, tried[1].class)
  BY <1>1, <1>6, FirstServedOK
<1>9. d.class = cs[i] /\ d.sels = Select(mode, us, cs[i], best)
  BY <1>5, <1>7, <1>8
<1>10. tried[1].class = c /\ tried[1].sels = Select(mode, us, c, best)
  BY <1>1, <1>2, <1>7
<1>11. d.class # c => ~CouldServe(us, c)
  BY <1>2, <1>8, <1>9, <1>10
<1>12. ~c.needs.asked => d.class = c
  BY <1>1, <1>2, <1>4, <1>8, <1>9
<1>13. ~c.needs.span => d.class = c \/ d.class = Needless(c)
  BY <1>1, <1>3, <1>9
<1>14. d.sels = {} => d.class = c
  BY <1>2, <1>7, <1>8, <1>9
<1>15. Select(mode, us, c, best) # {} => d.class = c
  BY <1>2, <1>8, <1>9, <1>10
<1> QED BY <1>9, <1>11, <1>12, <1>13, <1>14, <1>15

-----------------------------------------------------------------------------
(* What a node holds, in the terms of the class that asks for it.          *)

\* A window moves as far as its node at most, and only forward.
LEMMA WindowMoves ==
  ASSUME NEW a \in Archivals \cup {NoOverride}, NEW i \in Nat, NEW j \in Nat, i <= j
  PROVE  /\ OldestRoundFor(a, i) \in Nat /\ OldestRoundFor(a, j) \in Nat
         /\ OldestRoundFor(a, i) <= OldestRoundFor(a, j)
         /\ OldestRoundFor(a, j) <= OldestRoundFor(a, i) + (j - i)
<1>1. a.n \in Nat /\ DefaultNonArchivalWindow \in Nat
  BY WindowAssumption DEF Archivals, NoOverride
<1> DEFINE n == a.n
           w == DefaultNonArchivalWindow
<1>2. \A r \in Nat : OldestRoundFor(a, r) =
        IF a.kind = "full" THEN 0
        ELSE IF a.kind = "trailing" THEN (IF r - n > 0 THEN r - n ELSE 0)
        ELSE IF a.kind = "since" THEN n
        ELSE (IF r - w > 0 THEN r - w ELSE 0)
  BY DEF OldestRoundFor, Larger
<1> HIDE DEF n, w
<1>3. n \in Nat /\ w \in Nat
  BY <1>1 DEF n, w
<1>4. CASE a.kind = "full"
  BY <1>2, <1>4
<1>5. CASE a.kind = "trailing"
  BY <1>2, <1>3, <1>5
<1>6. CASE a.kind = "since"
  BY <1>2, <1>3, <1>6
<1>7. CASE a.kind \notin {"full", "trailing", "since"}
  BY <1>2, <1>3, <1>7
<1> QED BY <1>4, <1>5, <1>6, <1>7

LEMMA CapsAtOK ==
  ASSUME NEW s, IsSituation(s), NEW u \in Upstreams, NEW r, NEW x, x = CapsAt(s, u, r)
  PROVE  /\ s.caps[u] \in Caps /\ x.oldest = OldestRoundFor(s.caps[u].archival, r)
         /\ x.timeTravel = s.caps[u].timeTravel /\ x.lookback = s.caps[u].lookback
         /\ x.simulate = s.caps[u].simulate /\ x.dev = s.caps[u].dev
<1> DEFINE k == s.caps[u]
           o == OldestRoundFor(k.archival, r)
<1>1. k \in Caps
  BY DEF IsSituation
<1>2. x = [k EXCEPT !.oldest = o]
  BY DEF CapsAt
<1> HIDE DEF k, o
<1>3. x.oldest = o
  BY <1>1, <1>2 DEF Caps
<1>4. x.timeTravel = k.timeTravel /\ x.lookback = k.lookback /\ x.simulate = k.simulate /\ x.dev = k.dev
  BY <1>1, <1>2 DEF Caps
<1> QED BY <1>1, <1>3, <1>4 DEF k, o

\* What the directory knows of a node's capabilities is true of it, but for what
\* nobody told; of one that was heard, or declares everything, all is known except
\* the lookback of the latter.
LEMMA ToldCapsOK ==
  ASSUME NEW s, IsSituation(s), NEW u \in Upstreams, NEW x, x = ToldCaps(s, u)
  PROVE  /\ x.timeTravel \in BOOLEAN /\ (x.timeTravel => s.caps[u].timeTravel)
         /\ x.lookback \in Nat /\ x.simulate \in Limits /\ x.dev \in BOOLEAN
         /\ x.lookback # 0 => u \in s.heard /\ x.lookback = s.caps[u].lookback
         /\ u \in s.heard \/ "archival" \in s.declared[u] =>
              x.oldest = OldestRoundFor(s.caps[u].archival, s.told[u])
         /\ Disclosed(s, u) => /\ x.timeTravel = s.caps[u].timeTravel
                            /\ x.simulate = s.caps[u].simulate /\ x.dev = s.caps[u].dev
<1>1. /\ s.caps[u] \in Caps /\ s.caps[u].timeTravel \in BOOLEAN /\ s.caps[u].dev \in BOOLEAN
      /\ s.caps[u].lookback \in Nat /\ s.caps[u].simulate \in Limits
  BY DEF IsSituation, Caps
<1>2. CASE u \in s.heard
  <2>1. x = CapsAt(s, u, s.told[u])
    BY <1>2 DEF ToldCaps
  <2>2. /\ x.oldest = OldestRoundFor(s.caps[u].archival, s.told[u])
        /\ x.timeTravel = s.caps[u].timeTravel /\ x.lookback = s.caps[u].lookback
        /\ x.simulate = s.caps[u].simulate /\ x.dev = s.caps[u].dev
    BY <2>1, CapsAtOK
  <2> QED BY <1>1, <1>2, <2>2
<1>3. CASE u \notin s.heard
  <2> DEFINE d == s.declared[u]
             a == IF "archival" \in d THEN s.caps[u].archival ELSE [kind |-> "none", n |-> 0]
             o == OldestRoundFor(a, s.told[u])
             sim == IF "simulate" \in d THEN s.caps[u].simulate ELSE NoLimits
             dev == "dev" \in d /\ s.caps[u].dev
             fol == "follow" \in d /\ s.caps[u].follow
             tt == "timeTravel" \in d /\ s.caps[u].timeTravel
  <2>1. x = [oldest |-> o, archival |-> a, simulate |-> sim, dev |-> dev, follow |-> fol,
             timeTravel |-> tt, lookback |-> 0]
    BY <1>3 DEF ToldCaps
  <2>5. dev \in BOOLEAN /\ sim \in Limits
    BY <1>1 DEF NoLimits, Limits
  <2>2. /\ tt \in BOOLEAN /\ (tt => s.caps[u].timeTravel)
        /\ "archival" \in d => a = s.caps[u].archival
    BY <1>1
  <2>3. d = Declarable => sim = s.caps[u].simulate /\ dev = s.caps[u].dev /\ tt = s.caps[u].timeTravel
    BY <1>1 DEF Declarable
  <2> HIDE DEF d, a, sim, dev, fol, tt
  <2>4. /\ x.oldest = o /\ x.simulate = sim /\ x.dev = dev /\ x.timeTravel = tt /\ x.lookback = 0
    BY <2>1
  <2> QED BY <1>3, <2>2, <2>3, <2>4, <2>5 DEF Disclosed, d
<1> QED BY <1>2, <1>3

OldestAt(s, u, r) == OldestRoundFor(s.caps[u].archival, r)

StateOldestAt(s, u, r) == Larger(r - s.caps[u].lookback, 0)

\* The arms of Holds.
Blocks(s, u) == CapsAt(s, u, s.at[u]).oldest .. s.at[u]

States(s, u) == StateOldestAt(s, u, s.at[u]) .. s.at[u]

LEMMA HoldsBlocks ==
  ASSUME NEW s, NEW u, NEW p, p \in {"block", "stateproof"}
  PROVE  Holds(s, u, p) = Blocks(s, u)
BY Zenon DEF Holds, Blocks

LEMMA HoldsHeader ==
  ASSUME NEW s, NEW u, NEW p, p = "header"
  PROVE  Holds(s, u, p) =
           IF CapsAt(s, u, s.at[u]).timeTravel THEN 0 .. s.at[u] ELSE Blocks(s, u)
BY Zenon DEF Holds, Blocks

LEMMA HoldsDelta ==
  ASSUME NEW s, NEW u, NEW p, p = "delta"
  PROVE  Holds(s, u, p) =
           IF CapsAt(s, u, s.at[u]).timeTravel THEN Blocks(s, u)
           ELSE {r + 1 : r \in States(s, u)} \cap States(s, u)
BY Zenon DEF Holds, Blocks, States, StateOldestAt

LEMMA HoldsStates ==
  ASSUME NEW s, NEW u, NEW p, p \notin {"block", "stateproof", "header", "delta"}
  PROVE  Holds(s, u, p) =
           IF CapsAt(s, u, s.at[u]).timeTravel THEN 0 .. s.at[u] ELSE States(s, u)
BY Zenon DEF Holds, States, StateOldestAt

\* The node has what class c asks for, at the round it has really reached.
Has(s, u, c) ==
  IF s.caps[u].timeTravel THEN c.anyRound \/ c.round >= OldestAt(s, u, s.at[u])
  ELSE IF c.window = "block" THEN c.round >= OldestAt(s, u, s.at[u])
  ELSE c.round >= StateOldestAt(s, u, s.at[u]) + (IF c.window = "delta" THEN 1 ELSE 0)

LEMMA HoldsOK ==
  ASSUME NEW s, IsSituation(s), NEW u \in Upstreams, NEW q, IsRequest(q), RoundOf(q) # NoRound,
         NEW c, c = Asked(q), RoundOf(q) <= s.at[u]
  PROVE  RoundOf(q) \in Holds(s, u, q.path) <=> Has(s, u, c)
<1> DEFINE p == q.path
           r == RoundOf(q)
           n == s.at[u]
           o == OldestAt(s, u, n)
           l == StateOldestAt(s, u, n)
           k == CapsAt(s, u, n)
           tt == s.caps[u].timeTravel
<1>1. n \in Nat /\ r <= n
  BY DEF IsSituation
<1>2. k.oldest = o /\ k.timeTravel = tt /\ tt \in BOOLEAN /\ o \in Nat
  <2>1. s.caps[u] \in Caps /\ k.oldest = o /\ k.timeTravel = tt
    BY CapsAtOK DEF OldestAt
  <2>2. s.caps[u].archival \in Archivals \cup {NoOverride} /\ tt \in BOOLEAN
    BY <2>1 DEF Caps
  <2>3. o \in Nat
    <3> DEFINE a == s.caps[u].archival
    <3>1. a \in Archivals \cup {NoOverride} /\ n \in Nat /\ n <= n
      BY <1>1, <2>2
    <3> HIDE DEF a, n
    <3>2. OldestRoundFor(a, n) \in Nat
      BY <3>1, WindowMoves
    <3> QED BY <3>2 DEF OldestAt, a
  <2> QED BY <2>1, <2>2, <2>3
<1>3. /\ r \in Nat /\ c.round = r /\ p \in RoundPaths \cup {"simulate"}
      /\ c.window = (IF p \in {"block", "stateproof", "header"} THEN "block"
                     ELSE IF p = "delta" THEN "delta" ELSE "state")
      /\ c.anyRound <=> p \notin {"block", "stateproof", "delta"}
  BY RoundClass
<1>4. l \in Nat
  <2>1. s.caps[u].lookback \in Nat
    BY DEF IsSituation, Caps
  <2> QED BY <1>1, <2>1 DEF StateOldestAt, Larger
<1>5. (r \in Blocks(s, u) <=> r >= o) /\ (r \in States(s, u) <=> r >= l)
  BY <1>1, <1>2, <1>3, <1>4 DEF Blocks, States
<1>6. r \in {i + 1 : i \in States(s, u)} \cap States(s, u) <=> r >= l + 1
  BY <1>1, <1>3, <1>4 DEF States
<1>7. Has(s, u, c) <=> (IF tt THEN c.anyRound \/ r >= o ELSE IF c.window = "block" THEN r >= o
                        ELSE r >= l + (IF c.window = "delta" THEN 1 ELSE 0))
  BY <1>3 DEF Has
<1>8. r \in 0 .. n
  BY <1>1, <1>3
<1> HIDE DEF r, n, o, l, k, tt
<1>9. CASE p \in {"block", "stateproof"}
  <2>1. Holds(s, u, p) = Blocks(s, u)
    BY <1>9, HoldsBlocks
  <2> QED BY <1>3, <1>5, <1>7, <1>9, <2>1 DEF r
<1>10. CASE p = "header"
  <2>1. Holds(s, u, p) = IF tt THEN 0 .. n ELSE Blocks(s, u)
    BY <1>2, <1>10, HoldsHeader DEF k, n
  <2> QED BY <1>2, <1>3, <1>5, <1>7, <1>8, <1>10, <2>1 DEF r
<1>11. CASE p = "delta"
  <2>1. Holds(s, u, p) = IF tt THEN Blocks(s, u) ELSE {i + 1 : i \in States(s, u)} \cap States(s, u)
    BY <1>2, <1>11, HoldsDelta DEF k, n
  <2>2. CASE tt
    BY <1>3, <1>5, <1>7, <1>11, <2>1, <2>2 DEF r
  <2>3. CASE ~tt
    <3>1. r \in Holds(s, u, p) <=> r >= l + 1
      BY <1>6, <2>1, <2>3
    <3>2. Has(s, u, c) <=> r >= l + 1
      BY <1>3, <1>7, <1>11, <2>3
    <3> QED BY <3>1, <3>2 DEF r
  <2> QED BY <2>2, <2>3
<1>12. CASE p \notin {"block", "stateproof", "header", "delta"}
  <2>1. Holds(s, u, p) = IF tt THEN 0 .. n ELSE States(s, u)
    BY <1>2, <1>12, HoldsStates DEF k, n
  <2>2. CASE tt
    BY <1>3, <1>7, <1>8, <1>12, <2>1, <2>2 DEF r
  <2>3. CASE ~tt
    <3>1. r \in Holds(s, u, p) <=> r >= l
      BY <1>5, <2>1, <2>3
    <3>2. Has(s, u, c) <=> r >= l
      BY <1>3, <1>4, <1>7, <1>12, <2>3
    <3> QED BY <3>1, <3>2 DEF r
  <2> QED BY <2>2, <2>3
<1> QED BY <1>9, <1>10, <1>11, <1>12

-----------------------------------------------------------------------------
(* The right round.                                                        *)

LEMMA SnapshotSortable ==
  ASSUME NEW s, IsSituation(s), NEW recs0 \in Records0
  PROVE  Sortable(Snapshot(s, recs0))
BY SnapshotOK DEF Sortable

LEMMA SubsetSortable ==
  ASSUME NEW us, Sortable(us), NEW elig \in SUBSET us
  PROVE  Sortable(elig)
<1>1. IsFiniteSet(elig)
  BY FS_Subset DEF Sortable
<1> QED BY <1>1 DEF Sortable

\* Whom Select returns, of the upstreams us.
LEMMA SelectOK ==
  ASSUME NEW mode, NEW us, Sortable(us), NEW c, NEW best \in Int
  PROVE  /\ Select(mode, us, c, best) = {} <=> ~ \E u \in us : Eligible(u, c, best)
         /\ \A sel \in Select(mode, us, c, best) :
              /\ \A i \in DOMAIN sel : sel[i] \in us /\ Eligible(sel[i], c, best)
              /\ \A v \in us :
                   /\ EffectiveTier(mode, v) = EffectiveTier(mode, sel[1])
                   /\ v.caps.timeTravel /\ Eligible(v, c, best)
                   => ~StateWindowEdge(sel[1], c)
<1> DEFINE elig == {u \in us : Eligible(u, c, best)}
<1>1. Sortable(elig)
  BY SubsetSortable
<1>2. Select(mode, us, c, best) = Selections(mode, elig, c, best)
  BY DEF Select
<1>3. elig = {} <=> ~ \E u \in us : Eligible(u, c, best)
  OBVIOUS
<1>4. \A u : u \in elig <=> u \in us /\ Eligible(u, c, best)
  OBVIOUS
<1> HIDE DEF elig
<1>5. Selections(mode, elig, c, best) = {} <=> elig = {}
  BY <1>1, SelectionsOK
<1>6. ASSUME NEW sel \in Selections(mode, elig, c, best)
      PROVE  /\ \A i \in DOMAIN sel : sel[i] \in elig
             /\ \A v \in elig :
                   EffectiveTier(mode, v) = EffectiveTier(mode, sel[1]) /\ v.caps.timeTravel
                   => ~Risky(elig, c, sel[1])
  BY <1>1, SelectionsOK
<1>7. ASSUME NEW sel \in Selections(mode, elig, c, best), NEW v \in elig,
             EffectiveTier(mode, v) = EffectiveTier(mode, sel[1]), v.caps.timeTravel
      PROVE  ~StateWindowEdge(sel[1], c)
  BY <1>6, <1>7 DEF Risky
<1> QED BY <1>2, <1>3, <1>4, <1>5, <1>6, <1>7

\* Of a node that may be asked the directory has news.
LEMMA ReachableOK ==
  ASSUME NEW s, IsSituation(s), NEW recs0 \in Records0, NEW x \in Snapshot(s, recs0), Reachable(x)
  PROVE  /\ x.id \in Known(recs0) /\ x.id \in Upstreams /\ x.kind = KindOf(x.id)
         /\ x.last = s.seen[x.id] /\ x.caps = ToldCaps(s, x.id)
         /\ s.out[x.id] \notin Unreachable
<1>1. x.id \in Known(recs0) /\ x = Candidate(s, recs0, x.id)
  BY SnapshotOK
<1> DEFINE u == x.id
<1>2. u \in Upstreams /\ x.kind = KindOf(u) /\ x.health = Health(s, u, Best(s, recs0))
  <2>1. u \in Upstreams
    BY <1>1, CandidateOK
  <2>2. x.kind = KindOf(u) /\ x.health = Health(s, u, Best(s, recs0))
    BY <1>1 DEF Candidate
  <2> QED BY <2>1, <2>2
<1>3. s.out[u] \notin Unreachable /\ ~Silent(s, u)
  BY <1>2 DEF Reachable, Health, Silent, Unreachable
<1>4. x.last = s.seen[u] /\ x.caps = ToldCaps(s, u)
  <2>1. x.last = (IF Silent(s, u) THEN 0 ELSE s.seen[u])
        /\ x.caps = (IF Silent(s, u) THEN NoCaps ELSE ToldCaps(s, u))
    BY <1>1 DEF Candidate
  <2> QED BY <1>3, <2>1
<1> QED BY <1>1, <1>2, <1>3, <1>4

\* The window of blocks that a node had at the round the directory has it for, and the
\* one it has now.
LEMMA WindowsOK ==
  ASSUME NEW s, IsSituation(s), NEW u \in Upstreams
  PROVE  LET i == s.told[u]
             j == s.at[u] IN
         /\ i \in Nat /\ j \in Nat /\ i <= j
         /\ s.seen[u] \in Nat /\ s.seen[u] <= j /\ s.caps[u].lookback \in Nat
         /\ OldestAt(s, u, i) \in Nat /\ OldestAt(s, u, j) \in Nat
         /\ OldestAt(s, u, i) <= OldestAt(s, u, j)
         /\ OldestAt(s, u, j) <= OldestAt(s, u, i) + (j - i)
<1> DEFINE i == s.told[u]
           j == s.at[u]
           a == s.caps[u].archival
<1>1. /\ j \in Nat /\ i \in Nat /\ i <= j /\ s.caps[u] \in Caps
      /\ s.seen[u] \in Nat /\ s.seen[u] <= j
  BY DEF IsSituation
<1>2. a \in Archivals \cup {NoOverride} /\ s.caps[u].lookback \in Nat
  BY <1>1 DEF Caps
<1> HIDE DEF i, j, a
<1>3. /\ OldestRoundFor(a, i) \in Nat /\ OldestRoundFor(a, j) \in Nat
      /\ OldestRoundFor(a, i) <= OldestRoundFor(a, j)
      /\ OldestRoundFor(a, j) <= OldestRoundFor(a, i) + (j - i)
  BY <1>1, <1>2, WindowMoves
<1> QED BY <1>1, <1>2, <1>3 DEF OldestAt, i, j, a

\* The classes a request about a round may be sent by.
LEMMA SentAs ==
  ASSUME NEW q, IsRequest(q), RoundOf(q) # NoRound, NEW c, c = Asked(q),
         NEW k, k = c \/ k = Needless(c)
  PROVE  /\ k.round = c.round /\ k.window = c.window /\ k.window \in {"block", "state", "delta"}
         /\ k.anyRound <=> c.anyRound
         /\ k.timeTravel <=> c.timeTravel
<1>1. c \in ClassRec
  BY RoundClass DEF Roundly
<1>2. CASE k = c
  BY <1>1, <1>2 DEF ClassRec
<1>3. CASE k = Needless(c)
  <2> DEFINE n == NoNeeds
  <2>1. k = [c EXCEPT !.needs = n]
    BY <1>3 DEF Needless
  <2> HIDE DEF n
  <2>2. k.round = c.round /\ k.window = c.window /\ k.anyRound = c.anyRound /\ k.timeTravel = c.timeTravel
    BY <1>1, <2>1 DEF ClassRec
  <2>3. c.window \in {"block", "state", "delta"}
    BY <1>1 DEF ClassRec
  <2> QED BY <2>2, <2>3
<1> QED BY <1>2, <1>3

\* A node that is selected for a class has what it asks for, or had it when the
\* directory had the last news of it, or nobody told.
LEMMA SelectedHas ==
  ASSUME NEW s, IsSituation(s), NEW recs0 \in Records0, NEW x \in Snapshot(s, recs0),
         NEW k, k.round \in Nat, k.window \in {"block", "state", "delta"}, NEW best,
         Eligible(x, k, best), ~Has(s, x.id, k)
  PROVE  \/ x.id \notin s.heard /\ "archival" \notin s.declared[x.id]
         \/ x.caps.lookback = 0 /\ k.window # "block" /\ ~x.caps.timeTravel
         \/ /\ k.round - WindowLow(x, k) < s.at[x.id] - AsOf(s, x, k)
            /\ AtTheEdge(x, k) => StateWindowEdge(x, k)
<1> DEFINE u == x.id
           i == s.seen[u]
           t == s.told[u]
           j == s.at[u]
           ot == OldestAt(s, u, t)
           oj == OldestAt(s, u, j)
           r == k.round
           dl == IF k.window = "delta" THEN 1 ELSE 0
           back == x.caps.lookback
<1> SUFFICES ASSUME u \in s.heard \/ "archival" \in s.declared[u],
                    back # 0 \/ k.window = "block" \/ x.caps.timeTravel
             PROVE  /\ r - WindowLow(x, k) < j - AsOf(s, x, k)
                    /\ AtTheEdge(x, k) => StateWindowEdge(x, k)
  OBVIOUS
<1>1. Reachable(x) /\ r # NoRound /\ Covers(x, k)
  <2>1. r # NoRound
    BY DEF NoRound
  <2> QED BY <2>1 DEF Eligible
<1>2. u \in Upstreams /\ x.kind = KindOf(u) /\ x.last = i /\ x.caps = ToldCaps(s, u)
  BY <1>1, ReachableOK
<1>3. /\ x.caps.oldest = ot /\ x.caps.timeTravel \in BOOLEAN
      /\ x.caps.timeTravel => s.caps[u].timeTravel
      /\ back \in Nat
      /\ back # 0 => /\ back = s.caps[u].lookback /\ x.caps.timeTravel = s.caps[u].timeTravel
  BY <1>2, ToldCapsOK DEF OldestAt, Disclosed
<1>4. /\ i \in Nat /\ j \in Nat /\ t \in Nat /\ ot \in Nat /\ oj \in Nat
      /\ i <= j /\ t <= j /\ oj <= ot + (j - t)
  BY <1>2, WindowsOK
<1>5. dl \in {0, 1}
  OBVIOUS
<1>6. StateOldest(x, k.window) = (IF i - back > 0 THEN i - back ELSE 0) + dl
  BY <1>2 DEF StateOldest, Larger
<1>7. AtTheEdge(x, k) => back # 0
  BY DEF AtTheEdge
<1>8. AtTheEdge(x, k) => StateWindowEdge(x, k)
  BY <1>1, <1>7 DEF AtTheEdge, StateWindowEdge
<1>9. CASE x.caps.timeTravel \/ k.window = "block"
  <2>1. r \in Nat /\ r >= ot /\ ~(r >= oj)
    BY <1>1, <1>3, <1>9 DEF Covers, Has
  <2>2. WindowLow(x, k) = ot /\ AsOf(s, x, k) = t
    BY <1>3, <1>9 DEF WindowLow, AsOf, GoesByBlocks
  <2>3. r - ot < j - t
    <3> HIDE DEF u, i, j, t, ot, oj, r
    <3> QED BY <1>4, <2>1
  <2> QED BY <1>8, <2>2, <2>3
<1>10. CASE ~(x.caps.timeTravel \/ k.window = "block")
  <2> DEFINE so == StateOldest(x, k.window)
             sj == StateOldestAt(s, u, j)
  <2>1. ~(r >= sj + dl)
    BY <1>3, <1>10 DEF Has
  <2>2. r >= so /\ r \in Nat
    BY <1>1, <1>10 DEF Covers, StateWindowCovers
  <2>3. sj = IF j - back > 0 THEN j - back ELSE 0
    BY <1>3, <1>10 DEF StateOldestAt, Larger
  <2>4. WindowLow(x, k) = so /\ AsOf(s, x, k) = i
    BY <1>10 DEF WindowLow, AsOf, GoesByBlocks
  <2>5. r - so < j - i
    <3> HIDE DEF u, i, j, t, ot, oj, r, dl, back, so, sj
    <3>1. so = (IF i - back > 0 THEN i - back ELSE 0) + dl /\ back \in Nat
      BY <1>3, <1>6 DEF so
    <3> QED BY <1>4, <1>5, <2>1, <2>2, <2>3, <3>1
  <2> QED BY <1>8, <2>4, <2>5
<1> QED BY <1>9, <1>10

\* Snapshot, class and decision of a request, as Routed puts them together.
LEMMA RoutedOK ==
  ASSUME NEW s, IsSituation(s), NEW recs0 \in Records0, NEW q, NEW c, c = Asked(q),
         NEW d, d = Routed(s, recs0, q)
  PROVE  LET us == Snapshot(s, recs0)
             best == Best(s, recs0) IN
         /\ d.asked = c
         /\ d.sels = Select(s.mode, us, d.class, best)
         /\ d.class # c => ~CouldServe(us, c)
         /\ ~c.needs.asked => d.class = c
         /\ ~c.needs.span => d.class = c \/ d.class = Needless(c)
         /\ d.sels = {} => d.class = c
         /\ Select(s.mode, us, c, best) # {} => d.class = c
<1> DEFINE us == Snapshot(s, recs0)
           best == Best(s, recs0)
           e == Decision(s.mode, us, c, best)
<1>1. d = [asked |-> c, class |-> e.class, sels |-> e.sels]
  BY Zenon DEF Routed, Asked
<1>2. Sortable(us) /\ best \in Int
  BY SnapshotSortable, BestType
<1> DEFINE m == s.mode
<1> HIDE DEF us, best, m
<1>3. /\ e.sels = Select(m, us, e.class, best)
      /\ e.class # c => ~CouldServe(us, c)
      /\ ~c.needs.asked => e.class = c
      /\ ~c.needs.span => e.class = c \/ e.class = Needless(c)
      /\ e.sels = {} => e.class = c
      /\ Select(m, us, c, best) # {} => e.class = c
  BY <1>2, DecisionOK DEF m
<1> HIDE DEF e
<1>4. d.asked = c /\ d.class = e.class /\ d.sels = e.sels
  BY <1>1
<1> QED BY <1>3, <1>4 DEF us, best, m

\* Nobody along a selection answers for another round, and who lacks the round is
\* excused.
LEMMA NobodyMisses ==
  ASSUME NEW s, IsSituation(s), NEW recs0 \in Records0, NEW q, IsRequest(q),
         NEW d, d = Routed(s, recs0, q), NEW sel \in d.sels, NEW i \in DOMAIN sel
  PROVE  Verdict(s, recs0, q, d.class, sel, i) \notin {"present", "missing"}
<1> DEFINE us == Snapshot(s, recs0)
           best == Best(s, recs0)
           c == Asked(q)
           k == d.class
           x == sel[i]
           u == x.id
           mode == s.mode
<1>1. CASE RoundOf(q) = NoRound
  BY <1>1 DEF Verdict, NodeAnswers
<1>2. CASE RoundOf(q) # NoRound
  <2>1. /\ RoundOf(q) \in Nat /\ c.round = RoundOf(q) /\ Roundly(c)
        /\ c.timeTravel <=> q.path \in {"account", "box", "supply"}
    BY <1>2, RoundClass
  <2>2. k = c \/ k = Needless(c)
    <3>1. ~c.needs.span
      BY <2>1 DEF Roundly
    <3>2. ~c.needs.span => d.class = c \/ d.class = Needless(c)
      BY RoutedOK
    <3> QED BY <3>1, <3>2
  <2>3. /\ k.round = c.round /\ k.window = c.window /\ k.window \in {"block", "state", "delta"}
        /\ k.anyRound <=> c.anyRound
        /\ k.timeTravel <=> c.timeTravel
    BY <1>2, <2>2, SentAs
  <2>4. sel \in Select(mode, us, k, best) /\ Sortable(us) /\ best \in Int
    <3>1. d.sels = Select(mode, us, k, best)
      BY RoutedOK
    <3>2. Sortable(us) /\ best \in Int
      BY SnapshotSortable, BestType
    <3> QED BY <3>1, <3>2
  <2> HIDE DEF us, best, mode, k, c
  <2>5. x \in us /\ Eligible(x, k, best)
    BY <2>4, SelectOK
  <2>6. \A v \in us : EffectiveTier(mode, v) = EffectiveTier(mode, sel[1])
                      /\ v.caps.timeTravel /\ Eligible(v, k, best) => ~StateWindowEdge(sel[1], k)
    BY <2>4, SelectOK
  <2>7. k.round # NoRound /\ k.round \in Nat
    BY <1>2, <2>1, <2>3
  <2>8. Reachable(x) /\ Covers(x, k) /\ (k.timeTravel => x.caps.timeTravel)
    BY <2>5, <2>7 DEF Eligible
  <2>9. u \in Upstreams /\ x.last = s.seen[u] /\ x.caps = ToldCaps(s, u)
    BY <2>5, <2>8, ReachableOK DEF us
  <2>10. x.caps.timeTravel => s.caps[u].timeTravel
    BY <2>9, ToldCapsOK
  <2>11. ~Ignores(s, u, q.path)
    BY <2>1, <2>3, <2>8, <2>10 DEF Ignores
  <2>12. RoundOf(q) <= s.at[u]
    <3>1. k.round <= x.last
      BY <2>8 DEF Covers
    <3>2. s.seen[u] <= s.at[u] /\ s.seen[u] \in Nat /\ s.at[u] \in Nat
      BY <2>9 DEF IsSituation
    <3> QED BY <2>1, <2>3, <2>9, <3>1, <3>2
  <2>13. RoundOf(q) \in Holds(s, u, q.path) <=> Has(s, u, c)
    BY <1>2, <2>9, <2>12, HoldsOK DEF c
  <2>14. Has(s, u, c) <=> Has(s, u, k)
    BY <2>3 DEF Has
  <2>15. CASE Has(s, u, k)
    <3>1. NodeAnswers(s, u, q) = "right"
      BY <1>2, <2>11, <2>13, <2>14, <2>15 DEF NodeAnswers
    <3> QED BY <3>1 DEF Verdict
  <2>16. CASE ~Has(s, u, k)
    <3>1. NodeAnswers(s, u, q) = "missing"
      BY <1>2, <2>11, <2>13, <2>14, <2>16 DEF NodeAnswers
    <3>2. \/ x.id \notin s.heard /\ "archival" \notin s.declared[x.id]
          \/ x.caps.lookback = 0 /\ k.window # "block" /\ ~x.caps.timeTravel
          \/ /\ k.round - WindowLow(x, k) < s.at[x.id] - AsOf(s, x, k)
             /\ AtTheEdge(x, k) => StateWindowEdge(x, k)
      BY <2>3, <2>5, <2>7, <2>16, SelectedHas DEF us
    <3>3. ASSUME AtTheEdge(x, k) => StateWindowEdge(x, k),
                 i = 1, AtTheEdge(x, k),
                 NEW v \in us, EffectiveTier(mode, v) = EffectiveTier(mode, x),
                 v.caps.timeTravel, Eligible(v, k, best)
          PROVE  FALSE
      BY <2>6, <3>3
    <3>4. Excused(s, recs0, k, sel, i)
      BY <3>2, <3>3 DEF Excused, us, best, mode
    <3> QED BY <3>1, <3>4 DEF Verdict, k
  <2> QED BY <2>15, <2>16
<1> QED BY <1>1, <1>2

\* A verdict of an outcome is one of a routed request, for some records known.
LEMMA MayOK ==
  ASSUME NEW verdict, May(verdict)
  PROVE  \E recs0 \in Records0, s \in Situations, q \in Requests :
           verdict \in Judged(s, recs0, q, Routed(s, recs0, q), Routed(Well(s), recs0, q))
BY DEF May, Outcomes, Verdicts, Records0

LEMMA JudgedOK ==
  ASSUME NEW s, NEW recs0, NEW q, NEW d, NEW w, NEW verdict \in Judged(s, recs0, q, d, w)
  PROVE  \/ \E sel \in d.sels : \E i \in DOMAIN sel : verdict = Verdict(s, recs0, q, d.class, sel, i)
         \/ verdict = "relaxed" /\ RelaxedForOutage(d, w)
         \/ verdict = "refused" /\ Wronged(s, recs0, q, d)
<1>1. \/ verdict \in Answers(s, recs0, q, d)
      \/ verdict = "relaxed" /\ RelaxedForOutage(d, w)
      \/ verdict = "refused" /\ Wronged(s, recs0, q, d)
  BY DEF Judged
<1>2. verdict \in Answers(s, recs0, q, d) =>
        \E sel \in d.sels : \E i \in DOMAIN sel : verdict = Verdict(s, recs0, q, d.class, sel, i)
  BY DEF Answers
<1> QED BY <1>1, <1>2

\* For every fleet, situation and request: nobody along a selection answers for
\* another round, and one that lacks the round it is asked for has lost it since
\* the last news of it, or nobody told what it has (Classify, Eligible, Select,
\* Snapshot).
THEOREM RightRoundHolds == Spec => []RightRound
<1>1. RightRound
  <2> SUFFICES ASSUME NEW verdict \in {"present", "missing"}, May(verdict) PROVE FALSE
    BY DEF RightRound
  <2>1. PICK recs0 \in Records0, s \in Situations, q \in Requests :
           verdict \in Judged(s, recs0, q, Routed(s, recs0, q), Routed(Well(s), recs0, q))
    BY MayOK
  <2> DEFINE d == Routed(s, recs0, q)
             w == Routed(Well(s), recs0, q)
  <2>2. IsSituation(s) /\ IsRequest(q)
    BY FleetAssumption
  <2>3. \A sel \in d.sels : \A i \in DOMAIN sel :
          Verdict(s, recs0, q, d.class, sel, i) \notin {"present", "missing"}
    BY <2>2, NobodyMisses
  <2> HIDE DEF d, w
  <2>4. verdict \in Judged(s, recs0, q, d, w)
    BY <2>1 DEF d, w
  <2>5. \E sel \in d.sels : \E i \in DOMAIN sel : verdict = Verdict(s, recs0, q, d.class, sel, i)
    BY <2>4, JudgedOK
  <2> QED BY <2>3, <2>5
<1> QED BY <1>1, PTL

-----------------------------------------------------------------------------
(* Nobody is refused what a node has.                                      *)

LEMMA FitsOK ==
  ASSUME NEW n, NEW a, NEW b, a.simulate = b.simulate, a.dev = b.dev
  PROVE  Fits(n, a) <=> Fits(n, b)
<1>1. SimulateLimits(a) = SimulateLimits(b)
  BY DEF SimulateLimits
<1> QED BY <1>1 DEF Fits

\* A node that is able is eligible.
LEMMA AbleEligible ==
  ASSUME NEW s, IsSituation(s), NEW recs0 \in Records0, NEW q, IsRequest(q), NEW c, c = Asked(q),
         NEW u \in Known(recs0), Able(s, u, q, c), NEW best
  PROVE  Eligible(Candidate(s, recs0, u), c, best)
<1> DEFINE x == Candidate(s, recs0, u)
           i == s.seen[u]
           t == s.told[u]
           j == s.at[u]
           ot == OldestAt(s, u, t)
           oj == OldestAt(s, u, j)
           r == RoundOf(q)
           dl == IF c.window = "delta" THEN 1 ELSE 0
           back == x.caps.lookback
<1>1. s.out[u] = "no" /\ NodeAnswers(s, u, q) = "right" /\ r <= i /\ (c.needs.asked => Fits(c.needs, s.caps[u]))
      /\ Disclosed(s, u)
  BY DEF Able
<1>2. r # NoRound /\ ~Ignores(s, u, q.path) /\ r \in Holds(s, u, q.path)
  BY <1>1 DEF NodeAnswers
<1>3. /\ r \in Nat /\ c.round = r /\ Roundly(c)
      /\ c.timeTravel <=> q.path \in {"account", "box", "supply"}
  BY <1>2, RoundClass
<1>4. u \in Upstreams
  BY CandidateOK
<1>5. /\ x.health = Health(s, u, Best(s, recs0)) /\ x.excluded = FALSE /\ x.throttled = FALSE
      /\ (x.draining <=> s.out[u] = "draining") /\ (x.breaker <=> s.out[u] = "breaker")
      /\ (x.busy <=> s.out[u] = "busy") /\ x.id = u
      /\ x.last = (IF Silent(s, u) THEN 0 ELSE i)
      /\ x.caps = (IF Silent(s, u) THEN NoCaps ELSE ToldCaps(s, u))
  BY DEF Candidate
<1>6. ~Silent(s, u) /\ Reachable(x) /\ ~x.draining /\ ~x.breaker /\ ~x.busy
  BY <1>1, <1>5 DEF Silent, Health, Reachable, Unreachable
<1>7. x.last = i /\ x.caps = ToldCaps(s, u)
  BY <1>5, <1>6
<1> HIDE DEF x
<1>8. /\ x.caps.oldest = ot /\ x.caps.timeTravel = s.caps[u].timeTravel
      /\ x.caps.simulate = s.caps[u].simulate
      /\ x.caps.dev = s.caps[u].dev /\ back \in Nat
      /\ back # 0 => back = s.caps[u].lookback
  BY <1>1, <1>4, <1>7, ToldCapsOK DEF OldestAt, Disclosed, Declarable
<1>9. /\ i \in Nat /\ j \in Nat /\ t \in Nat /\ ot \in Nat /\ oj \in Nat
      /\ i <= j /\ ot <= oj /\ s.caps[u].lookback \in Nat
  BY <1>4, WindowsOK
<1>11. Has(s, u, c)
  <2>1. r <= j
    <3> HIDE DEF i, j, r
    <3> QED BY <1>1, <1>3, <1>9
  <2> QED BY <1>2, <1>4, <2>1, HoldsOK
<1>12. oj <= StateOldestAt(s, u, j)
  BY <1>4 DEF IsSituation, OldestAt, StateOldestAt
<1>13. dl \in {0, 1}
  OBVIOUS
<1>14. StateOldest(x, c.window) = (IF i - back > 0 THEN i - back ELSE 0) + dl
  BY <1>7 DEF StateOldest, Larger
<1>15. Covers(x, c)
  <2>1. c.round <= x.last /\ c.high <= x.last
    BY <1>1, <1>3, <1>7, <1>9 DEF Roundly
  <2>2. CASE x.caps.timeTravel \/ c.window = "block"
    <3>1. \/ x.caps.timeTravel /\ c.anyRound
          \/ r >= oj
      BY <1>3, <1>8, <1>11, <2>2 DEF Has
    <3>2. r >= oj => r >= ot
      <4> HIDE DEF r, ot, oj
      <4> QED BY <1>3, <1>9
    <3> QED BY <1>3, <1>8, <2>1, <2>2, <3>1, <3>2 DEF Covers
  <2>3. CASE ~(x.caps.timeTravel \/ c.window = "block")
    <3> DEFINE so == StateOldest(x, c.window)
               sj == StateOldestAt(s, u, j)
    <3>1. r >= sj + dl
      BY <1>3, <1>8, <1>11, <2>3 DEF Has
    <3>0. sj = IF j - s.caps[u].lookback > 0 THEN j - s.caps[u].lookback ELSE 0
      BY DEF StateOldestAt, Larger
    <3>2. r >= (IF back = 0 THEN ot ELSE so)
      <4> DEFINE lb == s.caps[u].lookback
      <4>1. back # 0 => back = lb
        BY <1>8
      <4>2. lb \in Nat
        BY <1>9
      <4>3. sj = IF j - lb > 0 THEN j - lb ELSE 0
        BY <3>0
      <4> HIDE DEF i, j, t, ot, oj, r, dl, back, so, sj, lb
      <4>4. sj \in Nat
        BY <1>9, <4>2, <4>3
      <4>5. CASE back = 0
        <5>1. oj <= sj
          BY <1>12 DEF sj
        <5> QED BY <1>3, <1>9, <1>13, <3>1, <4>4, <4>5, <5>1
      <4>6. CASE back # 0
        <5>1. so = (IF i - lb > 0 THEN i - lb ELSE 0) + dl
          BY <1>14, <4>1, <4>6 DEF so
        <5>2. r >= so
          BY <1>3, <1>9, <1>13, <3>1, <4>2, <4>3, <5>1
        <5> QED BY <4>6, <5>2
      <4> QED BY <4>5, <4>6
    <3>3. StateWindowCovers(x, c.round, c.window)
      BY <1>3, <1>8, <3>2 DEF StateWindowCovers
    <3> QED BY <2>1, <2>3, <3>3 DEF Covers
  <2> QED BY <2>2, <2>3
<1>16. c.timeTravel => x.caps.timeTravel
  BY <1>2, <1>3, <1>8 DEF Ignores
<1>17. c.needs.asked => Fits(c.needs, x.caps)
  BY <1>1, <1>8, FitsOK
<1>18. /\ ~c.localOnly /\ c.wait = NoRound /\ ~c.dev /\ ~c.broadcast /\ ~c.needs.latest
       /\ c.round # NoRound
  BY <1>2, <1>3 DEF Roundly
<1>19. Eligible(x, c, best)
  BY <1>5, <1>6, <1>15, <1>16, <1>17, <1>18 DEF Eligible, x
<1> QED BY <1>19 DEF x

\* "Not yet" is said of a round only: the arms of Classify without one.
LEMMA AheadNamesRound ==
  ASSUME NEW q, IsRequest(q), RoundOf(q) = NoRound
  PROVE  ~Asked(q).ahead
<1> DEFINE m == q.method
           p == q.path
           r == q.round
           b == q.body
           k == Base(m)
<1>1. b \in Bodies /\ r \in Nat \cup {NoRound} /\ (r # NoRound => p \in RoundPaths)
  BY DEF IsRequest
<1>2. r = NoRound
  BY <1>1 DEF RoundOf, RoundPaths
<1>3. k \in ClassRec /\ k.ahead = FALSE
  <2>1. 0 \in Nat
    OBVIOUS
  <2> QED BY <2>1, BaseOK DEF Roundly
<1> DEFINE g == m = "GET"
           h == Classify(m, p, NoRound, NoRound)
<1>4. g \in BOOLEAN
  OBVIOUS
<1>5. CASE p = "simulate"
  <2> DEFINE x == SimBase(m)
             n == NeedsOf(b)
             y == Asking(m, b)
             lo == Min(Named(b))
             hi == Max(Named(b))
             z == AtRound(y, lo)
  <2>1. b.round = 0
    BY <1>1, <1>5 DEF RoundOf, Bodies, NoRound
  <2>2. h = x
    BY <1>5, SimulateArm DEF SimBase
  <2>3. Asked(q) = ApplySimulate(x, b)
    BY <1>2, <1>5, <2>2 DEF Asked
  <2>4. ApplySimulate(x, b) = y \/ ApplySimulate(x, b) = [z EXCEPT !.high = hi]
    BY <2>1, Zenon DEF ApplySimulate, Asking, NeedsOf, Named
  <2>5. x = [k EXCEPT !.idempotent = TRUE, !.simulate = TRUE] /\ y = [x EXCEPT !.needs = n]
        /\ z = [y EXCEPT !.round = lo, !.window = "state", !.anyRound = TRUE]
    BY DEF SimBase, Asking, AtRound
  <2> HIDE DEF x, n, y, lo, hi, z, k
  <2>6. x.ahead = FALSE /\ x \in ClassRec
    BY <1>3, <2>5 DEF ClassRec
  <2>7. y.ahead = FALSE /\ DOMAIN y = DOMAIN x
    BY <2>5, <2>6 DEF ClassRec
  <2>8. z.ahead = FALSE /\ [z EXCEPT !.high = hi].ahead = FALSE
    BY <2>5, <2>6, <2>7 DEF ClassRec
  <2> QED BY <2>3, <2>4, <2>7, <2>8
<1>6. CASE p # "simulate"
  <2> DEFINE t == Stored(m, NoRound)
  <2>1. Asked(q) = h
    BY <1>2, <1>6 DEF Asked
  <2>2. \/ h = k
        \/ h = [k EXCEPT !.agent = TRUE, !.localOnly = TRUE]
        \/ h = [k EXCEPT !.localOnly = TRUE]
        \/ h = [k EXCEPT !.timeTravel = TRUE]
        \/ h = t
        \/ h = [t EXCEPT !.anyRound = TRUE]
        \/ h = [k EXCEPT !.wait = NoRound]
        \/ h = [k EXCEPT !.round = NoRound]
        \/ h = [k EXCEPT !.dev = TRUE, !.idempotent = TRUE]
        \/ h = [k EXCEPT !.broadcast = TRUE, !.idempotent = FALSE]
        \/ h = [k EXCEPT !.pending = TRUE]
        \/ h = [k EXCEPT !.limits = g]
    BY <1>6, Zenon DEF Classify, Base, Stored
  <2>3. t = [k EXCEPT !.round = NoRound, !.ahead = FALSE]
    BY DEF Stored
  <2> HIDE DEF k, h, t, g
  <2>4. t.ahead = FALSE /\ DOMAIN t = DOMAIN k
    BY <1>3, <2>3 DEF ClassRec
  <2>5. h.ahead = FALSE
    BY <1>3, <1>4, <2>2, <2>3, <2>4 DEF ClassRec
  <2> QED BY <2>1, <2>5
<1> QED BY <1>5, <1>6

\* BestRound is as far as any node that is heard of.
LEMMA BestRoundOK ==
  ASSUME NEW s, IsSituation(s), NEW recs0 \in Records0, NEW u \in Known(recs0),
         s.out[u] \notin Unreachable
  PROVE  BestRound(Snapshot(s, recs0)) \in Int /\ s.seen[u] <= BestRound(Snapshot(s, recs0))
<1> DEFINE us == Snapshot(s, recs0)
           K == {v \in us : Reachable(v) /\ ~v.excluded}
           L == {v.last : v \in K}
           S == {0} \cup L
           x == Candidate(s, recs0, u)
<1>1. IsFiniteSet(us) /\ \A v \in us : v.last \in Int
  BY SnapshotOK
<1>2. x \in us
  BY DEF Snapshot
<1>3. /\ x.health = Health(s, u, Best(s, recs0)) /\ x.excluded = FALSE
      /\ x.last = (IF Silent(s, u) THEN 0 ELSE s.seen[u])
  BY DEF Candidate
<1>4. Reachable(x) /\ ~x.excluded /\ x.last = s.seen[u]
  BY <1>3 DEF Reachable, Health, Silent, Unreachable
<1>5. BestRound(us) = Max(S)
  BY DEF BestRound
<1> HIDE DEF us, x
<1>6. IsFiniteSet(K)
  BY <1>1, FS_Subset
<1>7. IsFiniteSet(L)
  <2> DEFINE f == [v \in K |-> v.last]
  <2>1. f \in Surjection(K, L)
    BY DEF Surjection
  <2> HIDE DEF f, K, L
  <2> QED BY <1>6, <2>1, FS_Surjection
<1>8. IsFiniteSet(S)
  <2> HIDE DEF L
  <2> QED BY <1>7, FS_Singleton, FS_Union
<1>9. S \subseteq Int /\ S # {} /\ x.last \in S
  BY <1>1, <1>2, <1>4
<1> HIDE DEF S
<1>10. Max(S) \in S /\ Max(S) >= x.last
  BY <1>8, <1>9, MaxOK
<1>11. Max(S) \in Int /\ x.last \in Int
  BY <1>9, <1>10
<1> QED BY <1>4, <1>5, <1>10, <1>11 DEF us

LEMMA NobodyWronged ==
  ASSUME NEW s, IsSituation(s), NEW recs0 \in Records0, NEW q, IsRequest(q),
         NEW d, d = Routed(s, recs0, q), Wronged(s, recs0, q, d)
  PROVE  FALSE
<1> DEFINE us == Snapshot(s, recs0)
           best == Best(s, recs0)
           c == Asked(q)
           mode == s.mode
<1>1. PICK u \in Known(recs0) :
       \/ Able(s, u, q, d.asked)
       \/ /\ Refusal(us, d.asked) = "ahead"
          /\ s.out[u] \notin Unreachable /\ RoundOf(q) <= s.seen[u]
  BY DEF Wronged
<1>2. d.sels = {}
  BY DEF Wronged
<1>3. d.asked = c
  BY RoutedOK
<1>4. d.sels = {} => d.class = c
  BY RoutedOK
<1>5. d.sels = Select(mode, us, d.class, best)
  BY RoutedOK
<1>6. Sortable(us) /\ best \in Int
  BY SnapshotSortable, BestType
<1>7. CASE Able(s, u, q, c)
  <2>1. Eligible(Candidate(s, recs0, u), c, best) /\ Candidate(s, recs0, u) \in us
    BY <1>7, AbleEligible DEF Snapshot
  <2> HIDE DEF us, c, best, mode
  <2>2. Select(mode, us, c, best) = {} <=> ~ \E v \in us : Eligible(v, c, best)
    BY <1>6, SelectOK
  <2> QED BY <1>2, <1>4, <1>5, <2>1, <2>2
<1>8. CASE Refusal(us, c) = "ahead" /\ s.out[u] \notin Unreachable /\ RoundOf(q) <= s.seen[u]
  <2>1. c.ahead /\ c.round > BestRound(us)
    BY <1>8 DEF Refusal
  <2>2. RoundOf(q) # NoRound
    BY <2>1, AheadNamesRound
  <2>3. c.round = RoundOf(q) /\ RoundOf(q) \in Nat
    BY <2>2, RoundClass
  <2>4. BestRound(us) \in Int /\ s.seen[u] <= BestRound(us)
    BY <1>8, BestRoundOK
  <2>5. s.seen[u] \in Nat
    BY CandidateOK
  <2> HIDE DEF us, c
  <2> QED BY <1>8, <2>1, <2>3, <2>4, <2>5
<1> QED BY <1>1, <1>3, <1>7, <1>8

\* For every fleet, situation and request: a round that a node in good health has,
\* and is known to have reached, is not refused, and "not yet" is not said of a
\* round that a reachable node has reached (Eligible, BestRound, handleDefault).
THEOREM RefusedOnlyWhenNobodyHasHolds == Spec => []RefusedOnlyWhenNobodyHas
<1>1. RefusedOnlyWhenNobodyHas
  <2> SUFFICES ASSUME May("refused") PROVE FALSE
    BY DEF RefusedOnlyWhenNobodyHas
  <2>1. PICK recs0 \in Records0, s \in Situations, q \in Requests :
           "refused" \in Judged(s, recs0, q, Routed(s, recs0, q), Routed(Well(s), recs0, q))
    BY MayOK
  <2> DEFINE d == Routed(s, recs0, q)
             w == Routed(Well(s), recs0, q)
  <2>2. IsSituation(s) /\ IsRequest(q)
    BY FleetAssumption
  <2>3. ~Wronged(s, recs0, q, d)
    BY <2>2, NobodyWronged
  <2>4. \A sel, i : Verdict(s, recs0, q, d.class, sel, i) # "refused"
    BY DEF Verdict, NodeAnswers
  <2> HIDE DEF d, w
  <2>5. "refused" \in Judged(s, recs0, q, d, w)
    BY <2>1 DEF d, w
  <2> QED BY <2>3, <2>4, <2>5, JudgedOK
<1> QED BY <1>1, PTL

-----------------------------------------------------------------------------
(* An outage relaxes nothing.                                              *)

LEMMA WellOK ==
  ASSUME NEW s, IsSituation(s), NEW z, z = Well(s)
  PROVE  /\ IsSituation(z) /\ z.mode = s.mode /\ z.caps = s.caps /\ z.at = s.at
         /\ z.seen = s.seen /\ z.told = s.told /\ z.heard = s.heard /\ z.declared = s.declared
         /\ \A u \in Upstreams : z.out[u] = IF s.out[u] = "silent" THEN "silent" ELSE "no"
<1> DEFINE o == [u \in Upstreams |-> IF s.out[u] = "silent" THEN "silent" ELSE "no"]
<1>1. o \in [Upstreams -> Outages]
      /\ \A u \in Upstreams : o[u] = IF s.out[u] = "silent" THEN "silent" ELSE "no"
  BY DEF Outages
<1>2. z = [s EXCEPT !.out = o]
  BY DEF Well
<1> HIDE DEF o
<1>3. z \in [mode : {"fallback", "loadbalancer"}, caps : [Upstreams -> Caps],
             at : [Upstreams -> Nat], seen : [Upstreams -> Nat], told : [Upstreams -> Nat],
             heard : SUBSET Agents, declared : [Upstreams -> SUBSET Declarable],
             out : [Upstreams -> Outages]]
  BY <1>1, <1>2 DEF IsSituation
<1>4. /\ z.mode = s.mode /\ z.caps = s.caps /\ z.at = s.at /\ z.seen = s.seen /\ z.told = s.told
      /\ z.heard = s.heard /\ z.declared = s.declared /\ z.out = o
  BY <1>2 DEF IsSituation
<1>5. IsSituation(z)
  <2>1. \A u \in Upstreams : z.out[u] = "silent" => s.out[u] = "silent"
    BY <1>1, <1>4
  <2>2. \A u \in Upstreams : z.out[u] \notin {"expired", "draining", "offline"}
    BY <1>1, <1>4
  <2> QED BY <1>3, <1>4, <2>1, <2>2 DEF IsSituation
<1> QED BY <1>1, <1>4, <1>5

\* Who is eligible in good health could serve, in whatever health it is.
LEMMA WellCouldServe ==
  ASSUME NEW s, IsSituation(s), NEW recs0 \in Records0,
         NEW y \in Snapshot(Well(s), recs0), NEW c, NEW best, Eligible(y, c, best)
  PROVE  CouldServe(Snapshot(s, recs0), c)
<1> DEFINE z == Well(s)
           u == y.id
           x == Candidate(s, recs0, u)
           h == [x EXCEPT !.health = "synced", !.draining = FALSE, !.breaker = FALSE,
                          !.throttled = FALSE, !.busy = FALSE]
<1>1. /\ IsSituation(z) /\ z.caps = s.caps /\ z.seen = s.seen /\ z.told = s.told
      /\ z.heard = s.heard /\ z.declared = s.declared
      /\ \A v \in Upstreams : z.out[v] = IF s.out[v] = "silent" THEN "silent" ELSE "no"
  BY WellOK
<1> HIDE DEF z
<1>2. Reachable(y)
  BY DEF Eligible
<1>3. /\ u \in Known(recs0) /\ u \in Upstreams /\ y.kind = KindOf(u)
      /\ y.last = z.seen[u] /\ y.caps = ToldCaps(z, u) /\ z.out[u] \notin Unreachable
  BY <1>1, <1>2, ReachableOK DEF z
<1>4. z.seen[u] = s.seen[u] /\ ToldCaps(z, u) = ToldCaps(s, u)
  BY <1>1 DEF ToldCaps, CapsAt
<1>5. ~Silent(s, u)
  BY <1>1, <1>3 DEF Silent, Unreachable
<1>6. x \in Snapshot(s, recs0)
  BY <1>3 DEF Snapshot
<1>7. /\ x.kind = y.kind /\ x.last = y.last /\ x.caps = y.caps /\ x.excluded = FALSE
  BY <1>3, <1>4, <1>5 DEF Candidate
<1>8. /\ h.kind = x.kind /\ h.last = x.last /\ h.caps = x.caps /\ h.excluded = x.excluded
      /\ h.health = "synced" /\ h.draining = FALSE /\ h.breaker = FALSE /\ h.throttled = FALSE
      /\ h.busy = FALSE
  BY DEF Candidate
<1>9. Eligible(h, c, x.last)
  <2> HIDE DEF h, x
  <2>1. Reachable(h) /\ InSync(h, x.last)
    BY <1>8 DEF Reachable, InSync
  <2>2. Covers(y, c) => Covers(h, c)
    BY <1>7, <1>8 DEF Covers, StateWindowCovers, StateOldest
  <2> QED BY <1>7, <1>8, <2>1, <2>2 DEF Eligible
<1> HIDE DEF x
<1> QED BY <1>6, <1>9 DEF CouldServe

\* For every fleet, situation and request: what would be served as asked, were all
\* the nodes well of which anything is known, is not sent relaxed because one of them
\* is not; a silent peer is not among them (CouldServe, handleDefault).
THEOREM OutageNeverRelaxesHolds == Spec => []OutageNeverRelaxes
<1>1. OutageNeverRelaxes
  <2> SUFFICES ASSUME May("relaxed") PROVE FALSE
    BY DEF OutageNeverRelaxes
  <2>1. PICK recs0 \in Records0, s \in Situations, q \in Requests :
           "relaxed" \in Judged(s, recs0, q, Routed(s, recs0, q), Routed(Well(s), recs0, q))
    BY MayOK
  <2> DEFINE z == Well(s)
             d == Routed(s, recs0, q)
             w == Routed(z, recs0, q)
             c == Asked(q)
  <2>2. IsSituation(s) /\ IsSituation(z)
    BY FleetAssumption, WellOK
  <2>3. \A sel, i : Verdict(s, recs0, q, d.class, sel, i) # "relaxed"
    BY DEF Verdict, NodeAnswers
  <2>4. d.asked = c
    BY <2>2, RoutedOK
  <2>5. d.class # c => ~CouldServe(Snapshot(s, recs0), c)
    BY <2>2, RoutedOK
  <2>6. w.asked = c
    BY <2>2, RoutedOK
  <2>7. w.sels = Select(z.mode, Snapshot(z, recs0), w.class, Best(z, recs0))
    BY <2>2, RoutedOK
  <2> HIDE DEF d, w, c, z
  <2>8. RelaxedForOutage(d, w)
    <3>1. "relaxed" \in Judged(s, recs0, q, d, w)
      BY <2>1 DEF d, w, z
    <3> QED BY <2>3, <3>1, JudgedOK
  <2>9. d.class # c /\ w.sels # {} /\ w.class = c
    BY <2>4, <2>6, <2>8 DEF RelaxedForOutage, IsRelaxed
  <2> DEFINE us == Snapshot(z, recs0)
             best == Best(z, recs0)
             mode == z.mode
  <2>10. Sortable(us) /\ best \in Int
    BY <2>2, SnapshotSortable, BestType
  <2>11. PICK y \in us : Eligible(y, c, best)
    <3> HIDE DEF us, best, mode
    <3>1. Select(mode, us, c, best) = {} <=> ~ \E v \in us : Eligible(v, c, best)
      BY <2>10, SelectOK
    <3> QED BY <2>7, <2>9, <3>1 DEF us, best, mode
  <2>12. CouldServe(Snapshot(s, recs0), c)
    BY <2>2, <2>11, WellCouldServe DEF z
  <2> QED BY <2>5, <2>9, <2>12
<1> QED BY <1>1, PTL

-----------------------------------------------------------------------------
(* The limits told are served.                                             *)

LEMMA LimitsType ==
  ASSUME NEW k, k.simulate \in Limits
  PROVE  SimulateLimits(k) \in Limits
<1> DEFINE l == k.simulate
           budget == IF l.budget = 0 THEN StockMaxExtraOpcodeBudget ELSE l.budget
           g == Smaller(Larger(l.groups, 1), MaxSimulateGroups)
           r == Smaller(l.rounds, MaxSimulateRounds)
           e == Smaller(budget, MaxExtraOpcodeBudget)
           m == Smaller(Larger(l.multiplier, 1), MaxResourceLimitMultiplier)
<1>1. l.groups \in Nat /\ l.rounds \in Nat /\ l.budget \in Nat /\ l.multiplier \in Nat
  BY DEF Limits
<1>2. g \in Nat /\ r \in Nat /\ e \in Nat /\ m \in Nat
  BY <1>1, CeilingsAssumption DEF Smaller, Larger
<1>3. \/ SimulateLimits(k) = [groups |-> 1, rounds |-> 0, budget |-> StockMaxExtraOpcodeBudget, multiplier |-> 1]
      \/ SimulateLimits(k) = [groups |-> g, rounds |-> r, budget |-> e, multiplier |-> m]
  BY DEF SimulateLimits
<1> HIDE DEF g, r, e, m
<1> QED BY <1>2, <1>3, CeilingsAssumption DEF Limits

\* The class by which a node is asked whether it simulates.
Simulation == [Plain EXCEPT !.simulate = TRUE]

\* The node whose limits are told.
LEMMA ToldOK ==
  ASSUME NEW us, NEW best, NEW l \in FleetSimulateLimits(us, best)
  PROVE  \E u \in us :
           /\ Eligible(u, Simulation, best) /\ u.caps.simulate # NoLimits
           /\ l.groups = SimulateLimits(u.caps).groups /\ l.rounds = SimulateLimits(u.caps).rounds
           /\ l.budget = SimulateLimits(u.caps).budget
           /\ l.timeTravel = u.caps.timeTravel /\ l.dev = u.caps.dev
<1> DEFINE elig == {u \in us : Eligible(u, Simulation, best)}
           told == {u \in elig : u.caps.simulate # NoLimits}
           top == {u \in told : \A v \in told \ {u} : LimitsAbove(u, v)}
           least == Min({SimulateLimits(v.caps).multiplier : v \in elig})
           Reply(u) == [groups |-> SimulateLimits(u.caps).groups, rounds |-> SimulateLimits(u.caps).rounds,
                        budget |-> SimulateLimits(u.caps).budget, multiplier |-> least,
                        timeTravel |-> u.caps.timeTravel, dev |-> u.caps.dev]
<1>1. FleetSimulateLimits(us, best) = {Reply(u) : u \in top}
  BY Zenon DEF FleetSimulateLimits, Simulation
<1>2. \A u \in top : u \in us /\ Eligible(u, Simulation, best)
                     /\ u.caps.simulate # NoLimits
  OBVIOUS
<1> HIDE DEF top, least
<1>3. PICK u \in top : l = Reply(u)
  BY <1>1
<1> QED BY <1>2, <1>3

\* A request at the limits told, or below them by some rounds.
LEMMA InvitedOK ==
  ASSUME NEW l, l.groups \in Nat, l.rounds \in Nat, l.budget \in Nat, l.dev \in BOOLEAN,
         NEW q \in Invited(l)
  PROVE  /\ q.path = "simulate" /\ q.round = NoRound /\ q.body \in Bodies
         /\ q.body.groups = l.groups /\ Len(q.body.rounds) <= l.rounds
         /\ q.body.budget = l.budget /\ q.body.dev = l.dev
         /\ Named(q.body) = {}
         /\ q.body.round = 0 \/ (q.body.round = 1 /\ l.timeTravel)
<1>1. PICK n \in 0 .. l.rounds, r \in {0} \cup (IF l.timeTravel THEN {1} ELSE {}) :
        q = [path |-> "simulate", method |-> "POST", round |-> NoRound,
             body |-> [groups |-> l.groups, rounds |-> [i \in 1 .. n |-> 0], round |-> r,
                       budget |-> l.budget, fork |-> TRUE, dev |-> l.dev]]
  BY DEF Invited
<1> DEFINE z == [i \in 1 .. n |-> 0]
           b == q.body
<1>2. z \in Seq(Nat) /\ Len(z) = n /\ DOMAIN z = 1 .. n /\ \A i \in 1 .. n : z[i] = 0
  OBVIOUS
<1> HIDE DEF z
<1>3. /\ q.path = "simulate" /\ q.round = NoRound
      /\ b = [groups |-> l.groups, rounds |-> z, round |-> r,
              budget |-> l.budget, fork |-> TRUE, dev |-> l.dev]
  BY <1>1 DEF z
<1> HIDE DEF b
<1>4. r \in {0, 1} /\ (r = 1 => l.timeTravel)
  OBVIOUS
<1>5. b \in Bodies
  BY <1>2, <1>3, <1>4 DEF Bodies
<1>6. /\ b.groups = l.groups /\ b.rounds = z /\ b.budget = l.budget /\ b.dev = l.dev /\ b.round = r
  BY <1>3
<1>7. Named(b) = {}
  BY <1>2, <1>6 DEF Named, Range
<1>8. Len(b.rounds) <= l.rounds
  BY <1>2, <1>6
<1>9. b.round = 0 \/ (b.round = 1 /\ l.timeTravel)
  BY <1>4, <1>6
<1> QED BY <1>3, <1>5, <1>6, <1>7, <1>8, <1>9 DEF b

LEMMA InvitedServed ==
  ASSUME NEW s, IsSituation(s), Started(s), NEW recs0 \in Records0,
         NEW l \in FleetSimulateLimits(Snapshot(s, recs0), Best(s, recs0)),
         NEW q \in Invited(l), NEW d, d = Routed(s, recs0, q)
  PROVE  ~IsRelaxed(d) /\ d.sels # {}
<1> DEFINE us == Snapshot(s, recs0)
           best == Best(s, recs0)
           mode == s.mode
           c == Asked(q)
           p == Simulation
           b == q.body
           m == q.method
           n == NeedsOf(b)
           a == Asking(m, b)
<1>1. PICK u \in us :
           /\ Eligible(u, p, best) /\ u.caps.simulate # NoLimits
           /\ l.groups = SimulateLimits(u.caps).groups /\ l.rounds = SimulateLimits(u.caps).rounds
           /\ l.budget = SimulateLimits(u.caps).budget
           /\ l.timeTravel = u.caps.timeTravel /\ l.dev = u.caps.dev
  BY ToldOK
<1>2. /\ p.simulate = TRUE /\ p.round = NoRound /\ p.localOnly = FALSE
  <2> DEFINE pl == Plain
  <2>1. pl \in ClassRec /\ pl.round = NoRound /\ pl.localOnly = FALSE
    BY PlainOK DEF Roundly
  <2> HIDE DEF pl
  <2>2. /\ [pl EXCEPT !.simulate = TRUE].simulate = TRUE /\ [pl EXCEPT !.simulate = TRUE].round = NoRound
        /\ [pl EXCEPT !.simulate = TRUE].localOnly = FALSE
    BY <2>1 DEF ClassRec
  <2> QED BY <2>2 DEF pl, Simulation
<1> HIDE DEF p
<1>3. /\ ~u.excluded /\ Reachable(u) /\ ~u.draining /\ ~u.breaker /\ ~u.throttled /\ ~u.busy
      /\ InSync(u, best)
  BY <1>1, <1>2 DEF Eligible, Heavy
<1>4. /\ u.id \in Known(recs0) /\ u.id \in Upstreams
      /\ u.last = s.seen[u.id] /\ u.caps = ToldCaps(s, u.id)
      /\ s.out[u.id] \notin Unreachable
  BY <1>3, ReachableOK
<1>5. u.last \in Nat /\ u.last >= 1
  <2>1. s.seen[u.id] \in Nat
    BY <1>4, CandidateOK
  <2>2. s.seen[u.id] > 0
    BY <1>4 DEF Started
  <2> QED BY <1>4, <2>1, <2>2
<1>6. u.caps.simulate \in Limits /\ u.caps.dev \in BOOLEAN /\ u.caps.timeTravel \in BOOLEAN
  BY <1>4, ToldCapsOK
<1>7. l.groups \in Nat /\ l.rounds \in Nat /\ l.budget \in Nat /\ l.dev \in BOOLEAN
  <2>1. SimulateLimits(u.caps) \in Limits
    BY <1>6, LimitsType
  <2> QED BY <1>1, <1>6, <2>1 DEF Limits
<1>8. /\ q.path = "simulate" /\ q.round = NoRound /\ b \in Bodies
      /\ b.groups = l.groups /\ Len(b.rounds) <= l.rounds
      /\ b.budget = l.budget /\ b.dev = l.dev
      /\ Named(b) = {}
      /\ b.round = 0 \/ (b.round = 1 /\ l.timeTravel)
  BY <1>7, InvitedOK
<1>9. /\ n \in NeedsRec /\ n.groups = b.groups /\ n.rounds = Len(b.rounds)
      /\ n.budget = Larger(b.budget, 0) /\ n.dev = b.dev
      /\ ~n.span
  BY <1>8, NeedsOK
<1>10. Fits(n, u.caps)
  <2>1. n.budget = l.budget
    BY <1>7, <1>8, <1>9 DEF Larger
  <2> DEFINE k == SimulateLimits(u.caps)
  <2>2. n.groups = k.groups /\ n.rounds <= k.rounds /\ n.budget = k.budget
    BY <1>1, <1>8, <1>9, <2>1
  <2>3. k.groups \in Nat /\ k.budget \in Nat
    BY <1>1, <1>7
  <2>4. n.dev => u.caps.dev
    BY <1>1, <1>8, <1>9
  <2> HIDE DEF k, n
  <2>5. n.groups <= k.groups /\ n.rounds <= k.rounds /\ n.budget <= k.budget
    BY <2>2, <2>3
  <2> QED BY <1>1, <2>4, <2>5 DEF Fits, k
<1>11. /\ a.needs = n /\ a \in ClassRec /\ a.simulate = TRUE
       /\ a.round = NoRound /\ a.timeTravel = FALSE
       /\ a.wait = NoRound /\ a.dev = FALSE
       /\ a.broadcast = FALSE /\ a.localOnly = FALSE /\ a.high = 0
  BY <1>8, AskingOK, ZenonT(60)
<1>12. c = IF b.round = 0 THEN a ELSE AtRound(a, b.round)
  <2>1. c = ApplySimulate(SimBase(m), b)
    BY <1>8, SimulateArm DEF Asked, SimBase
  <2>2. b.round # 0 => ApplySimulate(SimBase(m), b) = AtRound(a, b.round)
    BY <1>8, AskingOK
  <2>3. b.round = 0 => ApplySimulate(SimBase(m), b) = a
    BY <1>8, AskingOK
  <2> QED BY <2>1, <2>2, <2>3
<1> HIDE DEF a, n, b, c, us, best, mode
<1>13. Eligible(u, c, best)
  <2>1. CASE b.round = 0
    <3>1. c = a
      BY <1>12, <2>1
    <3> QED BY <1>3, <1>10, <1>11, <3>1 DEF Eligible
  <2>2. CASE b.round # 0
    <3>1. c = AtRound(a, 1) /\ u.caps.timeTravel
      BY <1>1, <1>8, <1>12, <2>2
    <3>2. c = [a EXCEPT !.round = 1, !.window = "state", !.anyRound = TRUE]
      BY <3>1 DEF AtRound
    <3>3. /\ c.needs = n /\ c.round = 1 /\ c.anyRound = TRUE
          /\ c.timeTravel = FALSE /\ c.wait = NoRound /\ c.dev = FALSE
          /\ c.broadcast = FALSE /\ c.localOnly = FALSE /\ c.high = 0
      BY <1>11, <3>2 DEF ClassRec
    <3>4. Covers(u, c)
      BY <1>5, <3>1, <3>3 DEF Covers
    <3> QED BY <1>3, <1>10, <3>3, <3>4 DEF Eligible
  <2> QED BY <2>1, <2>2
<1>14. Sortable(us) /\ best \in Int
  BY SnapshotSortable, BestType DEF us, best
<1>15. Select(mode, us, c, best) # {}
  BY <1>13, <1>14, SelectOK
<1>16. d.asked = c
  BY RoutedOK DEF c
<1>17. d.sels = Select(mode, us, d.class, best)
  BY RoutedOK DEF mode, us, best
<1>18. Select(mode, us, c, best) # {} => d.class = c
  BY RoutedOK DEF mode, us, best, c
<1> QED BY <1>15, <1>16, <1>17, <1>18 DEF IsRelaxed

\* For every fleet and situation: a simulation at all the limits that the fleet's
\* limits endpoint tells is served, as it was asked (FleetSimulateLimits, Fits).
THEOREM LimitsAreServedHolds == Spec => []LimitsAreServed
<1>1. LimitsAreServed
  <2>1. ASSUME NEW k \in Records0, NEW s \in Situations PROVE Served(s, k)
    <3>1. IsSituation(s) /\ Started(s)
      BY FleetAssumption
    <3> QED BY <2>1, <3>1, InvitedServed DEF Served
  <2>2. ASSUME NEW k \in Records0, NEW s \in Situations
        PROVE  <<known, "broken">> # <<k, IF Served(s, k) THEN "kept" ELSE "broken">>
    BY <2>1, <2>2
  <2> QED BY <2>2 DEF LimitsAreServed, Promises, Records0
<1> QED BY <1>1, PTL

-----------------------------------------------------------------------------
(* The registry: types, and what an agent that is registered may rely on.  *)

LEMMA SpentOK ==
  ASSUME RegistryTypeOK,
         \/ Change
         \/ Fault
         \/ Spend("restarts", MaxRestarts)
         \/ UNCHANGED spent
  PROVE  spent' \in [changes : 0 .. MaxChanges, faults : 0 .. MaxFaults, restarts : 0 .. MaxRestarts]
<1>1. spent \in [changes : 0 .. MaxChanges, faults : 0 .. MaxFaults, restarts : 0 .. MaxRestarts]
  BY DEF RegistryTypeOK
<1> QED BY <1>1, RegistryAssumption DEF Change, Fault, Spend

\* The types of the registry's state and of the agent's part in it.
THEOREM FleetTypeCorrect == Spec => []TypeOK
<1>1. RegistryInit => RegistryTypeOK
  <2> SUFFICES ASSUME RegistryInit PROVE RegistryTypeOK
    OBVIOUS
  <2>1. NoRecords \in [Agents -> Facts \cup {None}] /\ Nobody \in [Others -> Facts \cup {None}]
    BY DEF NoRecords, Nobody
  <2>2. spent \in [changes : 0 .. MaxChanges, faults : 0 .. MaxFaults, restarts : 0 .. MaxRestarts]
    BY RegistryAssumption DEF RegistryInit
  <2> QED BY <2>1, <2>2 DEF RegistryInit, RegistryTypeOK
<1>2. RegistryTypeOK /\ [RegistryNext]_fleetVars => RegistryTypeOK'
  <2> SUFFICES ASSUME RegistryTypeOK, [RegistryNext]_fleetVars PROVE RegistryTypeOK'
    OBVIOUS
  <2>1. RegistryTypeOK /\ Self \in Agents /\ Others \subseteq Agents
    BY DEF Agents
  <2>2. ASSUME NEW a \in Others, OtherWrites(a) PROVE RegistryTypeOK'
    BY <2>1, <2>2, SpentOK DEF OtherWrites, RegistryTypeOK, registryVars, chain, reading, running, NoRecords, Nobody, ListRead, UpToDate, Registers, Replaced
  <2>3. ASSUME NEW a \in Others, RefreshNow(a) PROVE RegistryTypeOK'
    BY <2>1, <2>3, SpentOK DEF RefreshNow, RegistryTypeOK, registryVars, chain, reading, running, NoRecords, Nobody, ListRead, UpToDate, Registers, Replaced
  <2>4. ASSUME NEW f \in Facts, TxLands(f) PROVE RegistryTypeOK'
    BY <2>1, <2>4, SpentOK DEF TxLands, RegistryTypeOK, registryVars, chain, reading, running, NoRecords, Nobody, ListRead, UpToDate, Registers, Replaced
  <2>5. ASSUME NEW f \in Facts, TxDies(f) PROVE RegistryTypeOK'
    BY <2>1, <2>5, SpentOK DEF TxDies, RegistryTypeOK, registryVars, chain, reading, running, NoRecords, Nobody, ListRead, UpToDate, Registers, Replaced
  <2>6. ASSUME NEW a \in Agents, ReadBox(a) PROVE RegistryTypeOK'
    BY <2>1, <2>6, SpentOK DEF ReadBox, RegistryTypeOK, registryVars, chain, reading, running, NoRecords, Nobody, ListRead, UpToDate, Registers, Replaced
  <2>7. CASE ListNames
    BY <2>1, <2>7, SpentOK DEF ListNames, RegistryTypeOK, registryVars, chain, reading, running, NoRecords, Nobody, ListRead, UpToDate, Registers, Replaced
  <2>8. CASE ReadFails
    BY <2>1, <2>8, SpentOK DEF ReadFails, RegistryTypeOK, registryVars, chain, reading, running, NoRecords, Nobody, ListRead, UpToDate, Registers, Replaced
  <2>9. CASE NotRegistered
    BY <2>1, <2>9, SpentOK DEF NotRegistered, RegistryTypeOK, registryVars, chain, reading, running, NoRecords, Nobody, ListRead, UpToDate, Registers, Replaced
  <2>10. CASE AlreadyThere
    BY <2>1, <2>10, SpentOK DEF AlreadyThere, RegistryTypeOK, registryVars, chain, reading, running, NoRecords, Nobody, ListRead, UpToDate, Registers, Replaced
  <2>11. CASE Put
    BY <2>1, <2>11, SpentOK DEF Put, RegistryTypeOK, registryVars, chain, reading, running, NoRecords, Nobody, ListRead, UpToDate, Registers, Replaced
  <2>12. CASE Confirmed
    BY <2>1, <2>12, SpentOK DEF Confirmed, RegistryTypeOK, registryVars, chain, reading, running, NoRecords, Nobody, ListRead, UpToDate, Registers, Replaced
  <2>13. CASE ConfirmFails
    BY <2>1, <2>13, SpentOK DEF ConfirmFails, RegistryTypeOK, registryVars, chain, reading, running, NoRecords, Nobody, ListRead, UpToDate, Registers, Replaced
  <2>14. CASE SetRecords
    BY <2>1, <2>14, SpentOK DEF SetRecords, RegistryTypeOK, registryVars, chain, reading, running, NoRecords, Nobody, ListRead, UpToDate, Registers, Replaced
  <2>15. CASE Save
    BY <2>1, <2>15, SpentOK DEF Save, RegistryTypeOK, registryVars, chain, reading, running, NoRecords, Nobody, ListRead, UpToDate, Registers, Replaced
  <2>16. CASE Wakes
    BY <2>1, <2>16, SpentOK DEF Wakes, RegistryTypeOK, registryVars, chain, reading, running, NoRecords, Nobody, ListRead, UpToDate, Registers, Replaced
  <2>17. CASE Kicked
    BY <2>1, <2>17, SpentOK DEF Kicked, RegistryTypeOK, registryVars, chain, reading, running, NoRecords, Nobody, ListRead, UpToDate, Registers, Replaced
  <2>18. CASE RemoveRecord
    BY <2>1, <2>18, SpentOK DEF RemoveRecord, RegistryTypeOK, registryVars, chain, reading, running, NoRecords, Nobody, ListRead, UpToDate, Registers, Replaced
  <2>19. CASE TokenChanges
    BY <2>1, <2>19, SpentOK DEF TokenChanges, RegistryTypeOK, registryVars, chain, reading, running, NoRecords, Nobody, ListRead, UpToDate, Registers, Replaced
  <2>20. CASE Rests
    BY <2>1, <2>20, SpentOK DEF Rests, RegistryTypeOK, registryVars, chain, reading, running, NoRecords, Nobody, ListRead, UpToDate, Registers, Replaced
  <2>21. CASE Crash
    BY <2>1, <2>21, SpentOK DEF Crash, RegistryTypeOK, registryVars, chain, reading, running, NoRecords, Nobody, ListRead, UpToDate, Registers, Replaced
  <2>22. CASE Start
    BY <2>1, <2>22, SpentOK DEF Start, RegistryTypeOK, registryVars, chain, reading, running, NoRecords, Nobody, ListRead, UpToDate, Registers, Replaced
  <2>23. CASE UNCHANGED fleetVars
    BY <2>1, <2>23 DEF fleetVars, RegistryTypeOK, registryVars, chain, reading, running, NoRecords, Nobody, ListRead, UpToDate, Registers, Replaced
  <2> QED BY <2>2, <2>3, <2>4, <2>5, <2>6, <2>7, <2>8, <2>9, <2>10, <2>11, <2>12, <2>13, <2>14, <2>15, <2>16, <2>17, <2>18, <2>19, <2>20, <2>21, <2>22, <2>23 DEF RegistryNext, Refresh
<1> QED BY <1>1, <1>2, PTL DEF Spec, TypeOK

\* The record in the registry is the one named, unless somebody overwrote it since.
Stands(f) == box[Self] = f \/ undone # "no"

\* What an agent may rely on of its own record: what it read of it while it was not
\* registered, what it waited for, and what it registered.
PublishedInv ==
  /\ (pc = "boxes" /\ ~registered /\ recs[Self] # None) => Stands(recs[Self])
  /\ pc = "landed" => Stands(said)
  /\ registered => Stands(said) /\ pc # "down"

\* An agent that holds itself for registered, and so never looks again in this run,
\* is in the registry as it said, unless since its last look an operator removed the
\* record or an older write of its own landed (register, confirm and the reads
\* between them): nothing that failed or happened before that look can be the cause.
RegisteredStands == registered => (box[Self] = said \/ undone # "no")

THEOREM RegisteredStandsHolds == Spec => []RegisteredStands
<1>1. RegistryInit => PublishedInv
  BY DEF RegistryInit, PublishedInv
<1>2. TypeOK /\ PublishedInv /\ [RegistryNext]_fleetVars => PublishedInv'
  <2> SUFFICES ASSUME RegistryTypeOK, PublishedInv, [RegistryNext]_fleetVars PROVE PublishedInv'
    BY DEF TypeOK
  <2>1. /\ PublishedInv /\ Self \in Agents /\ Others \subseteq Agents /\ Self \notin Others
        /\ box \in [Agents -> Facts \cup {None}] /\ recs \in [Agents -> Facts \cup {None}]
        /\ want \in Facts /\ None \notin Facts /\ registered \in BOOLEAN
    BY RegistryAssumption DEF Agents, RegistryTypeOK
  <2>2. ASSUME NEW a \in Others, OtherWrites(a) PROVE PublishedInv'
    BY <2>1, <2>2 DEF OtherWrites, PublishedInv, Stands, registryVars, chain, reading, running, NoRecords, ListRead, UpToDate, Registers
  <2>3. ASSUME NEW a \in Others, RefreshNow(a) PROVE PublishedInv'
    BY <2>1, <2>3 DEF RefreshNow, PublishedInv, Stands, registryVars, chain, reading, running, NoRecords, ListRead, UpToDate, Registers
  <2>4. ASSUME NEW f \in Facts, TxLands(f) PROVE PublishedInv'
    BY <2>1, <2>4 DEF TxLands, PublishedInv, Stands, registryVars, chain, reading, running, NoRecords, ListRead, UpToDate, Registers
  <2>5. ASSUME NEW f \in Facts, TxDies(f) PROVE PublishedInv'
    BY <2>1, <2>5 DEF TxDies, PublishedInv, Stands, registryVars, chain, reading, running, NoRecords, ListRead, UpToDate, Registers
  <2>6. ASSUME NEW a \in Agents, ReadBox(a) PROVE PublishedInv'
    BY <2>1, <2>6 DEF ReadBox, PublishedInv, Stands, registryVars, chain, reading, running, NoRecords, ListRead, UpToDate, Registers
  <2>7. CASE ListNames
    BY <2>1, <2>7 DEF ListNames, PublishedInv, Stands, registryVars, chain, reading, running, NoRecords, ListRead, UpToDate, Registers
  <2>8. CASE ReadFails
    BY <2>1, <2>8 DEF ReadFails, PublishedInv, Stands, registryVars, chain, reading, running, NoRecords, ListRead, UpToDate, Registers
  <2>9. CASE NotRegistered
    BY <2>1, <2>9 DEF NotRegistered, PublishedInv, Stands, registryVars, chain, reading, running, NoRecords, ListRead, UpToDate, Registers
  <2>10. CASE AlreadyThere
    BY <2>1, <2>10 DEF AlreadyThere, PublishedInv, Stands, registryVars, chain, reading, running, NoRecords, ListRead, UpToDate, Registers
  <2>11. CASE Put
    BY <2>1, <2>11 DEF Put, PublishedInv, Stands, registryVars, chain, reading, running, NoRecords, ListRead, UpToDate, Registers
  <2>12. CASE Confirmed
    BY <2>1, <2>12 DEF Confirmed, PublishedInv, Stands, registryVars, chain, reading, running, NoRecords, ListRead, UpToDate, Registers
  <2>13. CASE ConfirmFails
    BY <2>1, <2>13 DEF ConfirmFails, PublishedInv, Stands, registryVars, chain, reading, running, NoRecords, ListRead, UpToDate, Registers
  <2>14. CASE SetRecords
    BY <2>1, <2>14 DEF SetRecords, PublishedInv, Stands, registryVars, chain, reading, running, NoRecords, ListRead, UpToDate, Registers
  <2>15. CASE Save
    BY <2>1, <2>15 DEF Save, PublishedInv, Stands, registryVars, chain, reading, running, NoRecords, ListRead, UpToDate, Registers
  <2>16. CASE Wakes
    BY <2>1, <2>16 DEF Wakes, PublishedInv, Stands, registryVars, chain, reading, running, NoRecords, ListRead, UpToDate, Registers
  <2>17. CASE Kicked
    BY <2>1, <2>17 DEF Kicked, PublishedInv, Stands, registryVars, chain, reading, running, NoRecords, ListRead, UpToDate, Registers
  <2>18. CASE RemoveRecord
    BY <2>1, <2>18 DEF RemoveRecord, PublishedInv, Stands, registryVars, chain, reading, running, NoRecords, ListRead, UpToDate, Registers
  <2>19. CASE TokenChanges
    BY <2>1, <2>19 DEF TokenChanges, PublishedInv, Stands, registryVars, chain, reading, running, NoRecords, ListRead, UpToDate, Registers
  <2>20. CASE Rests
    BY <2>1, <2>20 DEF Rests, PublishedInv, Stands, registryVars, chain, reading, running, NoRecords, ListRead, UpToDate, Registers
  <2>21. CASE Crash
    BY <2>1, <2>21 DEF Crash, PublishedInv, Stands, registryVars, chain, reading, running, NoRecords, ListRead, UpToDate, Registers
  <2>22. CASE Start
    BY <2>1, <2>22 DEF Start, PublishedInv, Stands, registryVars, chain, reading, running, NoRecords, ListRead, UpToDate, Registers
  <2>23. CASE UNCHANGED fleetVars
    BY <2>1, <2>23 DEF fleetVars, PublishedInv, Stands, registryVars, chain, reading, running, NoRecords, ListRead, UpToDate, Registers
  <2> QED BY <2>2, <2>3, <2>4, <2>5, <2>6, <2>7, <2>8, <2>9, <2>10, <2>11, <2>12, <2>13, <2>14, <2>15, <2>16, <2>17, <2>18, <2>19, <2>20, <2>21, <2>22, <2>23 DEF RegistryNext, Refresh
<1>3. PublishedInv => RegisteredStands
  BY DEF PublishedInv, RegisteredStands, Stands
<1> QED BY <1>1, <1>2, <1>3, FleetTypeCorrect, PTL DEF Spec
=============================================================================
