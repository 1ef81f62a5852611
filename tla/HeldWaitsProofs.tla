-------------------------- MODULE HeldWaitsProofs --------------------------
(***************************************************************************)
(* What the held requests may rely on, for any number of requests, nodes,  *)
(* externals and fetches, and any rounds: no stale status, one check of an *)
(* external and one joinable fetch at a time, and no wake-up lost.         *)
(***************************************************************************)
EXTENDS HeldWaits, TLAPS

WaitRec ==
  [pc : {"done", "held", "passed", "status", "fetching", "check", "checking"},
   after : Rounds, woken : BOOLEAN, seen : Rounds, timed : BOOLEAN,
   f : Fetches \cup {None}, stale : BOOLEAN]

FetchRec == [pc : {"off", "run", "ok", "failed"}, want : Rounds, round : Rounds]

ExtRec == [inflight : BOOLEAN, running : Nat, ok : BOOLEAN, age : 0 .. AgeCap]

\* A fetch that a waiter for round r may hold: it is under way for r or a later
\* round, or it has ended with a status at r or later, or with none.
Serves(g, r) ==
  /\ g.pc # "off"
  /\ g.pc = "run" => g.want >= r
  /\ g.pc = "ok" => g.round >= r

\* What holds of one held request: a fetch is held only while its result is
\* awaited, and it serves the round the request has seen, which is past the one
\* the client named unless the wait timed out.
Waiting(q, fs) ==
  /\ ~q.stale
  /\ q.pc # "fetching" => q.f = None
  /\ q.pc = "fetching" => q.f \in Fetches /\ Serves(fs[q.f], q.seen)
  /\ q.pc \in {"status", "fetching"} /\ ~q.timed => q.seen > q.after

WaitersInv == \A w \in Waiters : Waiting(wait[w], fetch)

\* The fetch that can be joined runs, and it is the newest one while that runs.
CurrentRuns == current # None => fetch[current].pc = "run"
FetchesInv == CurrentRuns /\ NewestIsShared

\* A check is under way exactly when the external says so.
ChecksInv == \A e \in Externals : ext[e].running = IF ext[e].inflight THEN 1 ELSE 0

\* The inductive invariant.
WaitsInv == TypeOK /\ WaitersInv /\ FetchesInv /\ ChecksInv /\ NobodySleepsInVain

-----------------------------------------------------------------------------
(* Types.                                                                  *)

LEMMA NoWaitFields ==
  /\ NoWait \in WaitRec
  /\ NoWait.pc = "done" /\ NoWait.after = 0 /\ ~NoWait.woken /\ NoWait.seen = 0
  /\ ~NoWait.timed /\ NoWait.f = None /\ ~NoWait.stale
<1>1. 0 \in Rounds
  BY WaitAssumption DEF Rounds
<1> QED BY <1>1 DEF NoWait, WaitRec

LEMMA AgeCapIsNat == AgeCap \in Nat
BY WaitAssumption DEF AgeCap

\* Waiters woken are waiters, with nothing changed but that they are awake.
LEMMA WokenFields ==
  ASSUME wait \in [Waiters -> WaitRec], NEW a
  PROVE  /\ Woken(a) \in [Waiters -> WaitRec]
         /\ \A w \in Waiters :
              /\ Woken(a)[w].pc = wait[w].pc /\ Woken(a)[w].after = wait[w].after
              /\ Woken(a)[w].seen = wait[w].seen /\ Woken(a)[w].timed = wait[w].timed
              /\ Woken(a)[w].f = wait[w].f /\ Woken(a)[w].stale = wait[w].stale
              /\ Woken(a)[w].woken = (wait[w].woken \/ wait[w].pc = a)
<1>1. Woken(a) = [v \in Waiters |->
        IF wait[v].pc = a THEN [wait[v] EXCEPT !.woken = TRUE] ELSE wait[v]]
  BY DEF Woken
<1>2. \A v \in Waiters : wait[v] \in WaitRec
  OBVIOUS
<1>3. ASSUME NEW q \in WaitRec
      PROVE  /\ [q EXCEPT !.woken = TRUE] \in WaitRec
             /\ [q EXCEPT !.woken = TRUE].pc = q.pc
             /\ [q EXCEPT !.woken = TRUE].after = q.after
             /\ [q EXCEPT !.woken = TRUE].seen = q.seen
             /\ [q EXCEPT !.woken = TRUE].timed = q.timed
             /\ [q EXCEPT !.woken = TRUE].f = q.f
             /\ [q EXCEPT !.woken = TRUE].stale = q.stale
             /\ [q EXCEPT !.woken = TRUE].woken = TRUE
  BY DEF WaitRec
<1>4. ASSUME NEW w \in Waiters
      PROVE  /\ Woken(a)[w] \in WaitRec
             /\ Woken(a)[w].pc = wait[w].pc /\ Woken(a)[w].after = wait[w].after
             /\ Woken(a)[w].seen = wait[w].seen /\ Woken(a)[w].timed = wait[w].timed
             /\ Woken(a)[w].f = wait[w].f /\ Woken(a)[w].stale = wait[w].stale
             /\ Woken(a)[w].woken = (wait[w].woken \/ wait[w].pc = a)
  <2>1. wait[w].woken \in BOOLEAN
    BY <1>2 DEF WaitRec
  <2>2. CASE wait[w].pc = a
    <3>1. Woken(a)[w] = [wait[w] EXCEPT !.woken = TRUE]
      BY <1>1, <2>2
    <3> QED BY <1>2, <1>3, <2>2, <3>1
  <2>3. CASE wait[w].pc # a
    <3>1. Woken(a)[w] = wait[w]
      BY <1>1, <2>3
    <3> QED BY <1>2, <2>1, <2>3, <3>1
  <2> QED BY <2>2, <2>3
<1>5. Woken(a) \in [Waiters -> WaitRec]
  BY <1>1, <1>4
<1> QED BY <1>4, <1>5

\* The end of a request, with or without a status.
LEMMA OverRec ==
  ASSUME NEW w \in Waiters, wait \in [Waiters -> WaitRec], NEW r \in Rounds
  PROVE  /\ Over(w) = [wait EXCEPT ![w] = NoWait]
         /\ \E q \in WaitRec :
              /\ Answered(w, r) = [wait EXCEPT ![w] = q]
              /\ q.pc = "done" /\ q.f = None
              /\ q.stale = (~wait[w].timed /\ r <= wait[w].after)
<1>1. Over(w) = [wait EXCEPT ![w] = NoWait]
  BY DEF Over
<1> DEFINE b == ~wait[w].timed /\ r <= wait[w].after
           n == NoWait
           q == [n EXCEPT !.stale = b]
<1>2. Answered(w, r) = [wait EXCEPT ![w] = q]
  BY DEF Answered
<1>3. n \in WaitRec /\ n.pc = "done" /\ n.f = None /\ b \in BOOLEAN
  BY NoWaitFields
<1> HIDE DEF b, n
<1>4. q \in WaitRec /\ q.pc = "done" /\ q.f = None /\ q.stale = b
  BY <1>3 DEF WaitRec
<1> QED BY <1>1, <1>2, <1>4 DEF b

\* A request that is forwarded is over or goes on to a check of the externals.
LEMMA ForwardedRec ==
  ASSUME NEW w \in Waiters, wait \in [Waiters -> WaitRec]
  PROVE  \E q \in WaitRec :
           /\ Forwarded(w) = [wait EXCEPT ![w] = q]
           /\ q.pc \in {"done", "check"} /\ q.f = None /\ ~q.stale
<1> DEFINE a == wait[w].after
           n == NoWait
           q == [n EXCEPT !.pc = "check", !.after = a]
<1>1. n \in WaitRec /\ n.pc = "done" /\ n.f = None /\ ~n.stale /\ a \in Rounds
  BY NoWaitFields DEF WaitRec
<1>2. Forwarded(w) = IF MeshServes THEN [wait EXCEPT ![w] = n] ELSE [wait EXCEPT ![w] = q]
  BY DEF Forwarded, Over
<1> HIDE DEF a, n
<1>3. q \in WaitRec /\ q.pc = "check" /\ q.f = None /\ ~q.stale
  BY <1>1 DEF WaitRec
<1> HIDE DEF q
<1> QED BY <1>1, <1>2, <1>3

\* TypeOK, with the sets of records named.
LEMMA Types ==
  TypeOK <=>
    /\ balancer \in BOOLEAN
    /\ node \in [Mesh -> [round : Rounds, usable : BOOLEAN]]
    /\ hbRound \in Rounds
    /\ wait \in [Waiters -> WaitRec]
    /\ fetch \in [Fetches -> FetchRec]
    /\ current \in Fetches \cup {None} /\ newest \in Fetches \cup {None}
    /\ status \in Rounds
    /\ ext \in [Externals -> ExtRec]
BY DEF TypeOK, WaitRec, FetchRec, ExtRec

\* What each way to change a request leaves.
LEMMA ArriveRec ==
  ASSUME NEW w \in Waiters, NEW a \in Rounds, Arrive(w, a), hbRound \in Rounds
  PROVE  \E q \in WaitRec :
           /\ wait' = [wait EXCEPT ![w] = q]
           /\ q.pc \in {"held", "check"} /\ (q.pc = "held" => q.woken)
           /\ q.f = None /\ ~q.stale
<1> DEFINE n == NoWait
           q == [n EXCEPT !.after = a, !.seen = hbRound]
           held == [q EXCEPT !.pc = "held", !.woken = TRUE]
           check == [q EXCEPT !.pc = "check", !.seen = 0]
<1>1. n \in WaitRec /\ n.f = None /\ ~n.stale /\ 0 \in Rounds
  BY NoWaitFields, WaitAssumption DEF Rounds
<1>2. wait' = [wait EXCEPT ![w] = IF balancer \/ MeshServes THEN held ELSE check]
  BY DEF Arrive
<1> HIDE DEF n
<1>3. q \in WaitRec /\ q.f = None /\ ~q.stale
  BY <1>1 DEF WaitRec
<1> HIDE DEF q
<1>4. held \in WaitRec /\ held.pc = "held" /\ held.woken /\ held.f = None /\ ~held.stale
  BY <1>3 DEF WaitRec
<1>5. check \in WaitRec /\ check.pc = "check" /\ check.f = None /\ ~check.stale
  BY <1>1, <1>3 DEF WaitRec
<1> HIDE DEF held, check
<1> QED BY <1>2, <1>4, <1>5

Looking(w) ==
  [wait[w] EXCEPT !.pc = IF hbRound <= wait[w].after THEN "held"
                         ELSE IF balancer THEN "status" ELSE "passed",
                  !.woken = FALSE, !.seen = hbRound]

LEMMA LookHeardRec ==
  ASSUME NEW w \in Waiters, LookHeard(w), wait \in [Waiters -> WaitRec], hbRound \in Rounds
  PROVE  /\ wait' = [wait EXCEPT ![w] = Looking(w)]
         /\ Looking(w) \in WaitRec
         /\ Looking(w).pc \in {"held", "status", "passed"}
         /\ Looking(w).pc = "held" <=> hbRound <= wait[w].after
         /\ ~Looking(w).woken /\ Looking(w).seen = hbRound
         /\ Looking(w).after = wait[w].after /\ Looking(w).timed = wait[w].timed
         /\ Looking(w).f = wait[w].f /\ Looking(w).stale = wait[w].stale
<1>1. wait' = [wait EXCEPT ![w] = Looking(w)]
  BY DEF LookHeard, Looking
<1> DEFINE p == IF hbRound <= wait[w].after THEN "held"
                ELSE IF balancer THEN "status" ELSE "passed"
           q == wait[w]
<1>2. q \in WaitRec /\ p \in {"held", "status", "passed"} /\ (p = "held" <=> hbRound <= wait[w].after)
  OBVIOUS
<1>3. Looking(w) = [q EXCEPT !.pc = p, !.woken = FALSE, !.seen = hbRound]
  BY DEF Looking
<1> HIDE DEF p, q
<1>4. /\ Looking(w) \in WaitRec
      /\ Looking(w).pc = p /\ ~Looking(w).woken /\ Looking(w).seen = hbRound
      /\ Looking(w).after = q.after /\ Looking(w).timed = q.timed
      /\ Looking(w).f = q.f /\ Looking(w).stale = q.stale
  BY <1>2, <1>3 DEF WaitRec
<1> QED BY <1>1, <1>2, <1>4 DEF q

TimingOut(w) == [wait[w] EXCEPT !.pc = "status", !.timed = TRUE]

LEMMA TimesOutRec ==
  ASSUME NEW w \in Waiters, TimesOut(w), wait \in [Waiters -> WaitRec]
  PROVE  /\ wait' = [wait EXCEPT ![w] = TimingOut(w)]
         /\ TimingOut(w) \in WaitRec
         /\ TimingOut(w).pc = "status" /\ TimingOut(w).timed
         /\ TimingOut(w).f = wait[w].f /\ TimingOut(w).stale = wait[w].stale
<1>1. wait' = [wait EXCEPT ![w] = TimingOut(w)]
  BY DEF TimesOut, TimingOut
<1> DEFINE q == wait[w]
<1>2. q \in WaitRec /\ TimingOut(w) = [q EXCEPT !.pc = "status", !.timed = TRUE]
  BY DEF TimingOut
<1> HIDE DEF q
<1>3. /\ TimingOut(w) \in WaitRec
      /\ TimingOut(w).pc = "status" /\ TimingOut(w).timed
      /\ TimingOut(w).f = q.f /\ TimingOut(w).stale = q.stale
  BY <1>2 DEF WaitRec
<1> QED BY <1>1, <1>3 DEF q

Fetching(w, g) == [wait[w] EXCEPT !.pc = "fetching", !.f = g]

LEMMA FetchingRec ==
  ASSUME NEW w \in Waiters, wait \in [Waiters -> WaitRec], NEW g \in Fetches
  PROVE  /\ [wait EXCEPT ![w].pc = "fetching", ![w].f = g] = [wait EXCEPT ![w] = Fetching(w, g)]
         /\ Fetching(w, g) \in WaitRec
         /\ Fetching(w, g).pc = "fetching" /\ Fetching(w, g).f = g
         /\ Fetching(w, g).seen = wait[w].seen /\ Fetching(w, g).after = wait[w].after
         /\ Fetching(w, g).timed = wait[w].timed /\ Fetching(w, g).stale = wait[w].stale
<1>1. [wait EXCEPT ![w].pc = "fetching", ![w].f = g] = [wait EXCEPT ![w] = Fetching(w, g)]
  BY DEF Fetching
<1> DEFINE q == wait[w]
<1>2. q \in WaitRec /\ Fetching(w, g) = [q EXCEPT !.pc = "fetching", !.f = g]
  BY DEF Fetching
<1> HIDE DEF q
<1>3. /\ Fetching(w, g) \in WaitRec
      /\ Fetching(w, g).pc = "fetching" /\ Fetching(w, g).f = g
      /\ Fetching(w, g).seen = q.seen /\ Fetching(w, g).after = q.after
      /\ Fetching(w, g).timed = q.timed /\ Fetching(w, g).stale = q.stale
  BY <1>2 DEF WaitRec
<1> QED BY <1>1, <1>3 DEF q

Checking(w) == [wait[w] EXCEPT !.pc = "checking", !.woken = TRUE]

LEMMA CheckExternalsRec ==
  ASSUME NEW w \in Waiters, CheckExternals(w), wait \in [Waiters -> WaitRec]
  PROVE  /\ wait' = [wait EXCEPT ![w] = Checking(w)]
         /\ Checking(w) \in WaitRec
         /\ Checking(w).pc = "checking" /\ Checking(w).woken
         /\ Checking(w).f = wait[w].f /\ Checking(w).stale = wait[w].stale
<1>1. wait' = [wait EXCEPT ![w] = Checking(w)]
  BY DEF CheckExternals, Checking
<1> DEFINE q == wait[w]
<1>2. q \in WaitRec /\ Checking(w) = [q EXCEPT !.pc = "checking", !.woken = TRUE]
  BY DEF Checking
<1> HIDE DEF q
<1>3. /\ Checking(w) \in WaitRec
      /\ Checking(w).pc = "checking" /\ Checking(w).woken
      /\ Checking(w).f = q.f /\ Checking(w).stale = q.stale
  BY <1>2 DEF WaitRec
<1> QED BY <1>1, <1>3 DEF q

\* The loop of checkExternals ends the request, or puts it to sleep while a check
\* is under way.
LEMMA CheckLoopRec ==
  ASSUME NEW w \in Waiters, CheckLoop(w), TypeOK
  PROVE  \E q \in WaitRec :
           /\ wait' = [wait EXCEPT ![w] = q]
           /\ \/ q = NoWait
              \/ /\ q.pc = "checking" /\ q.f = wait[w].f /\ q.stale = wait[w].stale
                 /\ \E e \in Externals : ext[e].inflight
<1> DEFINE p == wait[w]
           q == [p EXCEPT !.woken = FALSE]
<1>1. p \in WaitRec /\ p.pc = "checking"
  BY Types DEF CheckLoop
<1>2. wait' = IF \E e \in Externals : Fresh(e) THEN [wait EXCEPT ![w] = NoWait]
              ELSE IF \A e \in Externals : ~ext[e].inflight THEN [wait EXCEPT ![w] = NoWait]
              ELSE [wait EXCEPT ![w] = q]
  BY DEF CheckLoop, Over
<1> HIDE DEF p
<1>3. q \in WaitRec /\ q.pc = "checking" /\ q.f = p.f /\ q.stale = p.stale
  BY <1>1 DEF WaitRec
<1> HIDE DEF q
<1>4. CASE \E e \in Externals : Fresh(e)
  BY <1>2, <1>4, NoWaitFields
<1>5. CASE ~(\E e \in Externals : Fresh(e)) /\ \A e \in Externals : ~ext[e].inflight
  BY <1>2, <1>5, NoWaitFields
<1>6. CASE ~(\E e \in Externals : Fresh(e)) /\ ~(\A e \in Externals : ~ext[e].inflight)
  <2>1. wait' = [wait EXCEPT ![w] = q] /\ \E e \in Externals : ext[e].inflight
    BY <1>2, <1>6
  <2> QED BY <1>3, <2>1 DEF p
<1> QED BY <1>4, <1>5, <1>6

\* A passed request is over, or is forwarded.
LEMMA PassedRec ==
  ASSUME NEW w \in Waiters, Passed(w), wait \in [Waiters -> WaitRec]
  PROVE  \E q \in WaitRec :
           /\ wait' = [wait EXCEPT ![w] = q]
           /\ q.pc \in {"done", "check"} /\ q.f = None /\ ~q.stale
<1> DEFINE past == {n \in UsableMesh : node[n].round > wait[w].after}
<1>1. wait' = IF past # {} THEN Over(w) ELSE Forwarded(w)
  BY DEF Passed
<1>2. Over(w) = [wait EXCEPT ![w] = NoWait]
  BY DEF Over
<1> HIDE DEF past
<1>3. CASE past # {}
  BY <1>1, <1>2, <1>3, NoWaitFields
<1>4. CASE past = {}
  BY <1>1, <1>4, ForwardedRec
<1> QED BY <1>3, <1>4

\* A waiter is done with its fetch.
LEMMA FetchDoneRec ==
  ASSUME NEW w \in Waiters, NEW late \in BOOLEAN, FetchDone(w, late), TypeOK, WaitersInv
  PROVE  \E q \in WaitRec :
           /\ wait' = [wait EXCEPT ![w] = q]
           /\ q.pc \in {"done", "check"} /\ q.f = None /\ ~q.stale
<1> DEFINE g == wait[w].f
<1>1. /\ wait \in [Waiters -> WaitRec] /\ fetch \in [Fetches -> FetchRec]
      /\ wait[w].pc = "fetching" /\ g \in Fetches /\ Serves(fetch[g], wait[w].seen)
      /\ ~wait[w].timed => wait[w].seen > wait[w].after
  BY Types DEF FetchDone, WaitersInv, Waiting
<1>2. wait' = IF ~late /\ fetch[g].pc = "ok" THEN Answered(w, fetch[g].round) ELSE Forwarded(w)
  BY DEF FetchDone
<1>3. CASE ~late /\ fetch[g].pc = "ok"
  <2>1. fetch[g].round \in Rounds /\ fetch[g].round >= wait[w].seen
    BY <1>1, <1>3 DEF Serves, FetchRec
  <2>2. PICK q \in WaitRec :
          /\ Answered(w, fetch[g].round) = [wait EXCEPT ![w] = q]
          /\ q.pc = "done" /\ q.f = None
          /\ q.stale = (~wait[w].timed /\ fetch[g].round <= wait[w].after)
    BY <1>1, <2>1, OverRec
  <2>3. wait[w].seen \in Rounds /\ wait[w].after \in Rounds
    BY <1>1 DEF WaitRec
  <2>4. ~wait[w].timed => ~(fetch[g].round <= wait[w].after)
    BY <1>1, <2>1, <2>3 DEF Rounds
  <2> QED BY <1>2, <1>3, <2>2, <2>4
<1>4. CASE ~(~late /\ fetch[g].pc = "ok")
  BY <1>1, <1>2, <1>4, ForwardedRec
<1> QED BY <1>3, <1>4

\* A fetch is gone only when it has ended and the one who held it lets it go.
LEMMA ReleasedFields ==
  ASSUME NEW w \in Waiters, fetch \in [Fetches -> FetchRec]
  PROVE  /\ Released(w) \in [Fetches -> FetchRec]
         /\ \A g \in Fetches : fetch[g].pc = "run" => Released(w)[g] = fetch[g]
         /\ \A g \in Fetches, v \in Waiters : v # w /\ wait[v].f = g => Released(w)[g] = fetch[g]
<1>1. 0 \in Rounds
  BY WaitAssumption DEF Rounds
<1>2. NoFetch \in FetchRec
  BY <1>1 DEF NoFetch, FetchRec
<1> QED BY <1>2 DEF Released, Alone

\* The fetch a request of its own is given was not in use.
LEMMA UnusedFetch ==
  ASSUME \E g \in Fetches : Unused(g)
  PROVE  (CHOOSE g \in Fetches : Unused(g)) \in Fetches
         /\ fetch[CHOOSE g \in Fetches : Unused(g)].pc = "off"
<1> DEFINE u == CHOOSE g \in Fetches : Unused(g)
<1>1. u \in Fetches /\ Unused(u)
  BY Zenon
<1> QED BY <1>1 DEF Unused

\* statusAt answers, joins the current fetch, or starts one, which becomes the
\* current and the newest.
LEMMA StatusAtCases ==
  ASSUME NEW w \in Waiters, StatusAt(w), TypeOK, FetchesInv
  PROVE  \/ /\ wait' = Answered(w, status) /\ status >= wait[w].seen
            /\ UNCHANGED <<fetch, current, newest>>
         \/ /\ current \in Fetches /\ fetch[current].pc = "run"
            /\ fetch[current].want >= wait[w].seen
            /\ wait' = [wait EXCEPT ![w] = Fetching(w, current)]
            /\ UNCHANGED <<fetch, current, newest>>
         \/ \E g \in Fetches :
              /\ fetch[g].pc = "off"
              /\ fetch' = [fetch EXCEPT ![g] = [pc |-> "run", want |-> wait[w].seen, round |-> 0]]
              /\ current' = g /\ newest' = g
              /\ wait' = [wait EXCEPT ![w] = Fetching(w, g)]
<1>1. wait \in [Waiters -> WaitRec] /\ current \in Fetches \cup {None}
  BY Types
<1>2. CASE status > 0 /\ status >= wait[w].seen
  <2>1. wait' = Answered(w, status) /\ UNCHANGED <<fetch, current, newest>>
    BY <1>2 DEF StatusAt
  <2> QED BY <1>2, <2>1
<1>3. CASE ~(status > 0 /\ status >= wait[w].seen) /\ Joins(wait[w].seen)
  <2>1. /\ wait' = [wait EXCEPT ![w].pc = "fetching", ![w].f = current]
        /\ UNCHANGED <<fetch, current, newest>>
    BY <1>3 DEF StatusAt
  <2>2. /\ current \in Fetches /\ fetch[current].pc = "run"
        /\ fetch[current].want >= wait[w].seen
    BY <1>1, <1>3 DEF Joins, FetchesInv, CurrentRuns
  <2>3. wait' = [wait EXCEPT ![w] = Fetching(w, current)]
    BY <2>1 DEF Fetching
  <2> QED BY <2>1, <2>2, <2>3
<1>4. CASE ~(status > 0 /\ status >= wait[w].seen) /\ ~Joins(wait[w].seen)
  <2> DEFINE u == CHOOSE g \in Fetches : Unused(g)
  <2>1. /\ \E g \in Fetches : Unused(g)
        /\ fetch' = [fetch EXCEPT ![u] = [pc |-> "run", want |-> wait[w].seen, round |-> 0]]
        /\ current' = u /\ newest' = u
        /\ wait' = [wait EXCEPT ![w].pc = "fetching", ![w].f = u]
    BY <1>4 DEF StatusAt
  <2>2. u \in Fetches /\ fetch[u].pc = "off"
    BY <2>1, UnusedFetch
  <2> HIDE DEF u
  <2>3. wait' = [wait EXCEPT ![w] = Fetching(w, u)]
    BY <2>1 DEF Fetching
  <2> QED BY <2>1, <2>2, <2>3
<1> QED BY <1>2, <1>3, <1>4

\* fetchStatus ends: the fetch is gone when nobody holds it, and otherwise says how
\* it ended.
Ended(g, r, ok) ==
  IF Alone(g, None) THEN NoFetch
  ELSE [NoFetch EXCEPT !.pc = IF ok THEN "ok" ELSE "failed", !.round = r]

LEMMA FinishRec ==
  ASSUME NEW g \in Fetches, NEW r \in Rounds, NEW ok \in BOOLEAN, Finish(g, r, ok)
  PROVE  /\ fetch' = [fetch EXCEPT ![g] = Ended(g, r, ok)]
         /\ Ended(g, r, ok) \in FetchRec
         /\ Ended(g, r, ok).pc \in {"off", "ok", "failed"}
         /\ (\E v \in Waiters : wait[v].f = g) =>
              /\ Ended(g, r, ok).pc = IF ok THEN "ok" ELSE "failed"
              /\ Ended(g, r, ok).round = r
<1>1. 0 \in Rounds /\ Waiters \ {None} = Waiters
  BY WaitAssumption DEF Rounds
<1> DEFINE p == IF ok THEN "ok" ELSE "failed"
           n == NoFetch
           d == [n EXCEPT !.pc = p, !.round = r]
<1>2. fetch' = [fetch EXCEPT ![g] = Ended(g, r, ok)]
  BY DEF Finish, Ended
<1>3. p \in {"ok", "failed"}
  OBVIOUS
<1>4. Ended(g, r, ok) = IF Alone(g, None) THEN n ELSE d
  BY DEF Ended
<1>5. n \in FetchRec /\ n.pc = "off"
  BY <1>1 DEF NoFetch, FetchRec
<1> HIDE DEF p, n
<1>7. d \in FetchRec /\ d.pc = p /\ d.round = r
  BY <1>3, <1>5 DEF FetchRec
<1> HIDE DEF d
<1>8. (\E v \in Waiters : wait[v].f = g) => ~Alone(g, None)
  BY <1>1 DEF Alone
<1> QED BY <1>2, <1>3, <1>4, <1>5, <1>7, <1>8 DEF p

\* What every step does to the requests and the fetches keeps their types.
LEMMA TypeStep ==
  ASSUME TypeOK, WaitersInv, FetchesInv, ChecksInv, [Next]_vars
  PROVE  TypeOK'
<1>1. /\ balancer \in BOOLEAN /\ hbRound \in Rounds /\ status \in Rounds
      /\ node \in [Mesh -> [round : Rounds, usable : BOOLEAN]]
      /\ wait \in [Waiters -> WaitRec] /\ fetch \in [Fetches -> FetchRec]
      /\ current \in Fetches \cup {None} /\ newest \in Fetches \cup {None}
      /\ ext \in [Externals -> ExtRec]
  BY Types
<1> SUFFICES
      /\ balancer' \in BOOLEAN /\ hbRound' \in Rounds /\ status' \in Rounds
      /\ node' \in [Mesh -> [round : Rounds, usable : BOOLEAN]]
      /\ wait' \in [Waiters -> WaitRec] /\ fetch' \in [Fetches -> FetchRec]
      /\ current' \in Fetches \cup {None} /\ newest' \in Fetches \cup {None}
      /\ ext' \in [Externals -> ExtRec]
  BY DEF TypeOK, WaitRec, FetchRec, ExtRec
<1>2. 0 \in Rounds
  BY WaitAssumption DEF Rounds
<1>3. ASSUME NEW n \in Mesh, NEW r \in Rounds, NEW u \in BOOLEAN, NodeChanges(n, r, u)
      PROVE  /\ hbRound' \in Rounds /\ wait' \in [Waiters -> WaitRec]
             /\ node' \in [Mesh -> [round : Rounds, usable : BOOLEAN]]
             /\ UNCHANGED <<balancer, fetch, current, status, ext, newest>>
  <2>1. /\ hbRound' = IF r > hbRound THEN r ELSE hbRound
        /\ wait' = IF r > hbRound THEN Woken("held") ELSE wait
        /\ node' = [node EXCEPT ![n] = [round |-> r, usable |-> u]]
    BY <1>3 DEF NodeChanges, NoteRound
  <2>2. Woken("held") \in [Waiters -> WaitRec]
    BY <1>1, WokenFields
  <2> QED BY <1>1, <1>3, <2>1, <2>2 DEF NodeChanges
<1>4. ASSUME NEW w \in Waiters, NEW r \in Rounds, Arrive(w, r)
      PROVE  /\ wait' \in [Waiters -> WaitRec]
             /\ UNCHANGED <<balancer, node, hbRound, fetch, current, status, ext, newest>>
  <2>1. PICK q \in WaitRec : wait' = [wait EXCEPT ![w] = q]
    BY <1>1, <1>4, ArriveRec
  <2> QED BY <1>1, <1>4, <2>1 DEF Arrive
<1>5. ASSUME NEW w \in Waiters, LookHeard(w)
      PROVE  /\ wait' \in [Waiters -> WaitRec]
             /\ UNCHANGED <<balancer, node, hbRound, fetch, current, status, ext, newest>>
  <2>1. wait' = [wait EXCEPT ![w] = Looking(w)] /\ Looking(w) \in WaitRec
    BY <1>1, <1>5, LookHeardRec
  <2>2. UNCHANGED <<balancer, node, hbRound, fetch, current, status, ext, newest>>
    BY <1>5 DEF LookHeard
  <2> QED BY <1>1, <2>1, <2>2
<1>6. ASSUME NEW w \in Waiters, TimesOut(w)
      PROVE  /\ wait' \in [Waiters -> WaitRec]
             /\ UNCHANGED <<balancer, node, hbRound, fetch, current, status, ext, newest>>
  BY <1>1, <1>6, TimesOutRec DEF TimesOut
<1>7. ASSUME NEW w \in Waiters, Leave(w)
      PROVE  /\ wait' \in [Waiters -> WaitRec] /\ fetch' \in [Fetches -> FetchRec]
             /\ UNCHANGED <<balancer, node, hbRound, current, status, ext, newest>>
  BY <1>1, <1>7, NoWaitFields, ReleasedFields DEF Leave, Over
<1>8. ASSUME NEW w \in Waiters, Passed(w)
      PROVE  /\ wait' \in [Waiters -> WaitRec]
             /\ UNCHANGED <<balancer, node, hbRound, fetch, current, status, ext, newest>>
  BY <1>1, <1>8, PassedRec DEF Passed
<1>9. ASSUME NEW w \in Waiters, StatusAt(w)
      PROVE  /\ wait' \in [Waiters -> WaitRec] /\ fetch' \in [Fetches -> FetchRec]
             /\ current' \in Fetches \cup {None} /\ newest' \in Fetches \cup {None}
             /\ UNCHANGED <<balancer, node, hbRound, status, ext>>
  <2>1. UNCHANGED <<balancer, node, hbRound, status, ext>>
    BY <1>9 DEF StatusAt
  <2>2. CASE wait' = Answered(w, status) /\ UNCHANGED <<fetch, current, newest>>
    <3>1. PICK q \in WaitRec : Answered(w, status) = [wait EXCEPT ![w] = q]
      BY <1>1, OverRec
    <3> QED BY <1>1, <2>1, <2>2, <3>1
  <2>3. CASE /\ current \in Fetches /\ wait' = [wait EXCEPT ![w] = Fetching(w, current)]
             /\ UNCHANGED <<fetch, current, newest>>
    BY <1>1, <2>1, <2>3, FetchingRec
  <2>4. ASSUME NEW g \in Fetches,
               fetch' = [fetch EXCEPT ![g] = [pc |-> "run", want |-> wait[w].seen, round |-> 0]],
               current' = g, newest' = g, wait' = [wait EXCEPT ![w] = Fetching(w, g)]
        PROVE  /\ wait' \in [Waiters -> WaitRec] /\ fetch' \in [Fetches -> FetchRec]
               /\ current' \in Fetches \cup {None} /\ newest' \in Fetches \cup {None}
    <3>1. wait[w].seen \in Rounds
      BY <1>1 DEF WaitRec
    <3>2. [pc |-> "run", want |-> wait[w].seen, round |-> 0] \in FetchRec
      BY <1>2, <3>1 DEF FetchRec
    <3> QED BY <1>1, <2>4, <3>2, FetchingRec
  <2> QED BY <1>9, <2>1, <2>2, <2>3, <2>4, StatusAtCases
<1>10. ASSUME NEW w \in Waiters, CheckExternals(w)
       PROVE  /\ wait' \in [Waiters -> WaitRec]
              /\ ext' \in [Externals -> ExtRec]
              /\ UNCHANGED <<balancer, node, hbRound, fetch, current, status, newest>>
  <2>1. wait' \in [Waiters -> WaitRec]
    BY <1>1, <1>10, CheckExternalsRec
  <2>2. ext' = [e \in Externals |->
          IF Starts(e) THEN [ext[e] EXCEPT !.inflight = TRUE, !.running = ext[e].running + 1] ELSE ext[e]]
    BY <1>10 DEF CheckExternals
  <2>3. ASSUME NEW e \in Externals PROVE ext'[e] \in ExtRec
    <3> DEFINE x == ext[e]
               n == x.running + 1
    <3>1. x \in ExtRec
      BY <1>1
    <3>2. ext'[e] = IF Starts(e) THEN [x EXCEPT !.inflight = TRUE, !.running = n] ELSE x
      BY <2>2
    <3>3. n \in Nat
      BY <3>1 DEF ExtRec
    <3> HIDE DEF x, n
    <3> QED BY <3>1, <3>2, <3>3 DEF ExtRec
  <2>4. ext' \in [Externals -> ExtRec]
    BY <2>2, <2>3
  <2> QED BY <1>10, <2>1, <2>4 DEF CheckExternals
<1>11. ASSUME NEW w \in Waiters, CheckLoop(w)
       PROVE  /\ wait' \in [Waiters -> WaitRec]
              /\ UNCHANGED <<balancer, node, hbRound, fetch, current, status, ext, newest>>
  BY <1>1, <1>11, CheckLoopRec DEF CheckLoop
<1>12. ASSUME NEW w \in Waiters, CheckGivesUp(w)
       PROVE  /\ wait' \in [Waiters -> WaitRec]
              /\ UNCHANGED <<balancer, node, hbRound, fetch, current, status, ext, newest>>
  BY <1>1, <1>12, NoWaitFields DEF CheckGivesUp, Over
<1>13. ASSUME NEW w \in Waiters, NEW late \in BOOLEAN, FetchDone(w, late)
       PROVE  /\ wait' \in [Waiters -> WaitRec] /\ fetch' \in [Fetches -> FetchRec]
              /\ UNCHANGED <<balancer, node, hbRound, current, status, ext, newest>>
  BY <1>1, <1>13, FetchDoneRec, ReleasedFields DEF FetchDone
<1>14. ASSUME NEW g \in Fetches, NEW r \in Rounds, NEW ok \in BOOLEAN, FetchEnds(g, r, ok)
       PROVE  /\ fetch' \in [Fetches -> FetchRec] /\ status' \in Rounds
              /\ current' \in Fetches \cup {None} /\ newest' \in Fetches \cup {None}
              /\ UNCHANGED <<balancer, node, hbRound, wait, ext>>
  <2>1. Finish(g, r, ok)
    BY <1>14 DEF FetchEnds
  <2>2. fetch' \in [Fetches -> FetchRec]
    BY <1>1, <2>1, FinishRec
  <2>3. /\ current' = IF current = g THEN None ELSE current
        /\ status' = IF ok /\ r > status THEN r ELSE status
        /\ newest' = IF newest = g THEN None ELSE newest
        /\ UNCHANGED <<balancer, node, hbRound, wait, ext>>
    BY <2>1 DEF Finish, Cleared
  <2> QED BY <1>1, <2>2, <2>3
<1>15. ASSUME NEW e \in Externals, NEW ok \in BOOLEAN, CheckEnds(e, ok)
       PROVE  /\ wait' \in [Waiters -> WaitRec]
              /\ ext' \in [Externals -> ExtRec]
              /\ UNCHANGED <<balancer, node, hbRound, fetch, current, status, newest>>
  <2>1. wait' \in [Waiters -> WaitRec]
    BY <1>1, <1>15, WokenFields DEF CheckEnds
  <2>2. ext[e].running - 1 \in Nat /\ 0 \in 0 .. AgeCap
    BY <1>1, <1>15, AgeCapIsNat DEF CheckEnds, ExtRec
  <2>3. ext' = [ext EXCEPT ![e] = [inflight |-> FALSE, running |-> ext[e].running - 1, ok |-> ok, age |-> 0]]
    BY <1>1, <1>15 DEF CheckEnds
  <2> QED BY <1>1, <1>15, <2>1, <2>2, <2>3 DEF CheckEnds, ExtRec
<1>16. ASSUME Tick
       PROVE  /\ ext' \in [Externals -> ExtRec]
              /\ UNCHANGED <<balancer, node, hbRound, wait, fetch, current, status, newest>>
  <2>1. ext' = [e \in Externals |->
          [ext[e] EXCEPT !.age = IF ext[e].age < AgeCap THEN ext[e].age + 1 ELSE ext[e].age]]
    BY <1>16 DEF Tick
  <2>2. \A e \in Externals :
          (IF ext[e].age < AgeCap THEN ext[e].age + 1 ELSE ext[e].age) \in 0 .. AgeCap
    BY <1>1, AgeCapIsNat DEF ExtRec
  <2> QED BY <1>1, <1>16, <2>1, <2>2, SMTT(30) DEF Tick, ExtRec
<1>17. CASE UNCHANGED vars
  BY <1>1, <1>17 DEF vars
<1>18. CASE Next
  BY <1>1, <1>3, <1>4, <1>5, <1>6, <1>7, <1>8, <1>9, <1>10, <1>11, <1>12, <1>13, <1>14, <1>15,
     <1>16, <1>18 DEF Next
<1> QED BY <1>17, <1>18

-----------------------------------------------------------------------------
(* The fetches.                                                            *)

\* A fetch that can be joined runs, and the newest one is it, after every step.
LEMMA FetchesStep ==
  ASSUME TypeOK, WaitersInv, FetchesInv, [Next]_vars
  PROVE  FetchesInv'
<1>1. /\ wait \in [Waiters -> WaitRec] /\ fetch \in [Fetches -> FetchRec]
      /\ current \in Fetches \cup {None} /\ newest \in Fetches \cup {None}
      /\ None \notin Fetches
  BY Types, WaitAssumption
<1>2. CASE UNCHANGED <<fetch, current, newest>>
  BY <1>2 DEF FetchesInv, CurrentRuns, NewestIsShared
<1>3. ASSUME NEW w \in Waiters, fetch' = Released(w), UNCHANGED <<current, newest>>
      PROVE  FetchesInv'
  BY <1>1, <1>3, ReleasedFields DEF FetchesInv, CurrentRuns, NewestIsShared
<1>4. ASSUME NEW w \in Waiters, StatusAt(w) PROVE FetchesInv'
  <2>1. ASSUME NEW g \in Fetches,
               fetch' = [fetch EXCEPT ![g] = [pc |-> "run", want |-> wait[w].seen, round |-> 0]],
               current' = g, newest' = g
        PROVE  FetchesInv'
    BY <1>1, <2>1 DEF FetchesInv, CurrentRuns, NewestIsShared
  <2> QED BY <1>2, <1>4, <2>1, StatusAtCases
<1>5. ASSUME NEW g \in Fetches, NEW r \in Rounds, NEW ok \in BOOLEAN, FetchEnds(g, r, ok)
      PROVE  FetchesInv'
  <2>1. Finish(g, r, ok)
    BY <1>5 DEF FetchEnds
  <2>2. fetch' = [fetch EXCEPT ![g] = Ended(g, r, ok)]
    BY <2>1, FinishRec
  <2>3. /\ current' = IF current = g THEN None ELSE current
        /\ newest' = IF newest = g THEN None ELSE newest
    BY <2>1 DEF Finish, Cleared
  <2>4. CurrentRuns'
    BY <1>1, <2>2, <2>3 DEF FetchesInv, CurrentRuns
  <2>5. NewestIsShared'
    BY <2>3 DEF FetchesInv, NewestIsShared
  <2> QED BY <2>4, <2>5 DEF FetchesInv
<1>6. CASE \E w \in Waiters : Leave(w)
  BY <1>3, <1>6 DEF Leave
<1>7. CASE \E w \in Waiters, late \in BOOLEAN : FetchDone(w, late)
  BY <1>3, <1>7 DEF FetchDone
<1>8. CASE UNCHANGED vars
  BY <1>2, <1>8 DEF vars
<1>9. CASE Next
  BY <1>2, <1>4, <1>5, <1>6, <1>7, <1>9
  DEF Next, NodeChanges, Arrive, LookHeard, TimesOut, Passed, CheckExternals, CheckLoop,
      CheckGivesUp, CheckEnds, Tick
<1> QED BY <1>8, <1>9

-----------------------------------------------------------------------------
(* The requests.                                                           *)

\* A step that changes one request, leaves it sound, and changes no fetch that
\* another one holds.
LEMMA OneWaiter ==
  ASSUME TypeOK, WaitersInv, NEW w \in Waiters, NEW q \in WaitRec,
         wait' = [wait EXCEPT ![w] = q], Waiting(q, fetch'),
         \A g \in Fetches, v \in Waiters : v # w /\ wait[v].f = g => fetch'[g] = fetch[g]
  PROVE  WaitersInv'
<1>1. wait \in [Waiters -> WaitRec]
  BY Types
<1>2. ASSUME NEW v \in Waiters PROVE Waiting(wait'[v], fetch')
  <2>1. CASE v = w
    BY <1>1, <2>1
  <2>2. CASE v # w
    <3>1. wait'[v] = wait[v] /\ Waiting(wait[v], fetch)
      BY <1>1, <2>2 DEF WaitersInv
    <3>2. wait[v].pc = "fetching" => fetch'[wait[v].f] = fetch[wait[v].f]
      BY <2>2, <3>1 DEF Waiting
    <3> QED BY <3>1, <3>2 DEF Waiting
  <2> QED BY <2>1, <2>2
<1> QED BY <1>2 DEF WaitersInv

\* A request that holds no fetch and does not look for a status is sound.
LEMMA Resting ==
  ASSUME NEW q \in WaitRec, q.pc \notin {"status", "fetching"}, q.f = None, ~q.stale, NEW fs
  PROVE  Waiting(q, fs)
BY DEF Waiting

\* Waking waiters changes none of what makes them sound.
LEMMA WakingIsSound ==
  ASSUME TypeOK, WaitersInv, NEW a, wait' = Woken(a), fetch' = fetch
  PROVE  WaitersInv'
<1>1. wait \in [Waiters -> WaitRec]
  BY Types
<1>2. ASSUME NEW v \in Waiters PROVE Waiting(wait'[v], fetch')
  <2> DEFINE p == wait[v]
             q == wait'[v]
  <2>1. Waiting(p, fetch)
    BY DEF WaitersInv
  <2>2. /\ q.pc = p.pc /\ q.after = p.after /\ q.seen = p.seen /\ q.timed = p.timed
        /\ q.f = p.f /\ q.stale = p.stale
    BY <1>1, WokenFields
  <2> HIDE DEF p, q
  <2>3. Waiting(q, fetch)
    BY <2>1, <2>2 DEF Waiting
  <2> QED BY <2>3 DEF q
<1> QED BY <1>2 DEF WaitersInv

\* Every step leaves every request sound.
LEMMA WaitersStep ==
  ASSUME TypeOK, TypeOK', WaitersInv, FetchesInv, [Next]_vars
  PROVE  WaitersInv'
<1>1. /\ wait \in [Waiters -> WaitRec] /\ fetch \in [Fetches -> FetchRec]
      /\ current \in Fetches \cup {None} /\ None \notin Fetches
      /\ hbRound \in Rounds /\ status \in Rounds
  BY Types, WaitAssumption
<1>a. \A w \in Waiters : wait[w] \in WaitRec /\ Waiting(wait[w], fetch)
  BY <1>1 DEF WaitersInv
<1>2. ASSUME NEW n \in Mesh, NEW r \in Rounds, NEW u \in BOOLEAN, NodeChanges(n, r, u)
      PROVE  WaitersInv'
  <2>1. fetch' = fetch /\ (wait' = Woken("held") \/ wait' = wait)
    BY <1>2 DEF NodeChanges, NoteRound
  <2> QED BY <2>1, WakingIsSound DEF WaitersInv
<1>3. ASSUME NEW w \in Waiters, NEW r \in Rounds, Arrive(w, r) PROVE WaitersInv'
  <2>1. fetch' = fetch
    BY <1>3 DEF Arrive
  <2>2. PICK q \in WaitRec : wait' = [wait EXCEPT ![w] = q] /\ q.pc \in {"held", "check"}
                             /\ q.f = None /\ ~q.stale
    BY <1>1, <1>3, ArriveRec
  <2> QED BY <2>1, <2>2, Resting, OneWaiter
<1>4. ASSUME NEW w \in Waiters, LookHeard(w) PROVE WaitersInv'
  <2> DEFINE q == Looking(w)
  <2>1. /\ wait' = [wait EXCEPT ![w] = q] /\ q \in WaitRec
        /\ q.pc \in {"held", "status", "passed"}
        /\ q.pc = "held" <=> hbRound <= wait[w].after
        /\ q.seen = hbRound /\ q.after = wait[w].after
        /\ q.f = wait[w].f /\ q.stale = wait[w].stale
    BY <1>1, <1>4, LookHeardRec
  <2>2. fetch' = fetch /\ wait[w].pc = "held"
    BY <1>4 DEF LookHeard
  <2>3. wait[w].f = None /\ ~wait[w].stale
    BY <1>a, <2>2 DEF Waiting
  <2>4. wait[w].after \in Rounds
    BY <1>a DEF WaitRec
  <2> HIDE DEF q
  <2>5. q.pc = "status" => q.seen > q.after
    BY <1>1, <2>1, <2>4 DEF Rounds
  <2>6. Waiting(q, fetch')
    BY <2>1, <2>3, <2>5 DEF Waiting
  <2> QED BY <2>1, <2>2, <2>6, OneWaiter
<1>5. ASSUME NEW w \in Waiters, TimesOut(w) PROVE WaitersInv'
  <2> DEFINE q == TimingOut(w)
  <2>1. /\ wait' = [wait EXCEPT ![w] = q] /\ q \in WaitRec
        /\ q.pc = "status" /\ q.timed /\ q.f = wait[w].f /\ q.stale = wait[w].stale
    BY <1>1, <1>5, TimesOutRec
  <2>2. fetch' = fetch /\ wait[w].pc = "held"
    BY <1>5 DEF TimesOut
  <2>3. wait[w].f = None /\ ~wait[w].stale
    BY <1>a, <2>2 DEF Waiting
  <2> HIDE DEF q
  <2>4. Waiting(q, fetch')
    BY <2>1, <2>3 DEF Waiting
  <2> QED BY <2>1, <2>2, <2>4, OneWaiter
<1>6. ASSUME NEW w \in Waiters, Leave(w) PROVE WaitersInv'
  <2>1. wait' = [wait EXCEPT ![w] = NoWait] /\ fetch' = Released(w)
    BY <1>6 DEF Leave, Over
  <2>2. Waiting(NoWait, fetch')
    BY NoWaitFields, Resting
  <2> QED BY <1>1, <2>1, <2>2, NoWaitFields, ReleasedFields, OneWaiter, ZenonT(60)
<1>7. ASSUME NEW w \in Waiters, Passed(w) PROVE WaitersInv'
  <2>1. fetch' = fetch
    BY <1>7 DEF Passed
  <2>2. PICK q \in WaitRec : wait' = [wait EXCEPT ![w] = q] /\ q.pc \in {"done", "check"}
                             /\ q.f = None /\ ~q.stale
    BY <1>1, <1>7, PassedRec
  <2> QED BY <2>1, <2>2, Resting, OneWaiter
<1>8. ASSUME NEW w \in Waiters, StatusAt(w) PROVE WaitersInv'
  <2>1. /\ wait[w].pc = "status" /\ ~wait[w].stale
        /\ ~wait[w].timed => wait[w].seen > wait[w].after
        /\ wait[w].seen \in Rounds /\ wait[w].after \in Rounds /\ wait[w].timed \in BOOLEAN
    BY <1>8, <1>a DEF StatusAt, Waiting, WaitRec
  <2>2. ASSUME wait' = Answered(w, status), status >= wait[w].seen, fetch' = fetch
        PROVE  WaitersInv'
    <3>1. PICK q \in WaitRec :
            /\ Answered(w, status) = [wait EXCEPT ![w] = q]
            /\ q.pc = "done" /\ q.f = None
            /\ q.stale = (~wait[w].timed /\ status <= wait[w].after)
      BY <1>1, OverRec
    <3>2. ~wait[w].timed => ~(status <= wait[w].after)
      BY <1>1, <2>1, <2>2 DEF Rounds
    <3>3. Waiting(q, fetch')
      BY <3>1, <3>2, Resting
    <3> QED BY <2>2, <3>1, <3>3, OneWaiter
  <2>3. ASSUME NEW g \in Fetches, wait' = [wait EXCEPT ![w] = Fetching(w, g)],
               Serves(fetch'[g], wait[w].seen),
               \A k \in Fetches, v \in Waiters : v # w /\ wait[v].f = k => fetch'[k] = fetch[k]
        PROVE  WaitersInv'
    <3> DEFINE q == Fetching(w, g)
    <3>1. /\ q \in WaitRec /\ q.pc = "fetching" /\ q.f = g
          /\ q.seen = wait[w].seen /\ q.after = wait[w].after
          /\ q.timed = wait[w].timed /\ q.stale = wait[w].stale
      BY <1>1, FetchingRec
    <3> HIDE DEF q
    <3>2. Waiting(q, fetch')
      BY <2>1, <2>3, <3>1 DEF Waiting
    <3>3. wait' = [wait EXCEPT ![w] = q]
      BY <2>3 DEF q
    <3> QED BY <2>3, <3>1, <3>2, <3>3, OneWaiter
  <2>4. ASSUME current \in Fetches, fetch[current].pc = "run",
               fetch[current].want >= wait[w].seen,
               wait' = [wait EXCEPT ![w] = Fetching(w, current)], fetch' = fetch
        PROVE  WaitersInv'
    <3>1. Serves(fetch'[current], wait[w].seen)
      BY <2>4 DEF Serves
    <3> QED BY <2>3, <2>4, <3>1
  <2>5. ASSUME NEW g \in Fetches, fetch[g].pc = "off",
               fetch' = [fetch EXCEPT ![g] = [pc |-> "run", want |-> wait[w].seen, round |-> 0]],
               wait' = [wait EXCEPT ![w] = Fetching(w, g)]
        PROVE  WaitersInv'
    <3>1. Serves(fetch'[g], wait[w].seen)
      BY <1>1, <2>1, <2>5 DEF Serves, Rounds
    <3>2. \A v \in Waiters : wait[v].f # g
      BY <1>1, <1>a, <2>5 DEF Waiting, Serves
    <3> QED BY <1>1, <2>3, <2>5, <3>1, <3>2
  <2> QED BY <1>8, <2>2, <2>4, <2>5, StatusAtCases
<1>9. ASSUME NEW w \in Waiters, CheckExternals(w) PROVE WaitersInv'
  <2> DEFINE q == Checking(w)
  <2>1. /\ wait' = [wait EXCEPT ![w] = q] /\ q \in WaitRec
        /\ q.pc = "checking" /\ q.f = wait[w].f /\ q.stale = wait[w].stale
    BY <1>1, <1>9, CheckExternalsRec
  <2>2. fetch' = fetch /\ wait[w].pc = "check"
    BY <1>9 DEF CheckExternals
  <2>3. wait[w].f = None /\ ~wait[w].stale
    BY <1>a, <2>2 DEF Waiting
  <2> HIDE DEF q
  <2>4. Waiting(q, fetch')
    BY <2>1, <2>3, Resting
  <2> QED BY <2>1, <2>2, <2>4, OneWaiter
<1>10. ASSUME NEW w \in Waiters, CheckLoop(w) PROVE WaitersInv'
  <2>1. fetch' = fetch /\ wait[w].pc = "checking"
    BY <1>10 DEF CheckLoop
  <2>2. wait[w].f = None /\ ~wait[w].stale
    BY <1>a, <2>1 DEF Waiting
  <2>3. PICK q \in WaitRec : /\ wait' = [wait EXCEPT ![w] = q]
                             /\ \/ q = NoWait
                                \/ q.pc = "checking" /\ q.f = wait[w].f /\ q.stale = wait[w].stale
    BY <1>10, CheckLoopRec
  <2>4. Waiting(q, fetch')
    BY <2>2, <2>3, NoWaitFields, Resting
  <2> QED BY <2>1, <2>3, <2>4, OneWaiter
<1>11. ASSUME NEW w \in Waiters, CheckGivesUp(w) PROVE WaitersInv'
  <2>1. wait' = [wait EXCEPT ![w] = NoWait] /\ fetch' = fetch
    BY <1>11 DEF CheckGivesUp, Over
  <2>2. Waiting(NoWait, fetch')
    BY NoWaitFields, Resting
  <2> QED BY <2>1, <2>2, NoWaitFields, OneWaiter
<1>12. ASSUME NEW w \in Waiters, NEW late \in BOOLEAN, FetchDone(w, late) PROVE WaitersInv'
  <2>1. fetch' = Released(w)
    BY <1>12 DEF FetchDone
  <2>2. PICK q \in WaitRec : wait' = [wait EXCEPT ![w] = q] /\ q.pc \in {"done", "check"}
                             /\ q.f = None /\ ~q.stale
    BY <1>12, FetchDoneRec
  <2>3. Waiting(q, fetch')
    BY <2>2, Resting
  <2> QED BY <1>1, <2>1, <2>2, <2>3, ReleasedFields, OneWaiter, ZenonT(60)
<1>13. ASSUME NEW g \in Fetches, NEW r \in Rounds, NEW ok \in BOOLEAN, FetchEnds(g, r, ok)
       PROVE  WaitersInv'
  <2>1. /\ fetch[g].pc = "run" /\ (ok => r >= fetch[g].want) /\ wait' = wait
        /\ Finish(g, r, ok)
    BY <1>13 DEF FetchEnds, Finish
  <2> DEFINE d == Ended(g, r, ok)
  <2>2. /\ fetch' = [fetch EXCEPT ![g] = d]
        /\ (\E v \in Waiters : wait[v].f = g) =>
             d.pc = (IF ok THEN "ok" ELSE "failed") /\ d.round = r
    BY <2>1, FinishRec
  <2> HIDE DEF d
  <2>3. ASSUME NEW v \in Waiters, wait[v].pc = "fetching", wait[v].f = g
        PROVE  Serves(d, wait[v].seen)
    <3>1. Serves(fetch[g], wait[v].seen) /\ fetch[g].want \in Rounds /\ wait[v].seen \in Rounds
      BY <1>1, <1>a, <2>3 DEF Waiting, WaitRec, FetchRec
    <3>2. d.pc = (IF ok THEN "ok" ELSE "failed") /\ d.round = r
      BY <2>2, <2>3
    <3>3. ok => r >= wait[v].seen
      BY <2>1, <3>1 DEF Serves, Rounds
    <3> QED BY <3>2, <3>3 DEF Serves
  <2>4. ASSUME NEW v \in Waiters PROVE Waiting(wait'[v], fetch')
    <3>1. wait[v].pc = "fetching" => wait[v].f \in Fetches /\ Serves(fetch'[wait[v].f], wait[v].seen)
      BY <1>1, <1>a, <2>2, <2>3 DEF Waiting
    <3> QED BY <1>a, <2>1, <3>1 DEF Waiting
  <2> QED BY <2>4 DEF WaitersInv
<1>14. ASSUME NEW e \in Externals, NEW ok \in BOOLEAN, CheckEnds(e, ok) PROVE WaitersInv'
  <2>1. fetch' = fetch /\ wait' = Woken("checking")
    BY <1>14 DEF CheckEnds
  <2> QED BY <2>1, WakingIsSound
<1>15. CASE UNCHANGED <<wait, fetch>>
  BY <1>15 DEF WaitersInv
<1>16. CASE UNCHANGED vars
  BY <1>15, <1>16 DEF vars
<1>17. CASE Tick
  BY <1>15, <1>17 DEF Tick
<1>18. CASE Next
  BY <1>2, <1>3, <1>4, <1>5, <1>6, <1>7, <1>8, <1>9, <1>10, <1>11, <1>12, <1>13, <1>14, <1>17,
     <1>18 DEF Next
<1> QED BY <1>16, <1>18

-----------------------------------------------------------------------------
(* The checks.                                                             *)

\* What checkExternals does to an external.
LEMMA StartedFields ==
  ASSUME NEW w \in Waiters, CheckExternals(w), TypeOK, NEW e \in Externals
  PROVE  /\ ext[e].inflight => ext'[e] = ext[e]
         /\ \/ ext'[e] = ext[e]
            \/ /\ ~ext[e].inflight /\ ext'[e].inflight
               /\ ext'[e].running = ext[e].running + 1
<1> DEFINE x == ext[e]
           n == x.running + 1
<1>1. x \in ExtRec
  BY Types
<1>2. ext'[e] = IF Starts(e) THEN [x EXCEPT !.inflight = TRUE, !.running = n] ELSE x
  BY DEF CheckExternals
<1>3. Starts(e) => ~x.inflight
  BY DEF Starts
<1> HIDE DEF x, n
<1>4. /\ [x EXCEPT !.inflight = TRUE, !.running = n].inflight
      /\ [x EXCEPT !.inflight = TRUE, !.running = n].running = n
  BY <1>1 DEF ExtRec
<1>5. CASE Starts(e)
  BY <1>2, <1>3, <1>4, <1>5 DEF x, n
<1>6. CASE ~Starts(e)
  BY <1>2, <1>6 DEF x
<1> QED BY <1>5, <1>6

\* Time changes neither the checks nor what is known of them.
LEMMA TickFields ==
  ASSUME Tick, TypeOK, NEW e \in Externals
  PROVE  ext'[e].inflight = ext[e].inflight /\ ext'[e].running = ext[e].running
<1> DEFINE x == ext[e]
           a == IF x.age < AgeCap THEN x.age + 1 ELSE x.age
<1>1. x \in ExtRec
  BY Types
<1>2. ext'[e] = [x EXCEPT !.age = a]
  BY DEF Tick
<1> HIDE DEF x, a
<1>3. [x EXCEPT !.age = a].inflight = x.inflight /\ [x EXCEPT !.age = a].running = x.running
  BY <1>1 DEF ExtRec
<1> QED BY <1>2, <1>3 DEF x

LEMMA ChecksStep ==
  ASSUME TypeOK, ChecksInv, [Next]_vars
  PROVE  ChecksInv'
<1>1. ext \in [Externals -> ExtRec] /\ \A e \in Externals : ext[e].running \in Nat
  BY Types DEF ExtRec
<1>2. CASE UNCHANGED ext
  BY <1>2 DEF ChecksInv
<1>3. ASSUME NEW w \in Waiters, CheckExternals(w) PROVE ChecksInv'
  <2>1. ASSUME NEW e \in Externals
        PROVE  ext'[e].running = IF ext'[e].inflight THEN 1 ELSE 0
    <3>1. ext[e].running = IF ext[e].inflight THEN 1 ELSE 0
      BY DEF ChecksInv
    <3>2. CASE ext'[e] = ext[e]
      BY <3>1, <3>2
    <3>3. CASE ~ext[e].inflight /\ ext'[e].inflight /\ ext'[e].running = ext[e].running + 1
      <4>1. ext[e].running = 0
        BY <3>1, <3>3
      <4>2. ext'[e].running = 1
        BY <3>3, <4>1
      <4> QED BY <3>3, <4>2
    <3> QED BY <1>3, <3>2, <3>3, StartedFields
  <2> QED BY <2>1 DEF ChecksInv
<1>4. ASSUME NEW e \in Externals, NEW ok \in BOOLEAN, CheckEnds(e, ok) PROVE ChecksInv'
  <2>1. /\ ext' = [ext EXCEPT ![e] = [inflight |-> FALSE, running |-> ext[e].running - 1,
                                      ok |-> ok, age |-> 0]]
        /\ ext[e].running > 0
    BY <1>1, <1>4 DEF CheckEnds
  <2>2. ext[e].running = IF ext[e].inflight THEN 1 ELSE 0
    BY DEF ChecksInv
  <2>3. ext[e].running - 1 = 0
    BY <2>1, <2>2
  <2>4. ext'[e].running = 0 /\ ~ext'[e].inflight
    BY <1>1, <2>1, <2>3
  <2>5. \A d \in Externals : d # e => ext'[d] = ext[d]
    BY <1>1, <2>1
  <2> QED BY <2>4, <2>5 DEF ChecksInv
<1>5. CASE Tick
  BY <1>5, TickFields DEF ChecksInv
<1>6. CASE UNCHANGED vars
  BY <1>2, <1>6 DEF vars
<1>7. CASE Next
  BY <1>2, <1>3, <1>4, <1>5, <1>7
  DEF Next, NodeChanges, Arrive, LookHeard, TimesOut, Leave, Passed, StatusAt, FetchDone,
      FetchEnds, Finish, CheckLoop, CheckGivesUp
<1> QED BY <1>6, <1>7

-----------------------------------------------------------------------------
(* Sleep.                                                                  *)

\* A step that changes one request and leaves the others' reasons to sleep.
LEMMA OneSleeper ==
  ASSUME TypeOK, NobodySleepsInVain, NEW w \in Waiters, NEW q \in WaitRec,
         wait' = [wait EXCEPT ![w] = q], hbRound' = hbRound,
         \A e \in Externals : ext[e].inflight => ext'[e].inflight,
         q.woken \/ q.pc \notin {"held", "checking"}
         \/ (q.pc = "held" /\ hbRound <= q.after)
         \/ (q.pc = "checking" /\ \E e \in Externals : ext[e].inflight)
  PROVE  NobodySleepsInVain'
<1>1. wait \in [Waiters -> WaitRec]
  BY Types
<1>2. wait'[w] = q /\ \A v \in Waiters : v # w => wait'[v] = wait[v]
  BY <1>1
<1>3. (\E e \in Externals : ext[e].inflight) => \E e \in Externals : ext'[e].inflight
  OBVIOUS
<1> QED BY <1>2, <1>3 DEF NobodySleepsInVain

\* No step puts a request to sleep, or leaves it asleep, for something past.
LEMMA SleepStep ==
  ASSUME TypeOK, WaitersInv, FetchesInv, NobodySleepsInVain, [Next]_vars
  PROVE  NobodySleepsInVain'
<1>1. /\ wait \in [Waiters -> WaitRec] /\ hbRound \in Rounds /\ status \in Rounds
      /\ \A w \in Waiters : wait[w] \in WaitRec
      /\ ext \in [Externals -> ExtRec] /\ current \in Fetches \cup {None}
  BY Types
<1>2. ASSUME NEW n \in Mesh, NEW r \in Rounds, NEW u \in BOOLEAN, NodeChanges(n, r, u)
      PROVE  NobodySleepsInVain'
  <2>1. /\ hbRound' = IF r > hbRound THEN r ELSE hbRound
        /\ wait' = IF r > hbRound THEN Woken("held") ELSE wait
        /\ ext' = ext
    BY <1>2 DEF NodeChanges, NoteRound
  <2>2. CASE r > hbRound
    <3>1. \A w \in Waiters : /\ wait'[w].pc = wait[w].pc
                             /\ wait'[w].woken = (wait[w].woken \/ wait[w].pc = "held")
      BY <1>1, <2>1, <2>2, WokenFields
    <3> QED BY <2>1, <3>1 DEF NobodySleepsInVain
  <2>3. CASE ~(r > hbRound)
    BY <2>1, <2>3 DEF NobodySleepsInVain
  <2> QED BY <2>2, <2>3
<1>3. ASSUME NEW w \in Waiters, NEW r \in Rounds, Arrive(w, r) PROVE NobodySleepsInVain'
  <2>1. hbRound' = hbRound /\ ext' = ext
    BY <1>3 DEF Arrive
  <2>2. PICK q \in WaitRec : /\ wait' = [wait EXCEPT ![w] = q]
                             /\ q.pc \in {"held", "check"} /\ (q.pc = "held" => q.woken)
    BY <1>1, <1>3, ArriveRec
  <2> QED BY <2>1, <2>2, OneSleeper
<1>4. ASSUME NEW w \in Waiters, LookHeard(w) PROVE NobodySleepsInVain'
  <2> DEFINE q == Looking(w)
  <2>1. /\ wait' = [wait EXCEPT ![w] = q] /\ q \in WaitRec
        /\ q.pc \in {"held", "status", "passed"}
        /\ q.pc = "held" <=> hbRound <= wait[w].after
        /\ q.after = wait[w].after
    BY <1>1, <1>4, LookHeardRec
  <2>2. hbRound' = hbRound /\ ext' = ext
    BY <1>4 DEF LookHeard
  <2> HIDE DEF q
  <2> QED BY <2>1, <2>2, OneSleeper
<1>5. ASSUME NEW w \in Waiters, TimesOut(w) PROVE NobodySleepsInVain'
  <2>1. hbRound' = hbRound /\ ext' = ext
    BY <1>5 DEF TimesOut
  <2>2. wait' = [wait EXCEPT ![w] = TimingOut(w)] /\ TimingOut(w) \in WaitRec /\ TimingOut(w).pc = "status"
    BY <1>1, <1>5, TimesOutRec
  <2> QED BY <2>1, <2>2, OneSleeper
<1>6. ASSUME NEW w \in Waiters, wait' = Over(w), hbRound' = hbRound, ext' = ext
      PROVE  NobodySleepsInVain'
  <2>1. wait' = [wait EXCEPT ![w] = NoWait]
    BY <1>6 DEF Over
  <2> QED BY <1>6, <2>1, NoWaitFields, OneSleeper
<1>7. ASSUME NEW w \in Waiters, Passed(w) PROVE NobodySleepsInVain'
  <2>1. hbRound' = hbRound /\ ext' = ext
    BY <1>7 DEF Passed
  <2>2. PICK q \in WaitRec : wait' = [wait EXCEPT ![w] = q] /\ q.pc \in {"done", "check"}
    BY <1>1, <1>7, PassedRec
  <2> QED BY <2>1, <2>2, OneSleeper
<1>8. ASSUME NEW w \in Waiters, StatusAt(w) PROVE NobodySleepsInVain'
  <2>1. hbRound' = hbRound /\ ext' = ext
    BY <1>8 DEF StatusAt
  <2>2. ASSUME wait' = Answered(w, status) PROVE NobodySleepsInVain'
    <3>1. PICK q \in WaitRec : Answered(w, status) = [wait EXCEPT ![w] = q] /\ q.pc = "done"
      BY <1>1, OverRec
    <3> QED BY <2>1, <2>2, <3>1, OneSleeper
  <2>3. ASSUME NEW g \in Fetches, wait' = [wait EXCEPT ![w] = Fetching(w, g)]
        PROVE  NobodySleepsInVain'
    <3>1. Fetching(w, g) \in WaitRec /\ Fetching(w, g).pc = "fetching"
      BY <1>1, FetchingRec
    <3> QED BY <2>1, <2>3, <3>1, OneSleeper
  <2> QED BY <1>8, <2>2, <2>3, StatusAtCases
<1>9. ASSUME NEW w \in Waiters, CheckExternals(w) PROVE NobodySleepsInVain'
  <2>1. hbRound' = hbRound
    BY <1>9 DEF CheckExternals
  <2>2. wait' = [wait EXCEPT ![w] = Checking(w)] /\ Checking(w) \in WaitRec /\ Checking(w).woken
    BY <1>1, <1>9, CheckExternalsRec
  <2>3. \A e \in Externals : ext[e].inflight => ext'[e].inflight
    BY <1>9, StartedFields
  <2> QED BY <2>1, <2>2, <2>3, OneSleeper
<1>10. ASSUME NEW w \in Waiters, CheckLoop(w) PROVE NobodySleepsInVain'
  <2>1. hbRound' = hbRound /\ ext' = ext
    BY <1>10 DEF CheckLoop
  <2>2. PICK q \in WaitRec : /\ wait' = [wait EXCEPT ![w] = q]
                             /\ \/ q = NoWait
                                \/ q.pc = "checking" /\ \E e \in Externals : ext[e].inflight
    BY <1>10, CheckLoopRec
  <2> QED BY <2>1, <2>2, NoWaitFields, OneSleeper
<1>11. ASSUME NEW w \in Waiters, NEW late \in BOOLEAN, FetchDone(w, late)
       PROVE  NobodySleepsInVain'
  <2>1. hbRound' = hbRound /\ ext' = ext
    BY <1>11 DEF FetchDone
  <2>2. PICK q \in WaitRec : wait' = [wait EXCEPT ![w] = q] /\ q.pc \in {"done", "check"}
    BY <1>11, FetchDoneRec
  <2> QED BY <2>1, <2>2, OneSleeper
<1>12. ASSUME NEW e \in Externals, NEW ok \in BOOLEAN, CheckEnds(e, ok) PROVE NobodySleepsInVain'
  <2>1. hbRound' = hbRound /\ wait' = Woken("checking")
    BY <1>12 DEF CheckEnds
  <2>2. \A w \in Waiters : /\ wait'[w].pc = wait[w].pc /\ wait'[w].after = wait[w].after
                           /\ wait'[w].woken = (wait[w].woken \/ wait[w].pc = "checking")
    BY <1>1, <2>1, WokenFields
  <2> QED BY <2>1, <2>2 DEF NobodySleepsInVain
<1>13. CASE Tick
  <2>1. wait' = wait /\ hbRound' = hbRound
    BY <1>13 DEF Tick
  <2>2. \A e \in Externals : ext'[e].inflight = ext[e].inflight
    BY <1>13, TickFields
  <2> QED BY <2>1, <2>2 DEF NobodySleepsInVain
<1>14. CASE UNCHANGED <<wait, hbRound, ext>>
  BY <1>14 DEF NobodySleepsInVain
<1>15. CASE \E w \in Waiters : Leave(w) \/ CheckGivesUp(w)
  BY <1>6, <1>15 DEF Leave, CheckGivesUp
<1>16. CASE \E g \in Fetches, r \in Rounds, ok \in BOOLEAN : FetchEnds(g, r, ok)
  BY <1>14, <1>16 DEF FetchEnds, Finish
<1>17. CASE UNCHANGED vars
  BY <1>14, <1>17 DEF vars
<1>18. CASE Next
  BY <1>2, <1>3, <1>4, <1>5, <1>7, <1>8, <1>9, <1>10, <1>11, <1>12, <1>13, <1>15, <1>16, <1>18
  DEF Next
<1> QED BY <1>17, <1>18

-----------------------------------------------------------------------------
(* Theorems.                                                               *)

LEMMA WaitsInit == Init => WaitsInv
<1> SUFFICES ASSUME Init PROVE WaitsInv
  OBVIOUS
<1>1. 0 \in Rounds
  BY WaitAssumption DEF Rounds
<1>2. NoFetch \in FetchRec
  BY <1>1 DEF NoFetch, FetchRec
<1>3. NeverChecked \in ExtRec /\ NeverChecked.running = 0 /\ ~NeverChecked.inflight
  BY AgeCapIsNat DEF NeverChecked, ExtRec
<1>4. TypeOK
  BY <1>1, <1>2, <1>3, NoWaitFields, Types DEF Init
<1>5. WaitersInv
  BY NoWaitFields, Resting DEF Init, WaitersInv
<1>6. FetchesInv
  BY DEF Init, FetchesInv, CurrentRuns, NewestIsShared
<1>7. ChecksInv
  BY <1>3 DEF Init, ChecksInv
<1>8. NobodySleepsInVain
  BY NoWaitFields DEF Init, NobodySleepsInVain
<1> QED BY <1>4, <1>5, <1>6, <1>7, <1>8 DEF WaitsInv

\* The invariant holds in every behaviour: every request holds at most a fetch that
\* serves it, the current fetch runs, and checks are counted by their flag.
THEOREM WaitsInvariant == Spec => []WaitsInv
<1>1. WaitsInv /\ [Next]_vars => WaitsInv'
  BY TypeStep, WaitersStep, FetchesStep, ChecksStep, SleepStep DEF WaitsInv
<1> QED BY <1>1, WaitsInit, PTL DEF Spec

\* Types hold of every behaviour, for any set of requests, nodes and fetches.
THEOREM HeldWaitsTypeCorrect == Spec => []TypeOK
<1>1. WaitsInv => TypeOK
  BY DEF WaitsInv
<1> QED BY <1>1, WaitsInvariant, PTL

\* No client whose wait did not time out is ever given a status at or before the
\* round it named, whoever fetched it and for whom (statusAt).
THEOREM StatusIsPastHolds == Spec => []StatusIsPast
<1>1. WaitsInv => StatusIsPast
  BY DEF WaitsInv, WaitersInv, Waiting, StatusIsPast
<1> QED BY <1>1, WaitsInvariant, PTL

\* An external sees one check at a time, and the fetch begun last can be joined
\* for as long as it runs, however many requests there are (checkExternals,
\* statusAt, fetchStatus).
THEOREM WorkIsSharedHolds == Spec => []WorkIsShared
<1>1. WaitsInv => WorkIsShared
  BY DEF WaitsInv, ChecksInv, FetchesInv, WorkIsShared, OneCheckAtATime
<1> QED BY <1>1, WaitsInvariant, PTL

\* Nobody is left asleep for a round already reported or for a check already over
\* (noteRoundLocked, WaitForHeartbeatRound, checkExternals).
THEOREM NobodySleepsInVainHolds == Spec => []NobodySleepsInVain
<1>1. WaitsInv => NobodySleepsInVain
  BY DEF WaitsInv
<1> QED BY <1>1, WaitsInvariant, PTL
=============================================================================
