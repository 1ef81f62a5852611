------------------------------ MODULE HeldWaits ------------------------------
(***************************************************************************)
(* wait-for-block-after: requests held until a node is past a round        *)
(* (handlePeerWait, handleBalancerWait), the status fetched once for all   *)
(* of them (statusAt, fetchStatus), and the checks of the externals that a *)
(* request falls back to when the mesh cannot serve it (checkExternals).   *)
(* What becomes of a request that is forwarded is modelled by Attempts,    *)
(* what the directory knows by PeerDirectory, and the waits that the local *)
(* node can serve by Monitor.                                              *)
(***************************************************************************)
EXTENDS Integers, FiniteSets

CONSTANTS
  Waiters,     \* requests held at a time
  Mesh,        \* the nodes of the mesh, the local one included
  Externals,   \* the external upstreams
  Fetches,     \* status fetches at a time
  None,        \* no fetch
  MaxRound,    \* bound on rounds
  HealthCheck, \* how long an external's check is valid
  Debounce     \* externalDebounce

ASSUME WaitAssumption ==
  /\ MaxRound \in Nat /\ HealthCheck \in Nat /\ Debounce \in Nat
  /\ None \notin Fetches \cup Waiters

VARIABLES
  balancer, \* the Balancer option
  node,     \* the nodes' last rounds, and whether they may serve requests
  hbRound,  \* the highest round reported (Directory.hbRound)
  wait,     \* the held requests
  fetch,    \* the status fetches
  current,  \* Router.statusFetch
  status,   \* the round of Router.status, 0 for none
  ext,      \* the externals (extState)
  newest    \* history: the fetch that was started last, while it runs

vars == <<balancer, node, hbRound, wait, fetch, current, status, ext, newest>>

Rounds == 0 .. MaxRound

\* The longest age of a check that makes a difference.
AgeCap == IF HealthCheck >= Debounce THEN HealthCheck + 1 ELSE Debounce

\* after is the round to pass; woken, that the request has not looked yet or that
\* the channel it then read has been closed; seen, the round read with it; timed, that the wait timed out; f, the
\* fetch joined; stale, that the client was given a status it already had.
NoWait == [pc |-> "done", after |-> 0, woken |-> FALSE, seen |-> 0, timed |-> FALSE,
           f |-> None, stale |-> FALSE]

NoFetch == [pc |-> "off", want |-> 0, round |-> 0]

\* An external never checked is one whose check has long expired.
NeverChecked == [inflight |-> FALSE, running |-> 0, ok |-> FALSE, age |-> AgeCap]

Init ==
  /\ balancer \in BOOLEAN
  /\ node = [n \in Mesh |-> [round |-> 0, usable |-> FALSE]]
  /\ hbRound = 0
  /\ wait = [w \in Waiters |-> NoWait]
  /\ fetch = [f \in Fetches |-> NoFetch]
  /\ current = None
  /\ status = 0
  /\ ext = [e \in Externals |-> NeverChecked]
  /\ newest = None

-----------------------------------------------------------------------------
(* The nodes.                                                              *)

\* A channel is closed: whoever has read it and sleeps on it is woken.
Woken(asleep) ==
  [w \in Waiters |-> IF wait[w].pc = asleep THEN [wait[w] EXCEPT !.woken = TRUE] ELSE wait[w]]

\* (mutant) waiters are woken only when the round jumps by more than one
NoteNextRound(r) ==
  /\ hbRound' = IF r > hbRound THEN r ELSE hbRound
  /\ wait' = IF r > hbRound + 1 THEN Woken("held") ELSE wait

\* noteRoundLocked
NoteRound(r) ==
  /\ hbRound' = IF r > hbRound THEN r ELSE hbRound
  /\ wait' = IF r > hbRound THEN Woken("held") ELSE wait

\* A heartbeat, or the local monitor, shows a node at another round, or usable or
\* not.
NodeChanges(n, r, usable) ==
  /\ r >= node[n].round
  /\ node[n] # [round |-> r, usable |-> usable]
  /\ node' = [node EXCEPT ![n] = [round |-> r, usable |-> usable]]
  /\ NoteRound(r)
  /\ UNCHANGED <<balancer, fetch, current, status, ext, newest>>

-----------------------------------------------------------------------------
(* The wait.                                                               *)

UsableMesh == {n \in Mesh : node[n].usable}

\* Some node may serve requests: what worthWaiting asks, and what pick asks when a
\* request is forwarded.
MeshServes == UsableMesh # {}

\* The request of w is over: forwarded, refused, or answered with a status.
Over(w) == [wait EXCEPT ![w] = NoWait]
Answered(w, round) == [wait EXCEPT ![w] = [NoWait EXCEPT !.stale = ~wait[w].timed /\ round <= wait[w].after]]

\* forwardNow: forwarded within the mesh, or after a check of the externals.
Forwarded(w) ==
  IF MeshServes THEN Over(w)
  ELSE [wait EXCEPT ![w] = [NoWait EXCEPT !.pc = "check", !.after = wait[w].after]]

\* handlePeerWait or handleBalancerWait: without a node worth waiting for, only a
\* balancer holds the request.
Arrive(w, after) ==
  LET q == [NoWait EXCEPT !.after = after, !.seen = hbRound] IN
  /\ wait[w].pc = "done"
  /\ wait' = [wait EXCEPT ![w] =
       IF balancer \/ MeshServes THEN [q EXCEPT !.pc = "held", !.woken = TRUE]
       ELSE [q EXCEPT !.pc = "check", !.seen = 0]]
  /\ UNCHANGED <<balancer, node, hbRound, fetch, current, status, ext, newest>>

\* WaitForHeartbeatRound reads the round and its channel, at first and whenever
\* the channel it has read is closed.
LookHeard(w) ==
  /\ wait[w].pc = "held" /\ wait[w].woken
  /\ wait' = [wait EXCEPT ![w].pc = IF hbRound <= wait[w].after THEN "held"
                                    ELSE IF balancer THEN "status" ELSE "passed",
                          ![w].woken = FALSE, ![w].seen = hbRound]
  /\ UNCHANGED <<balancer, node, hbRound, fetch, current, status, ext, newest>>

\* WaitTimeout: a status is fetched all the same.
TimesOut(w) ==
  /\ wait[w].pc = "held"
  /\ wait' = [wait EXCEPT ![w].pc = "status", ![w].timed = TRUE]
  /\ UNCHANGED <<balancer, node, hbRound, fetch, current, status, ext, newest>>

\* Nobody but, perhaps, w holds fetch f.
Alone(f, w) == \A v \in Waiters \ {w} : wait[v].f # f

\* The fetches once w holds none: a finished one that nobody holds is gone.
Released(w) ==
  [f \in Fetches |->
     IF fetch[f].pc \in {"ok", "failed"} /\ wait[w].f = f /\ Alone(f, w) THEN NoFetch ELSE fetch[f]]

\* The client leaves; whatever the handler does then, nobody sees.
Leave(w) ==
  /\ wait[w].pc # "done"
  /\ wait' = Over(w)
  /\ fetch' = Released(w)
  /\ UNCHANGED <<balancer, node, hbRound, current, status, ext, newest>>

\* The round has been passed, and the agent is no balancer: the request is
\* forwarded to a node past it, or to any.
Passed(w) ==
  LET past == {n \in UsableMesh : node[n].round > wait[w].after} IN
  /\ wait[w].pc = "passed"
  /\ wait' = IF past # {} THEN Over(w) ELSE Forwarded(w)
  /\ UNCHANGED <<balancer, node, hbRound, fetch, current, status, ext, newest>>

-----------------------------------------------------------------------------
(* The status.                                                             *)

\* (mutant) whatever fetch there is will do
JoinsAny(r) == current # None

\* A fetch under way that will do for round r.
Joins(r) == current # None /\ fetch[current].want >= r

\* A fetch that neither runs nor is held by a waiter.
Unused(f) == fetch[f].pc = "off"

\* statusAt: the last status when it is recent enough, a fetch under way, or one
\* of its own, which takes the place of the one under way.
StatusAt(w) ==
  LET r == wait[w].seen IN
  /\ wait[w].pc = "status"
  /\ IF status > 0 /\ status >= r
     THEN wait' = Answered(w, status) /\ UNCHANGED <<fetch, current, newest>>
     ELSE IF Joins(r)
     THEN /\ wait' = [wait EXCEPT ![w].pc = "fetching", ![w].f = current]
          /\ UNCHANGED <<fetch, current, newest>>
     ELSE LET f == CHOOSE f \in Fetches : Unused(f) IN
            /\ \E g \in Fetches : Unused(g)
            /\ fetch' = [fetch EXCEPT ![f] = [pc |-> "run", want |-> r, round |-> 0]]
            /\ current' = f /\ newest' = f
            /\ wait' = [wait EXCEPT ![w].pc = "fetching", ![w].f = f]
  /\ UNCHANGED <<balancer, node, hbRound, status, ext>>

\* Router.statusFetch after fetch f.
Cleared(f) == IF current = f THEN None ELSE current

\* The end of fetchStatus, with a status at round r or an error.
Finish(f, r, ok) ==
  /\ fetch' = [fetch EXCEPT ![f] = IF Alone(f, None) THEN NoFetch
                                   ELSE [NoFetch EXCEPT !.pc = IF ok THEN "ok" ELSE "failed",
                                                        !.round = r]]
  /\ current' = Cleared(f)
  /\ status' = IF ok /\ r > status THEN r ELSE status
  /\ newest' = IF newest = f THEN None ELSE newest
  /\ UNCHANGED <<balancer, node, hbRound, wait, ext>>

\* fetchStatus: a node at the round answers with its round of now, or there is
\* none, or none of them answers.  That the answer is at the round or after it
\* is assumed of the nodes, which announced it: a ledger does not go back.
\* getStatus takes whatever round it is told.
FetchEnds(f, r, ok) ==
  /\ fetch[f].pc = "run"
  /\ IF ok THEN r >= fetch[f].want /\ \E n \in Mesh : node[n].round >= fetch[f].want ELSE r = 0
  /\ Finish(f, r, ok)

\* The waiter has the result of the fetch, or its StatusTimeout (late).
FetchDone(w, late) ==
  LET f == wait[w].f IN
  /\ wait[w].pc = "fetching"
  /\ late \/ fetch[f].pc \in {"ok", "failed"}
  /\ wait' = IF ~late /\ fetch[f].pc = "ok" THEN Answered(w, fetch[f].round)
             ELSE Forwarded(w)
  /\ fetch' = Released(w)
  /\ UNCHANGED <<balancer, node, hbRound, current, status, ext, newest>>

-----------------------------------------------------------------------------
(* The externals.                                                          *)

\* extState.fresh
Fresh(e) == ext[e].ok /\ ext[e].age <= HealthCheck

\* (mutant) a check that is due is started whether or not one is under way
StartsAlways(e) == ext[e].age >= Debounce \/ (ext[e].ok /\ ~Fresh(e))

\* checkExternals starts a check of these.
Starts(e) ==
  /\ ~ext[e].inflight
  /\ ext[e].age >= Debounce \/ (ext[e].ok /\ ~Fresh(e))

\* checkExternals, up to its loop.
CheckExternals(w) ==
  /\ wait[w].pc = "check"
  /\ wait' = [wait EXCEPT ![w].pc = "checking", ![w].woken = TRUE]
  /\ ext' = [e \in Externals |->
       IF Starts(e) THEN [ext[e] EXCEPT !.inflight = TRUE, !.running = @ + 1] ELSE ext[e]]
  /\ UNCHANGED <<balancer, node, hbRound, fetch, current, status, newest>>

\* The loop of checkExternals, with externalsLocked: forwarded to an external
\* that is usable, refused when no check is under way, or asleep.
CheckLoop(w) ==
  /\ wait[w].pc = "checking" /\ wait[w].woken
  /\ wait' = IF \E e \in Externals : Fresh(e) THEN Over(w)
             ELSE IF \A e \in Externals : ~ext[e].inflight THEN Over(w)
             ELSE [wait EXCEPT ![w].woken = FALSE]
  /\ UNCHANGED <<balancer, node, hbRound, fetch, current, status, ext, newest>>

\* The bound on the request ends the wait for a check.
CheckGivesUp(w) ==
  /\ wait[w].pc = "checking"
  /\ wait' = Over(w)
  /\ UNCHANGED <<balancer, node, hbRound, fetch, current, status, ext, newest>>

\* checkExternal has its result, which wakes everyone.
CheckEnds(e, ok) ==
  /\ ext[e].running > 0
  /\ ext' = [ext EXCEPT ![e] = [inflight |-> FALSE, running |-> @.running - 1, ok |-> ok,
                                age |-> 0]]
  /\ wait' = Woken("checking")
  /\ UNCHANGED <<balancer, node, hbRound, fetch, current, status, newest>>

\* A unit of time passes.
Tick ==
  /\ \E e \in Externals : ext[e].age < AgeCap
  /\ ext' = [e \in Externals |-> [ext[e] EXCEPT !.age = IF @ < AgeCap THEN @ + 1 ELSE @]]
  /\ UNCHANGED <<balancer, node, hbRound, wait, fetch, current, status, newest>>

Next ==
  \/ \E n \in Mesh, r \in Rounds, usable \in BOOLEAN : NodeChanges(n, r, usable)
  \/ \E w \in Waiters, r \in Rounds : Arrive(w, r)
  \/ \E w \in Waiters : LookHeard(w) \/ TimesOut(w) \/ Leave(w)
  \/ \E w \in Waiters : Passed(w) \/ StatusAt(w) \/ CheckExternals(w) \/ CheckLoop(w) \/ CheckGivesUp(w)
  \/ \E w \in Waiters, late \in BOOLEAN : FetchDone(w, late)
  \/ \E f \in Fetches, r \in Rounds, ok \in BOOLEAN : FetchEnds(f, r, ok)
  \/ \E e \in Externals, ok \in BOOLEAN : CheckEnds(e, ok)
  \/ Tick

Spec == Init /\ [][Next]_vars

\* A step of the handler of w.
Goes(w) ==
  LookHeard(w) \/ Passed(w) \/ StatusAt(w) \/ FetchDone(w, FALSE) \/ CheckExternals(w) \/ CheckLoop(w)

\* Every goroutine that can go on does, a fetch ends by an answer or a timeout,
\* and so does a check.  Of the waiters' own timeouts only the bound on a request
\* that waits for a check is relied on: while others keep asking for checks,
\* some check may always be under way.
Fairness ==
  /\ \A w \in Waiters : WF_vars(Goes(w)) /\ SF_vars(CheckGivesUp(w))
  /\ \A f \in Fetches :
       WF_vars(\E r \in Rounds, ok \in BOOLEAN : FetchEnds(f, r, ok))
  /\ \A e \in Externals : WF_vars(\E ok \in BOOLEAN : CheckEnds(e, ok))

FairSpec == Spec /\ Fairness

-----------------------------------------------------------------------------
(* Properties.                                                             *)

\* Every variable has its type.
TypeOK ==
  /\ balancer \in BOOLEAN
  /\ node \in [Mesh -> [round : Rounds, usable : BOOLEAN]]
  /\ hbRound \in Rounds
  /\ wait \in [Waiters ->
       [pc : {"done", "held", "passed", "status", "fetching", "check", "checking"},
        after : Rounds, woken : BOOLEAN, seen : Rounds, timed : BOOLEAN,
        f : Fetches \cup {None}, stale : BOOLEAN]]
  /\ fetch \in [Fetches -> [pc : {"off", "run", "ok", "failed"}, want : Rounds, round : Rounds]]
  /\ current \in Fetches \cup {None} /\ newest \in Fetches \cup {None}
  /\ status \in Rounds
  /\ ext \in [Externals -> [inflight : BOOLEAN, running : Nat, ok : BOOLEAN, age : 0 .. AgeCap]]

\* A client that waited for a block, and whose wait did not time out, is never
\* given a status at or before the round it named, whoever fetched it and for
\* whom (statusAt).
StatusIsPast == \A w \in Waiters : ~wait[w].stale

\* The fetch begun last, for the highest round wanted, can be joined for as long
\* as it runs: an older one that ends does not take its place away, so that
\* waiters for one round share one fetch (statusAt, fetchStatus).
NewestIsShared ==
  newest # None => current = newest

\* However many requests find the mesh unable to serve them, an external sees
\* one check at a time (checkExternals, checkExternal).
OneCheckAtATime == \A e \in Externals : ext[e].running <= 1

\* Requests that want the same thing at the same time share it: a herd of them
\* sends each external one check and the mesh one status request.
WorkIsShared == OneCheckAtATime /\ NewestIsShared

\* Nobody sleeps for something that has already happened: whoever is asleep and
\* not yet woken waits for a round still to come, or for a check under way
\* (noteRoundLocked, checkExternal, and the loops that read the
\* channel and the state under one lock).
NobodySleepsInVain ==
  \A w \in Waiters : ~wait[w].woken =>
    /\ wait[w].pc = "held" => hbRound <= wait[w].after
    /\ wait[w].pc = "checking" => \E e \in Externals : ext[e].inflight

\* A wait whose round is passed ends, without its timeout and without the
\* client's help: no wake-up is lost between a look at the round and the sleep,
\* and no fetch or check is waited for in vain (WaitForHeartbeatRound,
\* statusAt, checkExternals).
PassedWaitsEnd ==
  \A w \in Waiters :
    wait[w].pc # "done" /\ hbRound > wait[w].after ~> wait[w].pc = "done"
==============================================================================
