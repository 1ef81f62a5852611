------------------------------ MODULE Attempts ------------------------------
(***************************************************************************)
(* A request's attempts at upstreams: handleDefault, forwardSelected and   *)
(* forward of internal/app/router.go, over the StatsBook of                *)
(* internal/app/stats.go that all requests share.                          *)
(*                                                                         *)
(* Requests run concurrently.  Each may lose its client, run out of time,  *)
(* or be cancelled by the rate limiter between any two of its steps.  What *)
(* an upstream can serve beyond what the StatsBook says of it (health,     *)
(* rounds, capabilities) is any set, and its score any order.              *)
(***************************************************************************)
EXTENDS Integers, Sequences, FiniteSets

CONSTANTS
  Requests,     \* the requests served at a time: one that is done makes room
  Kinds,        \* the kinds of request in it
  Mesh,         \* the local node and the peers
  Externals,    \* the external upstreams
  RetryBudget,  \* further upstreams tried; negative for every eligible one
  Threshold,    \* consecutive failures that open the breaker
  OpenFor,      \* how long it stays open, and a throttled upstream is avoided
  BusyFor,      \* how long a busy upstream is spared heavy requests
  MaxAborts     \* bound on the attempts at an upstream that are aborted

ASSUME AttemptsAssumption ==
  /\ Kinds \subseteq {"plain", "versions", "deltas", "simulate"}
  /\ Mesh \cap Externals = {}
  /\ IsFiniteSet(Mesh) /\ IsFiniteSet(Externals)
  /\ RetryBudget \in Int
  /\ Threshold \in Nat \ {0}
  /\ OpenFor \in Nat \ {0}
  /\ BusyFor \in Nat \ {0}
  /\ MaxAborts \in Nat

VARIABLES
  stats,  \* what the StatsBook holds of each upstream; instants as time left
  req     \* where each request is

vars == <<stats, req>>

Upstreams == Mesh \cup Externals

\* RequestClass.Heavy: the nodes keep slots for these.
Heavy == {"deltas", "simulate"}

\* The nodes answer 504 to these past a time limit of their own.
TimeLimited == {"versions", "deltas", "simulate"}

\* What Forward returns: an answer passed on to the client ...
Passed == {"ok", "throttled", "error", "limit"}
\* ... or a failure withheld from it.  "limit" is a 504 of a node's own time
\* limit, "full" a 503 with Retry-After, "timeout" the attempt's UpstreamTimeout
\* and "overdue" the end of the request's own time.
Withheld == {"rejected", "full", "unreachable", "timeout", "overdue", "cancelled"}

Outcomes == Passed \cup Withheld

\* upstreamStats of an upstream never used.
NewStats == [inflight |-> 0, failures |-> 0, probing |-> FALSE, open |-> 0, throttled |-> 0, busy |-> 0]

\* tries are the upstreams to try in order, begun counts those begun; cause is
\* why the request's context ended, first cause first.  hurried is history: the
\* attempt under way was begun without the time for one.
NoRequest == [pc |-> "new", kind |-> "plain", replay |-> TRUE, tries |-> <<>>, begun |-> 0,
              hurried |-> FALSE, last |-> "none", fell |-> FALSE, gone |-> FALSE, short |-> FALSE,
              cause |-> "none", sent |-> 0, answer |-> "none"]

Init ==
  /\ stats = [u \in Upstreams |-> NewStats]
  /\ req = [r \in Requests |-> NoRequest]

-----------------------------------------------------------------------------
(* Selection.                                                              *)

\* Eligible, as far as the StatsBook decides it.
Usable(kind) ==
  {u \in Upstreams : /\ stats[u].open = 0
                     /\ stats[u].throttled = 0
                     /\ ~(stats[u].busy > 0 /\ kind \in Heavy)}

\* Select: the eligible upstreams in some order, externals last.
Orders(es) ==
  {s \in [1 .. Cardinality(es) -> es] :
     \A i, j \in 1 .. Cardinality(es) :
       i < j => s[i] # s[j] /\ ~(s[i] \in Externals /\ s[j] \in Mesh)}

\* forwardSelected: the selection, cut to the retry budget, or to one when the
\* body is too large to be sent again.
Tries(s, replay) ==
  LET most == IF ~replay THEN 1 ELSE IF RetryBudget >= 0 THEN 1 + RetryBudget ELSE Len(s)
  IN  SubSeq(s, 1, IF most < Len(s) THEN most ELSE Len(s))

\* handleDefault with a selection in hand, or none at the first look.
Arrive(r, kind, replay, s) ==
  /\ req[r].pc \in {"new", "done"}
  /\ req' = [req EXCEPT ![r] = [NoRequest EXCEPT
                !.pc = IF s = <<>> THEN "pick" ELSE "try",
                !.kind = kind, !.replay = replay, !.tries = Tries(s, replay)]]
  /\ UNCHANGED stats

\* The handler returns: only what the client saw remains.
Return(q) == [NoRequest EXCEPT !.pc = "done", !.gone = q.gone, !.cause = q.cause,
                               !.sent = q.sent, !.answer = q.answer]

\* The handler answers the client itself and returns.
Answer(q, answer) == [Return(q) EXCEPT !.sent = @ + 1, !.answer = answer]

\* pick, its second look after checkExternals: nothing can serve the request.
CannotServe(r) ==
  /\ req[r].pc = "pick"
  /\ req' = [req EXCEPT ![r] = Answer(@, IF @.cause = "quota" THEN "quota" ELSE "unroutable")]
  /\ UNCHANGED stats

\* ... or something can.
PickAgain(r, s) ==
  /\ req[r].pc = "pick"
  /\ s # <<>>
  /\ req' = [req EXCEPT ![r].pc = "try", ![r].tries = Tries(s, req[r].replay)]
  /\ UNCHANGED stats

-----------------------------------------------------------------------------
(* An attempt.                                                             *)

\* timeLeft: the context is not done and an attempt is worth starting.
TimeLeft(q) == q.cause = "none" /\ ~q.short

\* StatsBook.Begin
Begun(u) == [stats EXCEPT ![u].inflight = @ + 1]

\* (mutant) an attempt is begun however little time is left
BeginAnyway(r) ==
  LET q == req[r] IN
  /\ q.pc = "try"
  /\ stats' = Begun(q.tries[q.begun + 1])
  /\ req' = [req EXCEPT ![r] = [q EXCEPT !.pc = "forward", !.begun = q.begun + 1,
                                        !.hurried = ~TimeLeft(q)]]

\* forwardSelected starts the next attempt; one after the first needs time left.
Begin(r) ==
  LET q == req[r] IN
  /\ q.pc = "try"
  /\ q.begun > 0 => TimeLeft(q)
  /\ stats' = Begun(q.tries[q.begun + 1])
  /\ req' = [req EXCEPT ![r] = [q EXCEPT !.pc = "forward", !.begun = q.begun + 1,
                                        !.hurried = ~TimeLeft(q)]]

\* ... and gives up on the others when there is none.
BreakOff(r) ==
  LET q == req[r] IN
  /\ q.pc = "try"
  /\ q.begun > 0 /\ ~TimeLeft(q)
  /\ req' = [req EXCEPT ![r].pc = "spent"]
  /\ UNCHANGED stats

Upstream(q) == q.tries[q.begun]

\* forward: whether the outcome says anything about the upstream.  An attempt
\* that its own timeout ended before the limiter cancelled the request does, and
\* so does one that the request's own deadline cut.
Counts(q, out) ==
  /\ ~q.gone
  /\ q.cause = "quota" => out = "timeout"
  /\ ~(out = "limit" /\ q.kind \in TimeLimited)

Capped(n) == IF n < Threshold THEN n ELSE Threshold

\* StatsBook.Record.  failures is kept up to the threshold: more makes no
\* difference.
Record(s, out) ==
  IF out = "ok" THEN [s EXCEPT !.failures = 0, !.probing = FALSE]
  ELSE LET opens == s.probing \/ s.failures + 1 >= Threshold IN
       [s EXCEPT !.failures = Capped(@ + 1),
                 !.open = IF opens THEN OpenFor ELSE @,
                 !.probing = @ \/ opens,
                 !.throttled = IF out = "throttled" THEN OpenFor ELSE @]

\* StatsBook.Busy, for d: never cut short by a later answer.
Busy(s, d) == [s EXCEPT !.busy = IF d > @ THEN d ELSE @]

\* What forward makes of an outcome in the StatsBook.
Observed(q, s, out, d) ==
  IF ~Counts(q, out) THEN s
  ELSE IF out = "full" /\ q.kind \in Heavy THEN Busy(s, d)
  ELSE Record(s, out)

\* The outcomes an attempt can have: only a time-limited request's 504 is passed
\* on, and only a context that has ended is reported as cancelled or overdue.
Possible(q) ==
  {out \in Outcomes : /\ out = "limit" => q.kind \in TimeLimited
                      /\ out = "overdue" => q.cause = "deadline"
                      /\ out = "cancelled" => q.cause \in {"gone", "quota"}}

\* forward returns; d is the Retry-After of a 503, at most maxBusy.
AttemptEnds(r, out, d) ==
  LET q == req[r]
      u == Upstream(q)
      o == Observed(q, stats[u], out, d)
  IN
  /\ q.pc = "forward"
  /\ out \in Possible(q)
  /\ stats' = [stats EXCEPT ![u] = [o EXCEPT !.inflight = o.inflight - 1]]
  /\ req' = [req EXCEPT ![r].pc = "judge", ![r].last = out, ![r].hurried = FALSE,
                        ![r].sent = IF out \in Passed THEN @ + 1 ELSE @,
                        ![r].answer = IF out \in Passed THEN "upstream" ELSE @]

\* The requests at upstream u.
At(u) == {r \in Requests : req[r].pc = "forward" /\ Upstream(req[r]) = u}

\* The attempts at u that are counted and no longer there.
Aborted(u) == stats[u].inflight - Cardinality(At(u))

\* The copy of a response breaks off, at either end, after its headers went out:
\* the reverse proxy aborts the handler with a panic, through forward.
Abort(r) ==
  /\ req[r].pc = "forward"
  /\ Aborted(Upstream(req[r])) < MaxAborts
  /\ req' = [req EXCEPT ![r] = Answer(@, "aborted")]
  /\ UNCHANGED stats

-----------------------------------------------------------------------------
(* Between attempts.                                                       *)

\* What errors.Is calls a context's deadline, the attempt's or the request's.
DeadlineExceeded == {"timeout", "overdue"}

\* answerFailure
AnswerFailure(q) ==
  IF q.gone THEN Return(q)
  ELSE Answer(q, IF q.last \in DeadlineExceeded THEN "timeout"
                 ELSE IF q.last = "full" /\ q.kind \in Heavy THEN "busy" ELSE "failed")

\* The client has its answer, or has left.
Replied(q) == q.last \in Passed \/ q.gone

\* forwardSelected after an attempt.
Judge(r) ==
  LET q == req[r] IN
  /\ q.pc = "judge"
  /\ req' = [req EXCEPT ![r] =
       IF Replied(q) THEN Return(q)
       ELSE IF q.cause = "quota" THEN Answer(q, "quota")
       ELSE IF q.fell THEN AnswerFailure(q)
       ELSE IF q.kind = "simulate" /\ q.last \in DeadlineExceeded THEN AnswerFailure(q)
       ELSE [q EXCEPT !.pc = IF q.begun < Len(q.tries) THEN "try" ELSE "spent"]]
  /\ UNCHANGED stats

\* (mutant) an external may be tried again
MayFallBackAlways(q) == q.replay /\ TimeLeft(q)

\* externalFallback is of use: no external was among the upstreams tried.
MayFallBack(q) ==
  /\ q.replay /\ TimeLeft(q)
  /\ \A i \in 1 .. Len(q.tries) : q.tries[i] \notin Externals

\* (mutant) the limiter's cancellation between attempts goes unnoticed
GiveUpUntold(q) == AnswerFailure(q)

\* The end of forwardSelected.
GiveUp(q) == IF q.cause = "quota" THEN Answer(q, "quota") ELSE AnswerFailure(q)

\* (mutant) only a request with time left gets to its end
SpentInTime(r) ==
  /\ req[r].pc = "spent"
  /\ TimeLeft(req[r])
  /\ req' = [req EXCEPT ![r] = IF MayFallBack(@) THEN [@ EXCEPT !.pc = "check"] ELSE GiveUp(@)]
  /\ UNCHANGED stats

\* Every upstream has failed: externalFallback asks for the externals' checks.
Spent(r) ==
  /\ req[r].pc = "spent"
  /\ req' = [req EXCEPT ![r] = IF MayFallBack(@) THEN [@ EXCEPT !.pc = "check"] ELSE GiveUp(@)]
  /\ UNCHANGED stats

\* externalFallback finds external e ...
FallBack(r, e) ==
  /\ req[r].pc = "check"
  /\ e \in Usable(req[r].kind)
  /\ TimeLeft(req[r])
  /\ stats' = Begun(e)
  /\ req' = [req EXCEPT ![r].pc = "forward", ![r].tries = Append(@, e),
                        ![r].begun = Len(req[r].tries) + 1, ![r].fell = TRUE]

\* ... or none, or too late.
NoFallBack(r) ==
  /\ req[r].pc = "check"
  /\ req' = [req EXCEPT ![r] = GiveUp(@)]
  /\ UNCHANGED stats

-----------------------------------------------------------------------------
(* The client, the limiter and the clock.                                  *)

Running(r) == req[r].pc \notin {"new", "done"}

\* The client goes away, and its context with it.
ClientLeaves(r) ==
  /\ Running(r) /\ ~req[r].gone
  /\ req' = [req EXCEPT ![r].gone = TRUE, ![r].cause = IF @ = "none" THEN "gone" ELSE @]
  /\ UNCHANGED stats

\* The limiter's tick cancels a simulation.
QuotaRunsOut(r) ==
  /\ Running(r) /\ req[r].kind = "simulate" /\ req[r].cause = "none"
  /\ req' = [req EXCEPT ![r].cause = "quota"]
  /\ UNCHANGED stats

\* RequestTimeout nears, by less than minAttempt, and passes.
TimePasses(r) ==
  /\ Running(r) /\ req[r].cause = "none"
  /\ req' = [req EXCEPT ![r].short = TRUE, ![r].cause = IF req[r].short THEN "deadline" ELSE @]
  /\ UNCHANGED stats

Sooner(n) == IF n > 0 THEN n - 1 ELSE 0

Tick ==
  /\ stats' = [u \in Upstreams |->
       [stats[u] EXCEPT !.open = Sooner(@), !.throttled = Sooner(@), !.busy = Sooner(@)]]
  /\ UNCHANGED req

-----------------------------------------------------------------------------
\* The request's own steps.
Step(r) ==
  \/ CannotServe(r)
  \/ \E es \in SUBSET Usable(req[r].kind) : \E s \in Orders(es) : PickAgain(r, s)
  \/ Begin(r) \/ BreakOff(r)
  \/ \E out \in Outcomes, d \in 1 .. BusyFor : AttemptEnds(r, out, d)
  \/ Abort(r)
  \/ Judge(r) \/ Spent(r)
  \/ \E e \in Externals : FallBack(r, e)
  \/ NoFallBack(r)

Next ==
  \/ \E r \in Requests :
       \/ \E kind \in Kinds, replay \in BOOLEAN : \E es \in SUBSET Usable(kind) :
            \E s \in Orders(es) : Arrive(r, kind, replay, s)
       \/ Step(r)
       \/ ClientLeaves(r) \/ QuotaRunsOut(r) \/ TimePasses(r)
  \/ Tick

Spec == Init /\ [][Next]_vars

\* A handler goes on: an attempt ends by UpstreamTimeout at the latest, a check
\* of the externals by its timeout.
FairSpec == Spec /\ \A r \in Requests : WF_vars(Step(r))

-----------------------------------------------------------------------------
(* Properties.                                                             *)

UpstreamStats ==
  [inflight : Nat, failures : 0 .. Threshold, probing : BOOLEAN, open : 0 .. OpenFor,
   throttled : 0 .. OpenFor, busy : 0 .. BusyFor]

RequestRec ==
  [pc : {"new", "pick", "try", "forward", "judge", "spent", "check", "done"},
   kind : Kinds \cup {"plain"}, replay : BOOLEAN, tries : Seq(Upstreams), begun : Nat,
   hurried : BOOLEAN,
   last : Outcomes \cup {"none"}, fell : BOOLEAN, gone : BOOLEAN, short : BOOLEAN,
   cause : {"none", "gone", "quota", "deadline"}, sent : Nat,
   answer : {"none", "upstream", "aborted", "unroutable", "quota", "timeout", "busy", "failed"}]

\* Every variable has its type; an upstream's requests in flight never go below
\* none.
TypeOK ==
  /\ stats \in [Upstreams -> UpstreamStats]
  /\ req \in [Requests -> RequestRec]

\* No sequence of attempts begins a second response: once anything has reached
\* the client, no other upstream is tried and the router writes nothing of its
\* own (forwardSelected, answerFailure).
OneResponse == \A r \in Requests : req[r].sent <= 1

\* A handler that returns has answered, unless its client left first: whatever
\* attempts failed, in what way, and whatever was cancelled meanwhile
\* (handleDefault, forwardSelected, answerFailure).
EveryoneIsAnswered ==
  \A r \in Requests : req[r].pc = "done" => req[r].sent = 1 \/ req[r].gone

\* A client whose simulation the limiter cut is told so, not that a node failed,
\* at whatever point it was cut (forwardSelected, handleDefault).
QuotaIsTold ==
  \A r \in Requests :
    req[r].pc = "done" /\ req[r].cause = "quota" /\ ~req[r].gone
      => req[r].answer \in {"quota", "upstream", "aborted"}

\* What a client may rely on: one response, never two and never none, and the
\* truth about a simulation that was cut (handleDefault, forwardSelected,
\* answerFailure).
AnsweredTruly == OneResponse /\ EveryoneIsAnswered /\ QuotaIsTold

\* No upstream is tried twice for one request, and no mesh node after an external:
\* every eligible mesh node once, then the externals (Select, externalFallback).
EachOnceMeshFirst ==
  \A r \in Requests : \A i, j \in 1 .. Len(req[r].tries) :
    i < j => /\ req[r].tries[i] # req[r].tries[j]
             /\ ~(req[r].tries[i] \in Externals /\ req[r].tries[j] \in Mesh)

\* What is held against an upstream: not the client's leaving, nor the limiter,
\* nor a node's own limits on heavy requests.
Faults(kind) ==
  {"throttled", "error", "rejected", "unreachable", "timeout", "overdue"}
    \cup (IF kind \in Heavy THEN {} ELSE {"full"})

\* Only what happened at the upstream counts against it, and can open its
\* breaker.  The request's own deadline counts too, but for a retry only when it
\* was begun with the time for an attempt: only the first attempt can be blamed
\* for time it never had (forward, forwardSelected, StatsBook.Record).
BlamelessUpstreams ==
  [][\A u \in Upstreams :
       stats'[u].failures > stats[u].failures \/ stats'[u].open > stats[u].open
         => \E r \in Requests :
              /\ req[r].pc = "forward" /\ req'[r].pc = "judge" /\ Upstream(req[r]) = u
              /\ req'[r].last \in Faults(req[r].kind)
              /\ req'[r].last = "overdue" => req[r].begun = 1 \/ ~req[r].hurried
              /\ ~req[r].gone]_vars

\* Every request comes to an end (handleDefault, forwardSelected).
RequestsEnd == \A r \in Requests : Running(r) ~> ~Running(r)

\* The comment on StatsBook.Begin and README.md, Routing: an upstream's score adds
\* its requests in flight, the ones begun and not done.
InflightIsLoad == \A u \in Upstreams : Aborted(u) = 0
=============================================================================
