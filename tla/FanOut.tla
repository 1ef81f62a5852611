------------------------------- MODULE FanOut -------------------------------
(***************************************************************************)
(* The router's handling of transactions: handleBroadcast and              *)
(* handlePending, which send one request to several nodes and answer with  *)
(* the best of what comes back, and remember which node holds what.        *)
(* A request for which pick finds no upstream is answered at once and      *)
(* changes nothing: it is left out.  Upstreams have URLs of their own.     *)
(***************************************************************************)
EXTENDS TxnPins, Sequences, FiniteSets

CONSTANTS
  Mesh, Externals, \* the upstreams
  Handlers,        \* requests at a time
  Selections,      \* the selections pick comes to: some upstreams in some order
  Odd              \* the further answers of a lookup that are exercised

ASSUME FanAssumption ==
  /\ IsFiniteSet(Nodes) /\ Nodes = Mesh \cup Externals /\ Mesh \cap Externals = {}
  /\ Odd \subseteq {"other", "refused", "withheld"}
  /\ \A s \in Selections : \E k \in 1 .. Cardinality(Nodes) :
       s \in [1 .. k -> Nodes] /\ \A i, j \in 1 .. k : i # j => s[i] # s[j]

VARIABLES
  multi,   \* the MultiBroadcast option
  req,     \* the request of each handler
  failing  \* the last outcome of each node in the StatsBook was a failure

fanVars == <<multi, req, failing>>
vars == <<pinVars, fanVars>>

-----------------------------------------------------------------------------
(* Answers.                                                                *)

Answers == {"ok", "rejected", "notFound", "inPool", "poolError", "confirmed",
            "other", "refused", "withheld", "err"}

\* withheldStatus, or no answer at all
Unanswered == {"withheld", "err"}

\* fanRank
FanRank(a) == IF a = "err" THEN 0 ELSE IF a = "withheld" THEN 1 ELSE 2

\* pendingRank; refused is a 500 or a 429.
PendingRank(a) ==
  IF a \in {"err", "withheld", "refused"} THEN 0
  ELSE IF a = "other" THEN 1
  ELSE IF a = "notFound" THEN 2
  ELSE IF a = "inPool" THEN 3
  ELSE IF a = "poolError" THEN 4 ELSE 5

\* Outcome.Failed
Failed(a) == a \in {"err", "withheld", "refused"}

\* The answers of a node that holds the transaction.
Held == {"ok", "inPool", "poolError", "confirmed"}

\* What a node may answer: a transaction is taken or rejected, and a lookup finds
\* it in any state, at any node, at any time.
Replies(kind) ==
  IF kind = "broadcast" THEN {"ok", "rejected"} \cup Unanswered
  ELSE {"notFound", "inPool", "poolError", "confirmed", "err"} \cup Odd

-----------------------------------------------------------------------------
(* Requests.                                                               *)

\* order are the upstreams of the selection; task is where the fan-out to each
\* stands, or its answer; results is the channel; at is the node of an attempt
\* made alone; chosen is the best result so far; left counts those to come.
NoRequest == [pc |-> "idle", kind |-> "broadcast", tx |-> None, ctx |-> "live",
              order |-> <<>>, task |-> [n \in Nodes |-> "off"], results |-> <<>>,
              at |-> None, chosen |-> None, left |-> 0, grace |-> FALSE, told |-> "none"]

Init ==
  /\ PinsInit
  /\ multi \in BOOLEAN
  /\ req = [h \in Handlers |-> NoRequest]
  /\ failing = [n \in Nodes |-> FALSE]

In(s) == {s[i] : i \in DOMAIN s}

\* Select puts the externals last.
ExternalsLast(s) ==
  \A i, j \in DOMAIN s : i < j => ~(s[i] \in Externals /\ s[j] \in Mesh)

\* meshFirst; the mesh nodes are the first of the selection.
MeshFirst(s) ==
  IF In(s) \subseteq Externals THEN s ELSE SubSeq(s, 1, Cardinality(In(s) \cap Mesh))

\* Where a node stands in a selection.
Pos(s, n) == CHOOSE i \in DOMAIN s : s[i] = n

Without(s, n) == [i \in 1 .. Len(s) - 1 |-> IF i < Pos(s, n) THEN s[i] ELSE s[i + 1]]

\* fanOut starts a task for each target.
Fanned(q, targets) ==
  [q EXCEPT !.pc = "collect", !.order = targets, !.left = Len(targets), !.at = None,
            !.task = [n \in Nodes |-> IF n \in In(targets) THEN "run" ELSE "off"]]

\* The handler returns: it cancels what is left of its fan-out.
Return(q, told) ==
  [NoRequest EXCEPT !.kind = q.kind, !.told = told,
                    !.tx = IF \E n \in Nodes : q.task[n] = "run" THEN q.tx ELSE None,
                    !.task = [n \in Nodes |-> IF q.task[n] = "run" THEN "run" ELSE "off"]]

\* Nothing is left of the handler's last request.
Free(h) == req[h].pc = "idle" /\ \A n \in Nodes : req[h].task[n] = "off"

\* handleBroadcast, up to its first attempt or its fan-out.
Broadcast(h, t, s) ==
  LET q == [NoRequest EXCEPT !.tx = t] IN
  /\ Free(h)
  /\ ExternalsLast(s)
  /\ req' = [req EXCEPT ![h] =
       IF multi THEN Fanned(q, MeshFirst(s))
       ELSE [q EXCEPT !.pc = "forward", !.order = s, !.at = s[1], !.left = Len(s)]]
  /\ UNCHANGED <<pinVars, multi, failing>>

\* handlePending, up to the attempt at the pinned node or the fan-out; order is
\* sorted by round.
Lookup(h, t, s) ==
  LET q == [NoRequest EXCEPT !.kind = "lookup", !.tx = t] IN
  /\ Free(h)
  /\ req' = [req EXCEPT ![h] =
       IF Recalled(t) \in In(s)
       THEN [q EXCEPT !.pc = "pinned", !.order = Without(s, Recalled(t)), !.at = Recalled(t)]
       ELSE Fanned(q, s)]
  /\ Recall
  /\ UNCHANGED <<multi, failing>>

-----------------------------------------------------------------------------
(* The nodes' answers.                                                     *)

\* (mutant) what is left of a fan-out is booked like the rest
BooksAlways(q) == TRUE

\* Whether the context of a fan-out's task is still good, and its outcome about
\* the node.
Books(q) == q.pc # "idle" /\ q.ctx # "gone"

\* A task of a fan-out has its answer.  It is not booked when UpstreamTimeout or
\* the request's deadline has passed by then (over).
TaskEnds(h, n, a, over) ==
  LET q == req[h] IN
  /\ q.task[n] = "run"
  /\ a \in Replies(q.kind)
  /\ failing' = IF Books(q) /\ ~over THEN [failing EXCEPT ![n] = Failed(a)] ELSE failing
  /\ req' = [req EXCEPT ![h] =
       IF q.pc = "idle" THEN Return([q EXCEPT !.task[n] = "off"], q.told)
       ELSE [q EXCEPT !.task[n] = a, !.results = Append(@, n)]]
  /\ UNCHANGED <<pinVars, multi>>

\* The node's answer goes to the client as it comes; one that holds the
\* transaction is remembered.
Relayed(h, a) ==
  LET q == req[h] IN
  /\ IF a = "ok" THEN Remember(q.tx, q.at) ELSE UNCHANGED pinVars
  /\ req' = [req EXCEPT ![h] = Return(q, a)]

\* forwardSelected: the next upstream is tried, an external when there is no
\* other, or the client is told.  Attempts models how it decides.
TryNext(h) ==
  LET q == req[h] IN
  \/ /\ q.left > 1 /\ q.ctx = "live"
     /\ req' = [req EXCEPT ![h].at = q.order[Len(q.order) - q.left + 2], ![h].left = q.left - 1]
  \/ \E e \in Externals :
       /\ In(q.order) \subseteq Mesh /\ q.ctx = "live"
       /\ req' = [req EXCEPT ![h].at = e, ![h].order = <<e>>, ![h].left = 1]
  \/ req' = [req EXCEPT ![h] = Return(q, IF q.ctx = "gone" THEN "none" ELSE "err")]

\* (mutant) the other nodes are asked though there are none
PinnedDoneAlways(q, a) == IF q.ctx = "gone" THEN Return(q, "none") ELSE Fanned(q, q.order)

\* What handlePending does when the pinned node had no answer for the client.
PinnedDone(q, a) ==
  IF q.ctx = "gone" THEN Return(q, "none")
  ELSE IF q.order = <<>> THEN Return(q, IF a = "notFound" THEN "notFound" ELSE "err")
  ELSE Fanned(q, q.order)

\* forward returns: of a broadcast sent to one node at a time, of a lookup at
\* the pinned node, of the last resort of a broadcast sent to all.
ForwardEnds(h, a) ==
  LET q == req[h] IN
  /\ q.pc \in {"forward", "pinned", "external"}
  /\ a \in Replies(q.kind)
  /\ failing' = IF q.ctx = "gone" THEN failing ELSE [failing EXCEPT ![q.at] = Failed(a)]
  /\ IF a \notin Unanswered /\ ~(q.pc = "pinned" /\ a = "notFound") THEN Relayed(h, a)
     ELSE /\ UNCHANGED pinVars
          /\ \/ q.pc = "forward" /\ TryNext(h)
             \/ q.pc = "pinned" /\ req' = [req EXCEPT ![h] = PinnedDone(q, a)]
             \/ /\ q.pc = "external"
                /\ req' = [req EXCEPT ![h] =
                     Return(q, IF q.ctx = "gone" THEN "none" ELSE q.task[q.chosen])]
  /\ UNCHANGED multi

-----------------------------------------------------------------------------
(* Collecting.                                                             *)

\* handleBroadcast keeps the best failure.
BestSoFar(q, n) ==
  IF q.chosen = None \/ FanRank(q.task[n]) > FanRank(q.task[q.chosen]) THEN n ELSE q.chosen

\* Every node failed to answer, and there is time for an external.
LastResort(q) ==
  /\ \A n \in In(q.order) : q.task[n] \in Unanswered
  /\ q.ctx = "live"
  /\ In(q.order) \subseteq Mesh

\* (mutant) a broadcast ends with the first answer of a node
CollectsNoMore(q, n) == q.left = 1 \/ q.task[n] \notin Unanswered

\* A broadcast's loop over the results is over.
CollectedAll(q, n) == q.left = 1

\* handleBroadcast takes a result.
CollectBroadcast(h) ==
  LET q == req[h]
      n == Head(q.results)
      r == [q EXCEPT !.results = Tail(@), !.chosen = BestSoFar(q, n), !.left = @ - 1]
  IN
  /\ q.pc = "collect" /\ q.kind = "broadcast" /\ q.results # <<>>
  /\ \/ /\ q.task[n] = "ok"
        /\ Remember(q.tx, n)
        /\ req' = [req EXCEPT ![h] = Return(q, "ok")]
     \/ /\ q.task[n] # "ok"
        /\ UNCHANGED pinVars
        /\ \/ ~CollectedAll(q, n) /\ req' = [req EXCEPT ![h] = r]
           \/ CollectedAll(q, n) /\ req' = [req EXCEPT ![h] = Return(q, q.task[r.chosen])]
           \/ \E e \in Externals :
                /\ CollectedAll(q, n) /\ LastResort(q)
                /\ req' = [req EXCEPT ![h] = [r EXCEPT !.pc = "external", !.at = e]]
  /\ UNCHANGED <<multi, failing>>

\* handlePending keeps the best answer, and of equals that of the node at the
\* highest round.
BestAnswer(q, n) ==
  IF \/ q.chosen = None
     \/ PendingRank(q.task[n]) > PendingRank(q.task[q.chosen])
     \/ /\ PendingRank(q.task[n]) = PendingRank(q.task[q.chosen])
        /\ Pos(q.order, n) < Pos(q.order, q.chosen)
  THEN n ELSE q.chosen

\* (mutant) the node of the answer is remembered whatever it answered
PinsAny(a) == a # "err"

\* The answers after which later lookups go straight to the node.
Pins(a) == a \in {"inPool", "poolError"}

\* The end of handlePending, with n's answer the best.
Conclude(h, n) ==
  LET q == req[h] IN
  /\ IF Pins(q.task[n]) THEN Remember(q.tx, n) ELSE UNCHANGED pinVars
  /\ req' = [req EXCEPT ![h] = Return(q, q.task[n])]

\* (mutant) the wait for a better answer begins with any answer
GraceAny(a) == a # "err"

\* The answers that start the wait for a better one.
StartsGrace(a) == PendingRank(a) >= 3

\* handlePending takes a result.
CollectLookup(h) ==
  LET q == req[h]
      n == BestAnswer(q, Head(q.results))
  IN
  /\ q.pc = "collect" /\ q.kind = "lookup" /\ q.results # <<>>
  /\ IF q.task[n] = "confirmed" \/ q.left = 1 THEN Conclude(h, n)
     ELSE /\ req' = [req EXCEPT ![h] = [q EXCEPT !.results = Tail(@), !.chosen = n,
                                          !.left = @ - 1,
                                          !.grace = @ \/ StartsGrace(q.task[n])]]
          /\ UNCHANGED pinVars
  /\ UNCHANGED <<multi, failing>>

\* pendingGrace is over.
GraceEnds(h) ==
  /\ req[h].pc = "collect" /\ req[h].grace
  /\ Conclude(h, req[h].chosen)
  /\ UNCHANGED <<multi, failing>>

\* handlePending returns when its client has left.
LookupLeft(h) ==
  /\ req[h].pc = "collect" /\ req[h].kind = "lookup" /\ req[h].ctx = "gone"
  /\ req' = [req EXCEPT ![h] = Return(@, "none")]
  /\ UNCHANGED <<pinVars, multi, failing>>

-----------------------------------------------------------------------------
(* The world around.                                                       *)

\* The client leaves.
ClientLeaves(h) ==
  /\ req[h].pc # "idle" /\ req[h].ctx # "gone"
  /\ req' = [req EXCEPT ![h].ctx = "gone"]
  /\ UNCHANGED <<pinVars, multi, failing>>

\* Less than minAttempt is left of the request's time.
TimeRunsOut(h) ==
  /\ req[h].pc # "idle" /\ req[h].ctx = "live"
  /\ req' = [req EXCEPT ![h].ctx = "short"]
  /\ UNCHANGED <<pinVars, multi, failing>>

\* A unit of time passes for the pins.
Tick ==
  /\ PinsAge
  /\ UNCHANGED fanVars

Next ==
  \/ \E h \in Handlers, t \in Txns, s \in Selections : Broadcast(h, t, s) \/ Lookup(h, t, s)
  \/ \E h \in Handlers, n \in Nodes, a \in Answers, over \in BOOLEAN : TaskEnds(h, n, a, over)
  \/ \E h \in Handlers, a \in Answers : ForwardEnds(h, a)
  \/ \E h \in Handlers : CollectBroadcast(h) \/ CollectLookup(h) \/ GraceEnds(h) \/ LookupLeft(h)
  \/ \E h \in Handlers : ClientLeaves(h) \/ TimeRunsOut(h)
  \/ Tick

Spec == Init /\ [][Next]_vars

\* Every goroutine and every loop over the results goes on; an attempt ends by
\* its answer or by UpstreamTimeout.
Fairness ==
  \A h \in Handlers :
    /\ \A n \in Nodes : WF_vars(\E a \in Answers : TaskEnds(h, n, a, FALSE))
    /\ WF_vars(\E a \in Answers : ForwardEnds(h, a))
    /\ WF_vars(CollectBroadcast(h) \/ CollectLookup(h) \/ LookupLeft(h))

FairSpec == Spec /\ Fairness

-----------------------------------------------------------------------------
(* Properties.                                                             *)

Requests ==
  [pc : {"idle", "forward", "pinned", "collect", "external"}, kind : {"broadcast", "lookup"},
   tx : Txns \cup {None}, ctx : {"live", "short", "gone"}, order : Seq(Nodes),
   task : [Nodes -> Answers \cup {"off", "run"}], results : Seq(Nodes),
   at : Nodes \cup {None}, chosen : Nodes \cup {None}, left : 0 .. Cardinality(Nodes),
   grace : BOOLEAN, told : Answers \cup {"none"}]

\* Every variable has its type.
TypeOK ==
  /\ cur \in [Txns -> Nodes \cup {None}] /\ prev \in [Txns -> Nodes \cup {None}]
  /\ since \in 0 .. 2 * TTL /\ age \in [Txns -> 0 .. 3 * TTL]
  /\ multi \in BOOLEAN
  /\ req \in [Handlers -> Requests]
  /\ failing \in [Nodes -> BOOLEAN]

\* The client of handler h is answered in this step.
Tells(h) == req[h].pc # "idle" /\ req'[h].pc = "idle" /\ req'[h].told # "none"

\* A client is told that its broadcast failed only when no node it was sent to
\* accepted it, whichever answered first: a rejection hides no success still to
\* come, a success among the results is never passed over, and a rejection is
\* hidden by no failure to answer (handleBroadcast).
RejectionHidesNothing ==
  [][\A h \in Handlers :
       Tells(h) /\ req[h].pc = "collect" /\ req[h].kind = "broadcast" /\ req'[h].told # "ok"
         => \A n \in In(req[h].order) :
              /\ req[h].task[n] \notin {"ok", "run"}
              /\ req[h].task[n] = "rejected" => req'[h].told = "rejected"]_vars

\* A lookup answers that a transaction is unknown, or that the nodes failed, only
\* when every node has answered and none of them holds it: neither the grace
\* period nor the order of the answers may cost the client an answer that exists
\* (handlePending).
NotFoundIsEverywhere ==
  [][\A h \in Handlers :
       Tells(h) /\ req[h].pc = "collect" /\ req[h].kind = "lookup" /\ req'[h].told \notin Held
         => \A n \in In(req[h].order) : req[h].task[n] \notin Held \cup {"run"}]_vars

\* A lookup is sent first to another node than before only when that node has
\* just answered that it holds the transaction, and its answer is the one that
\* the client is given (rememberTxn's callers).
PinsNameHolders ==
  [][\A t \in Txns : Recalled(t)' \notin {None, Recalled(t)} =>
       \E h \in Handlers :
         /\ req[h].tx = t /\ Tells(h) /\ req'[h].told \in Held
         /\ Recalled(t)' = req[h].at \/ req[h].task[Recalled(t)'] = req'[h].told]_vars

\* What is left of a fan-out once its client has been answered, and is then
\* cancelled, says nothing about the nodes in the StatsBook (fanOut).
LeftoversAreNotBooked ==
  [][\A n \in Nodes : failing'[n] # failing[n] =>
       \E h \in Handlers : req[h].pc # "idle" /\ (req[h].task[n] = "run" \/ req[h].at = n)]_vars

\* Every broadcast and every lookup comes to an end, though nodes hang, clients
\* leave and results are left in the channel (handleBroadcast, handlePending).
TransactionsEnd == \A h \in Handlers : req[h].pc # "idle" ~> req[h].pc = "idle"
=============================================================================
