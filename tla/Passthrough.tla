----------------------------- MODULE Passthrough -----------------------------
(***************************************************************************)
(* The TCP pass-through in front of algod: its accept loops, the spliced   *)
(* connections and how they are drained and cut at shutdown                *)
(* (internal/adapters/passthrough).                                        *)
(*                                                                         *)
(* Serve, Shutdown, one accept loop per listener and one splice per        *)
(* connection run concurrently; each action is one step of one of them     *)
(* between two points where another can come in.  Bytes are left out: a    *)
(* direction of a splice is copied until its source ends, or either        *)
(* connection is closed here.                                              *)
(***************************************************************************)
CONSTANTS
  Listeners,  \* the bound addresses
  Conns       \* the connections clients make (a bound)

VARIABLES
  cancelled,  \* the context of Serve is done
  window,     \* the context of Shutdown is done: the drain window has ended
  serve,      \* where Serve is
  shut,       \* where Shutdown is
  open,       \* the listeners that are open
  loop,       \* where each accept loop is
  hand,       \* the connection each accept loop has accepted and not yet spawned
  closed,     \* Shutdown ran: Serve must not start accepting
  cut,        \* the drain window has ended: what is tracked now is closed
  dials,      \* dials may go on (dialCtx is not cancelled)
  conn,       \* where each connection's splice is
  tracked,    \* the pairs in s.conns
  alive,      \* pairs not closed by a cut
  copying     \* the directions of each pair that are being copied

vars == <<cancelled, window, serve, shut, open, loop, hand, closed, cut, dials, conn,
          tracked, alive, copying>>

Directions == {"up", "down"}

Init ==
  /\ cancelled = FALSE /\ window = FALSE
  /\ serve = "idle" /\ shut = "idle"
  /\ open = Listeners
  /\ loop = [l \in Listeners |-> "none"]
  /\ hand = [l \in Listeners |-> {}]
  /\ closed = FALSE /\ cut = FALSE /\ dials = TRUE
  /\ conn = [c \in Conns |-> "none"]
  /\ tracked = {}
  /\ alive = Conns
  /\ copying = [c \in Conns |-> {}]

\* The accepting WaitGroup is at zero.
LoopsEnded == \A l \in Listeners : loop[l] \in {"none", "ended"}

\* (mutant) a splice is counted once its dial has succeeded
SplicingDialed == {c \in Conns : conn[c] \in {"dialed", "spliced", "untracked"}}

\* The splices the WaitGroup wg counts.
Splicing == {c \in Conns : conn[c] \in {"dialing", "dialed", "spliced", "untracked"}}

-----------------------------------------------------------------------------
(* The agent around it.                                                    *)

\* The agent is told to stop.
Cancel ==
  /\ ~cancelled
  /\ cancelled' = TRUE
  /\ UNCHANGED <<window, serve, shut, open, loop, hand, closed, cut, dials, conn, tracked, alive, copying>>

\* The drain timeout passes; Close calls Shutdown with its window over.
WindowEnds ==
  /\ ~window
  /\ window' = TRUE
  /\ UNCHANGED <<cancelled, serve, shut, open, loop, hand, closed, cut, dials, conn, tracked, alive, copying>>

-----------------------------------------------------------------------------
(* Serve and its accept loops.                                             *)

\* Serve, up to the start of the accept loops.
ServeStart ==
  /\ serve = "idle"
  /\ serve' = IF closed THEN "returned" ELSE "serving"
  /\ loop' = IF closed THEN loop ELSE [l \in Listeners |-> "accept"]
  /\ UNCHANGED <<cancelled, window, shut, open, hand, closed, cut, dials, conn, tracked, alive, copying>>

\* (mutant) the other listeners stay open
ServeStopOne ==
  /\ serve = "serving"
  /\ cancelled \/ \E l \in Listeners : loop[l] = "ended"
  /\ serve' = "waiting"
  /\ UNCHANGED <<cancelled, window, shut, open, loop, hand, closed, cut, dials, conn, tracked, alive, copying>>

\* Serve wakes: it is cancelled, or an accept loop has ended.
ServeStop ==
  /\ serve = "serving"
  /\ cancelled \/ \E l \in Listeners : loop[l] = "ended"
  /\ open' = {}
  /\ serve' = "waiting"
  /\ UNCHANGED <<cancelled, window, shut, loop, hand, closed, cut, dials, conn, tracked, alive, copying>>

\* Serve returns once its accept loops have ended.
ServeReturn ==
  /\ serve = "waiting"
  /\ LoopsEnded
  /\ serve' = "returned"
  /\ UNCHANGED <<cancelled, window, shut, open, loop, hand, closed, cut, dials, conn, tracked, alive, copying>>

\* Accept returns a connection.
Accept(l, c) ==
  /\ loop[l] = "accept" /\ l \in open
  /\ conn[c] = "none"
  /\ loop' = [loop EXCEPT ![l] = "got"]
  /\ hand' = [hand EXCEPT ![l] = {c}]
  /\ conn' = [conn EXCEPT ![c] = "accepted"]
  /\ UNCHANGED <<cancelled, window, serve, shut, open, closed, cut, dials, tracked, alive, copying>>

\* The loop counts the connection in wg and starts its splice.
Spawn(l) ==
  /\ loop[l] = "got"
  /\ loop' = [loop EXCEPT ![l] = "accept"]
  /\ hand' = [hand EXCEPT ![l] = {}]
  /\ conn' = [c \in Conns |-> IF c \in hand[l] THEN "dialing" ELSE conn[c]]
  /\ UNCHANGED <<cancelled, window, serve, shut, open, closed, cut, dials, tracked, alive, copying>>

\* Accept fails: for now, because the listener is closed, or for good.
AcceptFails(l) ==
  /\ loop[l] = "accept"
  /\ \/ l \in open /\ loop' = [loop EXCEPT ![l] = "backoff"]
     \/ loop' = [loop EXCEPT ![l] = "ended"]
  /\ UNCHANGED <<cancelled, window, serve, shut, open, hand, closed, cut, dials, conn, tracked, alive, copying>>

\* The loop waits, and tries again unless it is cancelled meanwhile.
Backoff(l) ==
  /\ loop[l] = "backoff"
  /\ \/ loop' = [loop EXCEPT ![l] = "accept"]
     \/ cancelled /\ loop' = [loop EXCEPT ![l] = "ended"]
  /\ UNCHANGED <<cancelled, window, serve, shut, open, hand, closed, cut, dials, conn, tracked, alive, copying>>

-----------------------------------------------------------------------------
(* A splice.                                                               *)

\* No target, or the dial fails, times out or is cancelled: c is closed.
DialFails(c) ==
  /\ conn[c] = "dialing"
  /\ conn' = [conn EXCEPT ![c] = "done"]
  /\ UNCHANGED <<cancelled, window, serve, shut, open, loop, hand, closed, cut, dials, tracked, alive, copying>>

DialSucceeds(c) ==
  /\ conn[c] = "dialing" /\ dials
  /\ conn' = [conn EXCEPT ![c] = "dialed"]
  /\ UNCHANGED <<cancelled, window, serve, shut, open, loop, hand, closed, cut, dials, tracked, alive, copying>>

\* (mutant) a pair tracked after the cut is left open
TrackAlways(c) ==
  /\ conn[c] = "dialed"
  /\ conn' = [conn EXCEPT ![c] = "spliced"]
  /\ tracked' = tracked \cup {c}
  /\ copying' = [copying EXCEPT ![c] = Directions]
  /\ UNCHANGED <<cancelled, window, serve, shut, open, loop, hand, closed, cut, dials, alive>>

\* track(c, up, true): a pair tracked after the cut is closed on the spot.
Track(c) ==
  /\ conn[c] = "dialed"
  /\ conn' = [conn EXCEPT ![c] = "spliced"]
  /\ tracked' = tracked \cup {c}
  /\ alive' = IF cut THEN alive \ {c} ELSE alive
  /\ copying' = [copying EXCEPT ![c] = Directions]
  /\ UNCHANGED <<cancelled, window, serve, shut, open, loop, hand, closed, cut, dials>>

\* copyThenClose returns: its source has ended, or the pair was closed.
CopyEnds(c, d) ==
  /\ conn[c] = "spliced" /\ d \in copying[c]
  /\ copying' = [copying EXCEPT ![c] = @ \ {d}]
  /\ UNCHANGED <<cancelled, window, serve, shut, open, loop, hand, closed, cut, dials, conn, tracked, alive>>

\* track(c, up, false), once both directions have ended.
Untrack(c) ==
  /\ conn[c] = "spliced" /\ copying[c] = {}
  /\ conn' = [conn EXCEPT ![c] = "untracked"]
  /\ tracked' = tracked \ {c}
  /\ UNCHANGED <<cancelled, window, serve, shut, open, loop, hand, closed, cut, dials, alive, copying>>

\* The splice closes both connections and leaves wg.
Leave(c) ==
  /\ conn[c] = "untracked"
  /\ conn' = [conn EXCEPT ![c] = "done"]
  /\ UNCHANGED <<cancelled, window, serve, shut, open, loop, hand, closed, cut, dials, tracked, alive, copying>>

-----------------------------------------------------------------------------
(* Shutdown.  Any producer of the agent may fail, so it may begin at any   *)
(* time, before Serve too.                                                 *)

ShutdownStart ==
  /\ shut = "idle"
  /\ shut' = "loops"
  /\ closed' = TRUE
  /\ open' = {}
  /\ UNCHANGED <<cancelled, window, serve, loop, hand, cut, dials, conn, tracked, alive, copying>>

\* The accept loops have ended: the wait for the splices begins.
ShutdownDrain ==
  /\ shut = "loops"
  /\ LoopsEnded
  /\ shut' = "conns"
  /\ UNCHANGED <<cancelled, window, serve, open, loop, hand, closed, cut, dials, conn, tracked, alive, copying>>

\* The window ends first: every pair is closed.
ShutdownCut ==
  /\ shut = "conns" /\ window
  /\ shut' = "cut"
  /\ cut' = TRUE
  /\ alive' = alive \ tracked
  /\ UNCHANGED <<cancelled, window, serve, open, loop, hand, closed, dials, conn, tracked, copying>>

\* ... and then every dial is abandoned.
CutDials ==
  /\ shut = "cut"
  /\ shut' = "last"
  /\ dials' = FALSE
  /\ UNCHANGED <<cancelled, window, serve, open, loop, hand, closed, cut, conn, tracked, alive, copying>>

\* No splice is left.
ShutdownReturn ==
  /\ shut \in {"conns", "last"}
  /\ Splicing = {}
  /\ shut' = "returned"
  /\ UNCHANGED <<cancelled, window, serve, open, loop, hand, closed, cut, dials, conn, tracked, alive, copying>>

-----------------------------------------------------------------------------
LoopStep(l) == Spawn(l) \/ AcceptFails(l) \/ Backoff(l)

SpliceStep(c) == DialFails(c) \/ DialSucceeds(c) \/ Track(c) \/ Untrack(c) \/ Leave(c)

ServeStep == ServeStart \/ ServeStop \/ ServeReturn

ShutdownStep == ShutdownDrain \/ ShutdownCut \/ CutDials \/ ShutdownReturn

\* Nothing is left to do.
Finished ==
  /\ serve = "returned" /\ shut = "returned" /\ cancelled /\ window
  /\ UNCHANGED vars

Next ==
  \/ Cancel \/ WindowEnds \/ ServeStep
  \/ \E l \in Listeners : LoopStep(l) \/ \E c \in Conns : Accept(l, c)
  \/ \E c \in Conns : SpliceStep(c) \/ \E d \in Directions : CopyEnds(c, d)
  \/ ShutdownStart \/ ShutdownStep
  \/ Finished

Spec == Init /\ [][Next]_vars

\* Every goroutine that can go on does.  A loop with an open listener may wait
\* for ever in Accept, and a copy for its source; a dial has a timeout, and the
\* drain window one too.
Fairness ==
  /\ WF_vars(ServeStep) /\ WF_vars(ShutdownStep) /\ WF_vars(shut # "idle" /\ WindowEnds)
  /\ \A l \in Listeners :
       /\ WF_vars(Spawn(l)) /\ WF_vars(Backoff(l))
       /\ WF_vars(l \notin open /\ AcceptFails(l))
  /\ \A c \in Conns :
       /\ WF_vars(SpliceStep(c))
       /\ \A d \in Directions : WF_vars(c \notin alive /\ CopyEnds(c, d))

FairSpec == Spec /\ Fairness

-----------------------------------------------------------------------------
(* Properties.                                                             *)

\* Every variable has its type, and s.conns holds the pairs that are being copied:
\* none of them is missed by the cut, none leaks (track).
TypeOK ==
  /\ cancelled \in BOOLEAN /\ window \in BOOLEAN
  /\ closed \in BOOLEAN /\ cut \in BOOLEAN /\ dials \in BOOLEAN
  /\ serve \in {"idle", "serving", "waiting", "returned"}
  /\ shut \in {"idle", "loops", "conns", "cut", "last", "returned"}
  /\ open \subseteq Listeners
  /\ loop \in [Listeners -> {"none", "accept", "got", "backoff", "ended"}]
  /\ hand \in [Listeners -> SUBSET Conns]
  /\ conn \in [Conns -> {"none", "accepted", "dialing", "dialed", "spliced", "untracked", "done"}]
  /\ tracked = {c \in Conns : conn[c] = "spliced"}
  /\ alive \subseteq Conns
  /\ copying \in [Conns -> SUBSET Directions]

\* The WaitGroup of the splices is never added to once Shutdown waits on it:
\* by then no accept loop runs, and none will start (Serve, Shutdown).
AddsComeBeforeTheWait ==
  shut \in {"conns", "cut", "last", "returned"} =>
    LoopsEnded /\ (serve = "idle" => closed)

\* When Shutdown has returned, every port is released and every connection that
\* was ever accepted is closed, the ones still dialing at the cut included
\* (Shutdown, track, cutDials).
NothingOutlivesShutdown ==
  shut = "returned" =>
    /\ open = {}
    /\ \A c \in Conns : conn[c] \in {"none", "done"}

\* A pair is closed from here only after the drain window: what can finish in
\* time is left to finish (Shutdown).
DrainIsHonoured == alive # Conns => window

\* Serve leaves no port bound, whether it is cancelled, one of its listeners
\* fails or Shutdown comes first (Serve, closeListeners).
ServeReleasesPorts == serve = "returned" => open = {} /\ LoopsEnded

\* However Serve, Shutdown, accepts and dials meet, the end is in order: what
\* the WaitGroups count is complete before it is waited for, nothing is cut
\* before the drain window has ended, and nothing is left behind (Serve,
\* Shutdown, track, cutDials).
ShutdownIsClean ==
  AddsComeBeforeTheWait /\ DrainIsHonoured /\ NothingOutlivesShutdown /\ ServeReleasesPorts

\* Shutdown comes to an end: whatever the clients and algod do, nothing it waits
\* for lasts longer than the drain window and what a cut connection needs to end
\* (Shutdown, track, cutDials).
ShutdownReturns == shut = "loops" ~> shut = "returned"

\* One listener that fails for good stops Serve, although the others wait in
\* Accept with nothing to accept (Serve).
OneFailureStopsServe ==
  serve = "serving" /\ (cancelled \/ \E l \in Listeners : loop[l] = "ended") ~> serve = "returned"
=============================================================================
