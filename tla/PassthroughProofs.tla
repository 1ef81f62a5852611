-------------------------- MODULE PassthroughProofs --------------------------
(***************************************************************************)
(* Shutdown of the pass-through is safe for every number of listeners and  *)
(* connections.                                                            *)
(***************************************************************************)
EXTENDS Passthrough, TLAPS

\* Shutdown has been waiting for the splices, or is past that.
PastLoops == shut \in {"conns", "cut", "last", "returned"}

\* Who holds the listeners and the accept loops.
LoopInv ==
  /\ closed <=> shut # "idle"
  /\ closed => open = {}
  /\ serve = "idle" => \A l \in Listeners : loop[l] = "none"
  /\ serve \in {"waiting", "returned"} => open = {}
  /\ serve = "returned" => LoopsEnded
  /\ PastLoops => LoopsEnded

\* A connection that is accepted and not counted yet is in the hand of one loop.
HandInv ==
  /\ \A c \in Conns : conn[c] = "accepted" => \E l \in Listeners : c \in hand[l]
  /\ \A l \in Listeners : \A c \in hand[l] : conn[c] = "accepted" /\ loop[l] = "got"
  /\ \A l, k \in Listeners : \A c \in Conns : c \in hand[l] /\ c \in hand[k] => l = k

\* What Shutdown leaves behind, and what a cut presupposes.
EndInv ==
  /\ shut = "returned" => Splicing = {}
  /\ cut => window
  /\ alive # Conns => window

\* The inductive invariant.
ShutdownInv == TypeOK /\ LoopInv /\ HandInv /\ EndInv

LEMMA InitInv == Init => ShutdownInv
BY DEF Init, ShutdownInv, TypeOK, LoopInv, HandInv, EndInv, LoopsEnded, Splicing, PastLoops, Directions

LEMMA TypeStep == TypeOK /\ HandInv /\ [Next]_vars => TypeOK'
<1> SUFFICES ASSUME TypeOK, HandInv, [Next]_vars PROVE TypeOK'
  OBVIOUS
<1> USE DEF TypeOK
<1>1. CASE Cancel \/ WindowEnds \/ Finished \/ UNCHANGED vars
  BY <1>1, ZenonT(60) DEF Cancel, WindowEnds, Finished, vars
<1>2. CASE ServeStep
  BY <1>2 DEF ServeStep, ServeStart, ServeStop, ServeReturn
<1>3. ASSUME NEW l \in Listeners, NEW c \in Conns, Accept(l, c) PROVE TypeOK'
  BY <1>3 DEF Accept
<1>4. ASSUME NEW l \in Listeners, Spawn(l) PROVE TypeOK'
  <2>1. \A c \in hand[l] : conn[c] = "accepted"
    BY DEF HandInv
  <2> QED BY <1>4, <2>1 DEF Spawn
<1>5. ASSUME NEW l \in Listeners, AcceptFails(l) \/ Backoff(l) PROVE TypeOK'
  BY <1>5 DEF AcceptFails, Backoff
<1>6. ASSUME NEW c \in Conns, DialFails(c) \/ DialSucceeds(c) \/ Leave(c) PROVE TypeOK'
  BY <1>6 DEF DialFails, DialSucceeds, Leave
<1>7. ASSUME NEW c \in Conns, Track(c) PROVE TypeOK'
  BY <1>7 DEF Track
<1>8. ASSUME NEW c \in Conns, NEW d \in Directions, CopyEnds(c, d) PROVE TypeOK'
  BY <1>8 DEF CopyEnds
<1>9. ASSUME NEW c \in Conns, Untrack(c) PROVE TypeOK'
  BY <1>9 DEF Untrack
<1>10. CASE ShutdownStart \/ ShutdownStep
  BY <1>10 DEF ShutdownStart, ShutdownStep, ShutdownDrain, ShutdownCut, CutDials, ShutdownReturn
<1> QED
  BY <1>1, <1>2, <1>3, <1>4, <1>5, <1>6, <1>7, <1>8, <1>9, <1>10
  DEF Next, LoopStep, SpliceStep

LEMMA InvStep == ShutdownInv /\ [Next]_vars => ShutdownInv'
<1> SUFFICES ASSUME ShutdownInv, [Next]_vars PROVE LoopInv' /\ HandInv' /\ EndInv'
  BY TypeStep DEF ShutdownInv
<1> USE DEF ShutdownInv, LoopInv, HandInv, EndInv, LoopsEnded, Splicing, PastLoops
<1>1. CASE Cancel \/ WindowEnds \/ Finished \/ UNCHANGED vars
  BY <1>1 DEF Cancel, WindowEnds, Finished, vars
<1>2. CASE ServeStart
  <2>1. CASE closed
    BY <1>2, <2>1 DEF ServeStart, TypeOK
  <2>2. CASE ~closed
    BY <1>2, <2>2 DEF ServeStart, TypeOK
  <2> QED BY <2>1, <2>2
<1>3. CASE ServeStop \/ ServeReturn
  BY <1>3 DEF ServeStop, ServeReturn
<1>4. ASSUME NEW l \in Listeners, NEW c \in Conns, Accept(l, c)
      PROVE  LoopInv' /\ HandInv' /\ EndInv'
  \* The listener is open, so Shutdown has not begun and Serve has not ended.
  <2>1. shut = "idle" /\ serve = "serving"
    BY <1>4 DEF Accept, TypeOK
  <2>2. HandInv'
    BY <1>4 DEF Accept, TypeOK
  <2>3. LoopInv' /\ EndInv'
    BY <1>4, <2>1 DEF Accept
  <2> QED BY <2>2, <2>3
<1>5. ASSUME NEW l \in Listeners, Spawn(l) PROVE LoopInv' /\ HandInv' /\ EndInv'
  <2>1. ~PastLoops /\ serve \notin {"idle", "returned"}
    BY <1>5 DEF Spawn
  <2>2. HandInv'
    BY <1>5 DEF Spawn, TypeOK
  <2>3. LoopInv' /\ EndInv'
    BY <1>5, <2>1 DEF Spawn
  <2> QED BY <2>2, <2>3
<1>6. ASSUME NEW l \in Listeners, AcceptFails(l) \/ Backoff(l)
      PROVE  LoopInv' /\ HandInv' /\ EndInv'
  <2>1. ~PastLoops /\ serve \notin {"idle", "returned"} /\ loop[l] # "got"
    BY <1>6 DEF AcceptFails, Backoff
  <2>2. HandInv'
    BY <1>6, <2>1 DEF AcceptFails, Backoff, TypeOK
  <2>3. LoopInv' /\ EndInv'
    BY <1>6, <2>1 DEF AcceptFails, Backoff
  <2> QED BY <2>2, <2>3
<1>7. ASSUME NEW c \in Conns, SpliceStep(c) PROVE LoopInv' /\ HandInv' /\ EndInv'
  <2>1. c \in Splicing
    BY <1>7 DEF SpliceStep, DialFails, DialSucceeds, Track, Untrack, Leave
  <2>2. UNCHANGED <<shut, serve, open, loop, hand, closed, cut, window>>
    BY <1>7 DEF SpliceStep, DialFails, DialSucceeds, Track, Untrack, Leave
  <2>3. shut # "returned"
    BY <2>1
  <2>4. conn'[c] # "accepted" /\ \A b \in Conns \ {c} : conn'[b] = conn[b]
    BY <1>7 DEF SpliceStep, DialFails, DialSucceeds, Track, Untrack, Leave, TypeOK
  <2>5. alive' = alive \/ cut
    BY <1>7 DEF SpliceStep, DialFails, DialSucceeds, Track, Untrack, Leave
  <2>6. \A l \in Listeners : c \notin hand[l] /\ hand[l] \subseteq Conns
    BY <2>1 DEF TypeOK
  <2>7. HandInv'
    BY <2>2, <2>4, <2>6
  <2> QED BY <2>2, <2>3, <2>4, <2>5, <2>7
<1>8. ASSUME NEW c \in Conns, NEW d \in Directions, CopyEnds(c, d)
      PROVE  LoopInv' /\ HandInv' /\ EndInv'
  BY <1>8 DEF CopyEnds
<1>9. CASE ShutdownStart
  BY <1>9 DEF ShutdownStart
<1>10. CASE ShutdownStep
  BY <1>10 DEF ShutdownStep, ShutdownDrain, ShutdownCut, CutDials, ShutdownReturn
<1> QED
  BY <1>1, <1>2, <1>3, <1>4, <1>5, <1>6, <1>7, <1>8, <1>9, <1>10 DEF Next, LoopStep, ServeStep

\* The inductive invariant holds of every behaviour, and with it the type of
\* every variable (Serve, accept, splice, track, Shutdown).
THEOREM ShutdownInvHolds == Spec => [](TypeOK /\ ShutdownInv)
<1>1. ShutdownInv => TypeOK
  BY DEF ShutdownInv
<1> QED BY <1>1, InitInv, InvStep, PTL DEF Spec

\* No accept loop adds to the WaitGroup that Shutdown waits on (Serve, Shutdown).
THEOREM AddsComeBeforeTheWaitHolds == Spec => []AddsComeBeforeTheWait
<1>1. ShutdownInv => AddsComeBeforeTheWait
  BY DEF ShutdownInv, LoopInv, PastLoops, AddsComeBeforeTheWait
<1> QED BY <1>1, ShutdownInvHolds, PTL

\* A Shutdown that has returned leaves no port bound and no connection open
\* (Shutdown, track, cutDials).
THEOREM NothingOutlivesShutdownHolds == Spec => []NothingOutlivesShutdown
<1>1. ShutdownInv => NothingOutlivesShutdown
  <2> SUFFICES ASSUME ShutdownInv, shut = "returned"
               PROVE  open = {} /\ \A c \in Conns : conn[c] \in {"none", "done"}
    BY DEF NothingOutlivesShutdown
  <2>1. open = {} /\ LoopsEnded /\ Splicing = {}
    BY DEF ShutdownInv, LoopInv, EndInv, PastLoops
  <2>2. \A c \in Conns : conn[c] # "accepted"
    BY <2>1 DEF ShutdownInv, HandInv, LoopsEnded
  <2> QED BY <2>1, <2>2 DEF ShutdownInv, TypeOK, Splicing
<1> QED BY <1>1, ShutdownInvHolds, PTL

\* Nothing is cut before the drain window has ended (Shutdown, track).
THEOREM DrainIsHonouredHolds == Spec => []DrainIsHonoured
<1>1. ShutdownInv => DrainIsHonoured
  BY DEF ShutdownInv, EndInv, DrainIsHonoured
<1> QED BY <1>1, ShutdownInvHolds, PTL

\* A Serve that has returned has released its ports (Serve, closeListeners).
THEOREM ServeReleasesPortsHolds == Spec => []ServeReleasesPorts
<1>1. ShutdownInv => ServeReleasesPorts
  BY DEF ShutdownInv, LoopInv, ServeReleasesPorts
<1> QED BY <1>1, ShutdownInvHolds, PTL

\* The end of the pass-through is in order, for any listeners and connections.
THEOREM ShutdownIsCleanHolds == Spec => []ShutdownIsClean
BY AddsComeBeforeTheWaitHolds, DrainIsHonouredHolds, NothingOutlivesShutdownHolds,
   ServeReleasesPortsHolds, PTL DEF ShutdownIsClean
=============================================================================
