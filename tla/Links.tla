-------------------------------- MODULE Links --------------------------------
(***************************************************************************)
(* The link between two agents that share several networks                 *)
(* (app/directory.go, domain/path.go).  Each side sends its heartbeats on  *)
(* one of the other's addresses, pings all of them, and tells in every     *)
(* ping and pong how long it has not heard a heartbeat.  Both sides run    *)
(* the same code; one of them may be a balancer, which sends no heartbeats *)
(* and chooses no path.                                                    *)
(*                                                                         *)
(* An address stands for the path over which it is reached, and a datagram *)
(* comes from the address of the path it took.  Time passes in units of a  *)
(* maintenance tick; instants are kept as ages.  A datagram arrives before *)
(* anything else happens, except for MaxLate pings and pongs, which arrive *)
(* at any later moment, up to MaxDelay units on.                           *)
(***************************************************************************)
EXTENDS Integers, Sequences, SequencesExt, FiniteSets

CONSTANTS
  Agents,        \* the two ends
  Addresses,     \* the addresses either may be reached at
  None,          \* no address: cur = -1
  NoLocals,      \* the sets of ends that may be balancers
  Records,       \* the address lists a registry record may hold
  FirstRecord,   \* the one either end starts with
  Rtt,           \* the round trip each path is measured with
  Stale,         \* 3 * KeepAlive, KeepAlive being one unit
  SuspectAfter,  \* age of a heartbeat beyond which the peer is silent
  PathTimeout,   \* an unanswered ping is a loss after this
  PathProbeInterval,
  PathFailures,  \* losses in a row that make a path dead
  MaxChanges,    \* bound on the changes of the network and of the records
  MaxDelay,      \* longest time a ping or a pong is under way
  MaxLate        \* bound on the datagrams that take their time

ASSUME LinksAssumption ==
  /\ Cardinality(Agents) = 2 /\ None \notin Addresses
  /\ FirstRecord \in Records
  /\ \A r \in Records : r \in Seq(Addresses) /\ r # <<>>
  /\ Rtt \in [Addresses -> Nat \ {0}]
  /\ Stale \in Nat /\ SuspectAfter \in Nat /\ PathTimeout \in Nat \ {0}
  /\ PathFailures \in Nat \ {0}
  /\ PathProbeInterval \in Nat /\ PathProbeInterval > 2 * PathTimeout * PathFailures
  /\ MaxChanges \in Nat /\ MaxDelay \in Nat /\ MaxLate \in Nat

VARIABLES
  noLocal,  \* the ends that are balancers
  road,     \* what becomes of a datagram an end sends on a path
  wire,     \* the pings and pongs under way
  link,     \* each end's link to the other
  heard,    \* age of the last heartbeat each end got (heardAt), Never if none
  silent,   \* the end has noticed that the other is silent
  beat,     \* a heartbeat is due: the keepalive, or a nudge
  sending,  \* the heartbeat sent and not yet noted
  check,    \* checkPaths: its pings and what became of them
  beats,    \* heartbeats sent on the current path since the last switch
  changes, late

vars == <<noLocal, road, wire, link, heard, silent, beat, sending, check, beats, changes, late>>

Other(e) == CHOOSE o \in Agents : o # e
Never == -1

\* Ages beyond these make no difference.
HeardCap == IF Stale > SuspectAfter THEN Stale + 1 ELSE SuspectAfter + 1
SwitchCap == IF 2 * PathProbeInterval > Stale THEN 2 * PathProbeInterval ELSE Stale + 1
Older(age, cap) == IF age < cap THEN age + 1 ELSE cap

-----------------------------------------------------------------------------
(* domain.PathPolicy.                                                      *)

\* (mutant) a path without a route is left to loss counting
AliveUnrouted(l, a) == LET p == l.paths[a] IN ~p.deaf /\ p.fails < PathFailures

\* alive
Alive(l, a) == LET p == l.paths[a] IN ~p.noRoute /\ ~p.deaf /\ p.fails < PathFailures

Index(l, a) == CHOOSE i \in DOMAIN l.order : l.order[i] = a

\* better, and registry order between equals.
Better(l, a, b) ==
  LET m == l.paths[a].measured
      n == l.paths[b].measured
  IN IF m # n THEN m
     ELSE IF m /\ Rtt[a] # Rtt[b] THEN Rtt[a] < Rtt[b]
     ELSE Index(l, a) < Index(l, b)

Best(l) ==
  LET alive == {a \in Range(l.order) : Alive(l, a)}
  IN IF alive = {} THEN None
     ELSE CHOOSE a \in alive : \A b \in alive \ {a} : Better(l, a, b)

\* (mutant) the current path is left only for a faster one
ChooseFaster(l) ==
  LET best == Best(l)
  IN IF l.cur = None \/ best = None \/ best = l.cur THEN best
     ELSE IF /\ l.paths[l.cur].measured /\ l.paths[best].measured
             /\ 4 * Rtt[best] < 3 * Rtt[l.cur]
     THEN best ELSE l.cur

\* Choose: a path that is gone, dead or deaf is left at once, a slower one
\* only for one faster by a quarter, two probe intervals after the last
\* switch.
Choose(l) ==
  LET best == Best(l)
  IN IF l.cur = None \/ best = None \/ best = l.cur THEN best
     ELSE IF ~Alive(l, l.cur) THEN best
     ELSE IF /\ l.paths[l.cur].measured /\ l.paths[best].measured
             /\ 4 * Rtt[best] < 3 * Rtt[l.cur]
             /\ l.switched >= 2 * PathProbeInterval
     THEN best ELSE l.cur

-----------------------------------------------------------------------------
(* The link.                                                               *)

\* A pathState as syncLink makes it: never pinged, so due at once.
NewPath == [measured |-> FALSE, pinged |-> PathProbeInterval, waiting |-> FALSE,
            answered |-> TRUE, fails |-> 0, deaf |-> FALSE, noRoute |-> FALSE]

\* syncLink: what is known of the addresses that stay is kept, and the
\* current path stays current if it is one of them.
Synced(l, record) ==
  [l EXCEPT !.order = record,
            !.paths = [a \in Addresses |-> IF a \in Range(record) \cap Range(l.order)
                                           THEN l.paths[a] ELSE NewPath],
            !.cur = IF @ \in Range(record) THEN @ ELSE None]

\* chooseLocked: the link of end e after the policy ran on it.
Chosen(e, l) ==
  IF e \in noLocal \/ Choose(l) = l.cur THEN l
  ELSE [l EXCEPT !.cur = Choose(l), !.switched = 0]

\* What chooseLocked's callers do with the link l of end e: a switch nudges
\* the heartbeat loop, and is the start of a new count of beats.
Settle(e, l) ==
  LET c == Chosen(e, l)
  IN /\ link' = [link EXCEPT ![e] = c]
     /\ beat' = [beat EXCEPT ![e] = @ \/ c.cur # l.cur]
     /\ beats' = [beats EXCEPT ![e] = IF c.cur # l.cur THEN 0 ELSE @]

NoLink == [order |-> <<>>, paths |-> [a \in Addresses |-> NewPath], cur |-> None, switched |-> SwitchCap]
Checked == [pc |-> "done", lost |-> {}, sent |-> {}]
Unchecked == [Checked EXCEPT !.pc = "due"]

\* Both ends have just read each other's record.
Init ==
  /\ noLocal \in NoLocals
  /\ road = [e \in Agents |-> [a \in Addresses |-> "up"]]
  /\ wire = {}
  /\ link = [e \in Agents |-> [Chosen(e, Synced(NoLink, FirstRecord)) EXCEPT !.switched = 0]]
  /\ heard = [e \in Agents |-> Never]
  /\ silent = [e \in Agents |-> FALSE]
  /\ beat = [e \in Agents |-> e \notin noLocal]
  /\ sending = [e \in Agents |-> Checked]
  /\ check = [e \in Agents |-> Unchecked]
  /\ beats = [e \in Agents |-> 0]
  /\ changes = 0 /\ late = 0

-----------------------------------------------------------------------------
(* The network and the registry.                                           *)

\* Every datagram that is on time has been received.
Quiet == \A m \in wire : m.late

\* A datagram is one of those that take their time.
Delay(m) ==
  /\ ~m.late /\ late < MaxLate
  /\ wire' = (wire \ {m}) \cup {[m EXCEPT !.late = TRUE]}
  /\ late' = late + 1
  /\ UNCHANGED <<noLocal, road, link, heard, silent, beat, sending, check, beats, changes>>

\* A path starts or stops delivering, or loses its route, for one end or for
\* both, between two units of time.
RoadChanges(ends, a) ==
  /\ Quiet /\ changes < MaxChanges
  /\ \A e \in Agents : check[e] = Unchecked
  /\ \E s \in {"up", "down", "noroute", "error"} :
       road' = [e \in Agents |-> IF e \in ends THEN [road[e] EXCEPT ![a] = s] ELSE road[e]]
  /\ changes' = changes + 1
  /\ UNCHANGED <<noLocal, wire, link, heard, silent, beat, sending, check, beats, late>>

\* SetRecords with another record of the other end.
SetRecords(e) ==
  /\ Quiet /\ changes < MaxChanges
  /\ \E r \in Records \ {link[e].order} : Settle(e, Synced(link[e], r))
  /\ changes' = changes + 1
  /\ UNCHANGED <<noLocal, road, wire, heard, silent, sending, check, late>>

-----------------------------------------------------------------------------
(* Sending.                                                                *)

\* A datagram that arrives gives the path it came by a new chance.
Delivers(l, a) == IF a \in Range(l.order) THEN [l EXCEPT !.paths[a].fails = 0] ELSE l

\* Sends of end e on some paths: what they prove is noted later.  A datagram
\* that is lost on its way was sent; an error proves nothing.
Sends(e, paths) == [pc |-> "sent", sent |-> {a \in paths : road[e][a] \in {"up", "down"}},
                    lost |-> {a \in paths : road[e][a] = "noroute"}]

\* send records under the lock what the sends proved.
Noted(l, s) ==
  [l EXCEPT !.paths = [a \in Addresses |->
     IF a \in Range(l.order) \cap (s.sent \cup s.lost)
     THEN [l.paths[a] EXCEPT !.noRoute = a \in s.lost] ELSE l.paths[a]]]

\* sendHeartbeat takes the current path under the lock and sends outside it.
\* A heartbeat that arrives is accepted at once (handleLocked), and a result
\* that agrees with what is known of the path needs no noting.
SendHeartbeat(e) ==
  LET a == link[e].cur
      o == Other(e)
      arrives == a # None /\ road[e][a] = "up"
  IN /\ Quiet /\ beat[e] /\ sending[e] = Checked
     /\ beat' = [beat EXCEPT ![e] = FALSE]
     /\ sending' = [sending EXCEPT ![e] =
                      IF a = None \/ Noted(link[e], Sends(e, {a})) = link[e] THEN @ ELSE Sends(e, {a})]
     /\ beats' = [beats EXCEPT ![e] = IF a = None THEN 0 ELSE Older(@, Stale)]
     /\ heard' = [heard EXCEPT ![o] = IF arrives THEN 0 ELSE @]
     /\ silent' = [silent EXCEPT ![o] = @ /\ ~arrives]
     /\ link' = [link EXCEPT ![o] = IF arrives THEN Delivers(@, a) ELSE @]
     /\ UNCHANGED <<noLocal, road, wire, check, changes, late>>

HeartbeatNoted(e) ==
  /\ Quiet /\ sending[e] # Checked
  /\ link' = [link EXCEPT ![e] = Noted(@, sending[e])]
  /\ sending' = [sending EXCEPT ![e] = Checked]
  /\ UNCHANGED <<noLocal, road, wire, heard, silent, beat, check, beats, changes, late>>

-----------------------------------------------------------------------------
(* Maintenance: probeSilentPeers, then checkPaths.                         *)

\* The other end is a peer and silent.
Silent(e) == Other(e) \notin noLocal /\ (heard[e] = Never \/ heard[e] > SuspectAfter)

\* A ping unanswered for PathTimeout is lost.
Lapsed(p) ==
  IF p.waiting /\ p.pinged >= PathTimeout
  THEN [p EXCEPT !.waiting = FALSE, !.fails = Older(@, PathFailures)] ELSE p

\* Entering silence makes every path due, and a path is due sooner after a
\* ping that was not answered.
Due(p, entering) ==
  LET interval == IF p.answered \/ p.fails >= PathFailures \/ p.noRoute
                  THEN PathProbeInterval ELSE 2 * PathTimeout
  IN ~p.waiting /\ (entering \/ p.pinged >= interval)

\* A pong to a ping that is over, or to be, matches nothing.
Superseded(m, e, paths) ==
  IF m.asks = e /\ m.path \in paths THEN [m EXCEPT !.nonce = FALSE] ELSE m

\* probeSilentPeers makes the paths without a ping due when the peer falls
\* silent, and checkPaths counts losses and sends the pings that are due.
\* What the sends proved is noted when the lock is held again, and needs no
\* noting when it agrees with what is known: then the policy runs at once.
Check(e) ==
  LET l == link[e]
      known == Range(l.order)
      entering == Silent(e) /\ ~silent[e]
      lapsed == [a \in Addresses |-> IF a \in known THEN Lapsed(l.paths[a]) ELSE l.paths[a]]
      lost == {a \in known : l.paths[a].waiting /\ ~lapsed[a].waiting}
      due == {a \in known : Due(lapsed[a], entering /\ ~l.paths[a].waiting)}
      pinged == [l EXCEPT !.paths = [a \in Addresses |->
                   IF a \in due THEN [lapsed[a] EXCEPT !.waiting = TRUE, !.pinged = 0, !.answered = FALSE]
                   ELSE lapsed[a]]]
  IN /\ Quiet /\ check[e] = Unchecked
     /\ silent' = [silent EXCEPT ![e] = Silent(e)]
     /\ wire' = {Superseded(m, e, due \cup lost) : m \in wire}
                  \cup [kind : {"ping"}, asks : {e}, to : {Other(e)},
                        path : {a \in due : road[e][a] = "up"}, nonce : {TRUE},
                        heard : {heard[e]}, age : {0}, late : {FALSE}]
     /\ IF Sends(e, due).lost = {} /\ Noted(pinged, Sends(e, due)) = pinged
        THEN Settle(e, pinged) /\ check' = [check EXCEPT ![e] = Checked]
        ELSE /\ link' = [link EXCEPT ![e] = pinged] /\ UNCHANGED <<beat, beats>>
             /\ check' = [check EXCEPT ![e] = Sends(e, due)]
     /\ UNCHANGED <<noLocal, road, heard, sending, changes, late>>

\* What the pings proved is noted, one that never left is no loss, and the
\* policy runs.  The two critical sections of the code are one step.
CheckNoted(e) ==
  LET l == Noted(link[e], check[e])
      kept == [l EXCEPT !.paths = [a \in Addresses |->
                 IF a \in check[e].lost THEN [l.paths[a] EXCEPT !.waiting = FALSE] ELSE l.paths[a]]]
  IN /\ Quiet /\ check[e].pc = "sent"
     /\ Settle(e, kept)
     /\ check' = [check EXCEPT ![e] = Checked]
     /\ UNCHANGED <<noLocal, road, wire, heard, silent, sending, changes, late>>

-----------------------------------------------------------------------------
(* Receiving.                                                              *)

\* (mutant) the time since the switch is not considered
ReportsDeafNow(l, h) == l.cur # None /\ h > Stale

\* The other end has not heard what was sent on the current path.
ReportsDeaf(l, h) == l.cur # None /\ h > Stale /\ l.switched > Stale

\* handleProbeLocked's last part: the report of how long nothing was heard.
Reported(l, h) == IF ReportsDeaf(l, h) THEN [l EXCEPT !.paths[l.cur].deaf = TRUE] ELSE l

\* A pong that matches: the path is measured, and works.
Answered(l, a) ==
  [l EXCEPT !.paths[a] = [@ EXCEPT !.measured = TRUE, !.waiting = FALSE, !.answered = TRUE,
                                   !.fails = 0, !.deaf = FALSE, !.noRoute = FALSE]]

\* A ping is answered to the address it came from.
ReceivePing(m) ==
  LET e == m.to IN
  /\ m.kind = "ping"
  /\ Settle(e, Reported(Delivers(link[e], m.path), m.heard))
  /\ wire' = (wire \ {m}) \cup
       (IF road[e][m.path] = "up"
        THEN {[m EXCEPT !.kind = "pong", !.to = m.asks, !.heard = heard[e], !.age = 0, !.late = FALSE]} ELSE {})
  /\ UNCHANGED <<noLocal, road, heard, silent, sending, check, changes, late>>

\* A pong that matches no ping under way tells nothing but that the path
\* delivers.
ReceivePong(m) ==
  LET e == m.to
      l == Delivers(link[e], m.path)
  IN /\ m.kind = "pong"
     /\ IF m.nonce /\ m.path \in Range(l.order) /\ l.paths[m.path].waiting
        THEN Settle(e, Reported(Answered(l, m.path), m.heard))
        ELSE link' = [link EXCEPT ![e] = l] /\ UNCHANGED <<beat, beats>>
     /\ wire' = wire \ {m}
     /\ UNCHANGED <<noLocal, road, heard, silent, sending, check, changes, late>>

-----------------------------------------------------------------------------
\* A unit of time passes once what is due in it has been done, but for the
\* datagrams that take longer.
AgedPath(p) == [p EXCEPT !.pinged = Older(@, PathProbeInterval)]
AgedLink(l) == [l EXCEPT !.switched = Older(@, SwitchCap),
                         !.paths = [a \in Addresses |-> AgedPath(l.paths[a])]]

Tick ==
  /\ \A e \in Agents : ~beat[e] /\ sending[e] = Checked /\ check[e] = Checked
  /\ \A m \in wire : m.late /\ m.age < MaxDelay
  /\ wire' = {[m EXCEPT !.age = @ + 1] : m \in wire}
  /\ link' = [e \in Agents |-> AgedLink(link[e])]
  /\ heard' = [e \in Agents |-> IF heard[e] = Never THEN Never ELSE Older(heard[e], HeardCap)]
  /\ beat' = [e \in Agents |-> e \notin noLocal]
  /\ check' = [e \in Agents |-> Unchecked]
  /\ UNCHANGED <<noLocal, road, silent, sending, beats, changes, late>>

Next ==
  \/ \E ends \in SUBSET Agents \ {{}}, a \in Addresses : RoadChanges(ends, a)
  \/ \E e \in Agents : \/ SetRecords(e)
                       \/ SendHeartbeat(e) \/ HeartbeatNoted(e)
                       \/ Check(e) \/ CheckNoted(e)
  \/ \E m \in wire : Delay(m) \/ ReceivePing(m) \/ ReceivePong(m)
  \/ Tick

Spec == Init /\ [][Next]_vars

\* Both agents run, and time passes: there is always another step.  All but
\* MaxChanges + MaxLate of them are the agents' own or the clock's, and the
\* clock waits for every agent.
FairSpec == Spec /\ []<><<TRUE>>_vars

-----------------------------------------------------------------------------
(* Properties.                                                             *)

Paths == [measured : BOOLEAN, pinged : 0 .. PathProbeInterval, waiting : BOOLEAN,
          answered : BOOLEAN, fails : 0 .. PathFailures, deaf : BOOLEAN, noRoute : BOOLEAN]
Outcomes == [pc : {"due", "sent", "done"}, lost : SUBSET Addresses, sent : SUBSET Addresses]

TypeOK ==
  /\ noLocal \in NoLocals
  /\ road \in [Agents -> [Addresses -> {"up", "down", "noroute", "error"}]]
  /\ \A m \in wire : m \in [kind : {"ping", "pong"}, asks : Agents, to : Agents, path : Addresses,
                            nonce : BOOLEAN, heard : Never .. HeardCap, age : 0 .. MaxDelay, late : BOOLEAN]
  /\ link \in [Agents -> [order : Records, paths : [Addresses -> Paths],
                         cur : Addresses \cup {None}, switched : 0 .. SwitchCap]]
  /\ heard \in [Agents -> Never .. HeardCap]
  /\ silent \in [Agents -> BOOLEAN] /\ beat \in [Agents -> BOOLEAN]
  /\ sending \in [Agents -> Outcomes] /\ check \in [Agents -> Outcomes]
  /\ beats \in [Agents -> 0 .. Stale]
  /\ changes \in 0 .. MaxChanges /\ late \in 0 .. MaxLate
  /\ \A e \in Agents : link[e].cur # None => link[e].cur \in Range(link[e].order) /\ e \notin noLocal

\* The other end's reports of the path before the switch are still under way
\* when the heartbeats move to another one: a path is declared deaf only
\* after three heartbeats were sent on it (handleProbeLocked).
DeafAfterThree ==
  [][\A e \in Agents, a \in Addresses :
       link'[e].paths[a].deaf /\ ~link[e].paths[a].deaf => beats[e] = Stale]_vars

\* A path that works both ways is in both records.
WorksBothWays ==
  \E a \in Addresses : \A e \in Agents : a \in Range(link[e].order) /\ road[e][a] = "up"

\* Whatever the networks did, and whatever each end made of it, once a path
\* that works both ways stays, each end goes on getting the heartbeats of the
\* other.
LinkHeals ==
  <>[]WorksBothWays => []<>(\A e \in Agents \ noLocal : heard[Other(e)] \in 0 .. Stale)

\* A path delivers in one direction only.
OneWay ==
  \E a \in Addresses, e \in Agents :
    a \in Range(link[e].order) /\ road[e][a] = "up" /\ road[Other(e)][a] # "up"

\* Where no path delivers in one direction only, they hear each other without
\* a gap: no end goes on trying paths that do not work.
LinkHolds ==
  <>[](WorksBothWays /\ ~OneWay) =>
    <>[](\A e \in Agents \ noLocal : heard[Other(e)] \in 0 .. Stale)
=============================================================================
