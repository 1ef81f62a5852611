------------------------------- MODULE Limiter -------------------------------
(***************************************************************************)
(* The rate limiter: internal/app/ratelimit.go on internal/domain's        *)
(* token buckets.                                                          *)
(*                                                                         *)
(* Each client has one key with a bucket per limited window.  A request is *)
(* charged its base cost when it is admitted, and what it costs beyond     *)
(* that (the running time of a simulation, or the work a node reports) is  *)
(* owed while it runs and billed when it ends.  Everything below one       *)
(* action is one critical section of Limiter.mu in the code; between two   *)
(* of them the handlers, the Run loop and the composition root interleave. *)
(***************************************************************************)
EXTENDS Integers, FiniteSets, FiniteSetsExt

CONSTANTS
  Clients,      \* the clients' identities: "token:<name>" or "ip:<address>"
  Anonymous,    \* those of them identified by address only
  Overflow,     \* the identity of the allowance shared beyond MaxKeys
  MaxKeys,      \* clients tracked before anonymous ones share an allowance
  Windows,      \* the plan's limited windows
  Capacity,     \* credits each window holds
  Rate,         \* credits each window regains in one unit of time
  BaseCosts,    \* the base costs requests may have
  DefaultWeight,\* the cheapest request's weight: the floor of a refund
  SimRate,      \* what a simulation costs per unit of time
  Efforts,      \* what a node may report for one attempt, in credits
  MaxEffort,    \* bound: reports of one request are cut off at this sum
  Tickets,      \* the requests of a behaviour
  MaxNow,       \* bound on the clock
  MaxStops      \* bound on the kills and orderly stops of the process

ASSUME LimiterAssumption ==
  /\ Anonymous \subseteq Clients
  /\ Overflow \notin Clients
  /\ MaxKeys \in Nat
  /\ Capacity \in [Windows -> Nat \ {0}]
  /\ Rate \in [Windows -> Nat \ {0}]
  /\ BaseCosts \subseteq Nat
  /\ DefaultWeight \in Nat
  /\ SimRate \in Nat
  /\ Efforts \subseteq Nat
  /\ MaxEffort \in Nat
  /\ IsFiniteSet(Tickets)
  /\ MaxNow \in Nat
  /\ MaxStops \in Nat

VARIABLES
  now,        \* the clock, in units of the limiter's tick
  phase,      \* where the process is: "boot" (serving, the state file not
              \* read yet), "run", "drain" (Run has returned), "down"
  ticked,     \* the tick of this instant has run
  keys,       \* the keys in l.keys, and Overflow while l.overflow is set
  bucket,     \* each key's levels and when they were brought up to date
  active,     \* keys with a metered request in flight
  ticket,     \* each request's account
  file,       \* the state file: the keys in it, their buckets
  billed,     \* history: the credits charged to each key, and of other
              \* processes the ones the file was saved after
  forgiven,   \* history: those of them that load handed back
  stops       \* how often the process was killed or stopped

vars == <<now, phase, ticked, keys, bucket, active, ticket, file, billed, forgiven, stops>>

Keys == Clients \cup {Overflow}

Level == [Windows -> Int]

\* A bucket of a client never seen: full.
NewBucket == [level |-> Capacity, at |-> 0]

\* A request that has not arrived.
NoTicket == [st |-> "free", k |-> Overflow, base |-> 0, metered |-> FALSE,
             start |-> 0, extra |-> 0, frozen |-> FALSE, effort |-> 0,
             reported |-> FALSE, refunded |-> FALSE, cancel |-> FALSE,
             cancelled |-> FALSE, told |-> FALSE, cost |-> 0]

Init ==
  /\ now = 0
  /\ phase = "boot"
  /\ ticked = FALSE
  /\ keys = {}
  /\ bucket = [k \in Keys |-> NewBucket]
  /\ active = {}
  /\ ticket = [t \in Tickets |-> NoTicket]
  /\ file = [keys |-> {}, bucket |-> [k \in Clients |-> NewBucket],
             billed |-> [k \in Clients |-> 0], forgiven |-> [k \in Clients |-> 0]]
  /\ billed = [k \in Keys |-> 0]
  /\ forgiven = [k \in Keys |-> 0]
  /\ stops = 0

-----------------------------------------------------------------------------
(* The buckets.                                                            *)

\* Window.Refill for every window of a key: never beyond the capacity.
Refill(b) ==
  [level |-> [w \in Windows |->
                LET full == b.level[w] + Rate[w] * (now - b.at)
                IN  IF full < Capacity[w] THEN full ELSE Capacity[w]],
   at    |-> now]

\* limitKey.charge, on a refilled bucket.
Charge(b, cost) == [b EXCEPT !.level = [w \in Windows |-> @[w] - cost]]

\* Window.Full for both windows of a refilled bucket.
Full(b) == \A w \in Windows : b.level[w] >= Capacity[w]

Live == {t \in Tickets : ticket[t].st = "live"}

\* limitKey.flights: the billed requests in flight.
Flights(k) == {t \in Live : ticket[t].k = k}

\* limitKey.owed, over given accounts of the requests.
OwedIn(tk, k) == MapThenSumSet(LAMBDA t : tk[t].extra,
                               {t \in Tickets : tk[t].st = "live" /\ tk[t].k = k})

Owed(k) == OwedIn(ticket, k)

\* limitKey.shortfall: the buckets, less what is owed, hold the cost.
Covers(b, owed, cost) == cost = 0 \/ \A w \in Windows : b.level[w] - owed >= cost

\* limitKey.overdrawn
Overdrawn(b, owed) == \E w \in Windows : b.level[w] - owed < 0

\* (mutant) the first metered request to end takes the key off l.active
MeteringNoMore(k, t) == FALSE

\* limitKey.metering, once request t is gone.
StillMetering(k, t) == \E u \in Flights(k) \ {t} : ticket[u].metered

\* Ticket.meter
Meter(t) == SimRate * (now - ticket[t].start)

\* Ticket.settle: what the request costs beyond its base by now.
Settled(t) ==
  IF ticket[t].frozen \/ ~(ticket[t].reported \/ ticket[t].metered)
  THEN ticket[t].extra
  ELSE IF ticket[t].reported THEN ticket[t].effort ELSE Meter(t)

Serving == phase \in {"boot", "run", "drain"}

-----------------------------------------------------------------------------
(* Requests.                                                               *)

\* Limiter.key: the key client c is billed to.
KeyOf(c) ==
  IF c \notin keys /\ c \in Anonymous /\ Cardinality(keys \ {Overflow}) >= MaxKeys
  THEN Overflow ELSE c

\* Whether a plan can ever cover the cost; if not, Admit answers 403.
WithinPlan(cost) == \A w \in Windows : cost <= Capacity[w]

\* The bucket Admit looks at: refilled, full for a key just made.
Looked(k) == IF k \in keys THEN Refill(bucket[k]) ELSE [NewBucket EXCEPT !.at = now]

\* Limiter.Admit charges the base cost and opens the request's account.
Admit(c, t, cost, sim) ==
  LET k == KeyOf(c) IN
  /\ Serving
  /\ ticket[t].st = "free"
  /\ WithinPlan(cost)
  /\ Covers(Looked(k), Owed(k), cost)
  /\ keys' = keys \cup {k}
  /\ bucket' = [bucket EXCEPT ![k] = Charge(Looked(k), cost)]
  /\ billed' = [billed EXCEPT ![k] = @ + cost]
  /\ ticket' = [ticket EXCEPT ![t] = [NoTicket EXCEPT
                  !.st = "live", !.k = k, !.base = cost, !.metered = sim, !.start = now]]
  /\ active' = IF sim THEN active \cup {k} ELSE active
  /\ UNCHANGED <<now, phase, ticked, file, forgiven, stops>>

\* Limiter.Admit on a simulation whose body cannot be read: charged, then
\* answered 400 without an account.
AdmitUnreadable(c, t, cost) ==
  LET k == KeyOf(c) IN
  /\ Serving
  /\ ticket[t].st = "free"
  /\ WithinPlan(cost)
  /\ Covers(Looked(k), Owed(k), cost)
  /\ keys' = keys \cup {k}
  /\ bucket' = [bucket EXCEPT ![k] = Charge(Looked(k), cost)]
  /\ billed' = [billed EXCEPT ![k] = @ + cost]
  /\ ticket' = [ticket EXCEPT ![t].st = "done"]
  /\ UNCHANGED <<now, phase, ticked, active, file, forgiven, stops>>

\* Limiter.Admit answers 429: the bucket is brought up to date all the same.
Deny(c, cost) ==
  LET k == KeyOf(c) IN
  /\ Serving
  /\ WithinPlan(cost)
  /\ ~Covers(Looked(k), Owed(k), cost)
  /\ keys' = keys \cup {k}
  /\ bucket' = [bucket EXCEPT ![k] = Looked(k)]
  /\ UNCHANGED <<now, phase, ticked, active, ticket, file, billed, forgiven, stops>>

\* Ticket.Track: the router hands a simulation's cancel function over.
Track(t) ==
  /\ t \in Live /\ ticket[t].metered /\ ~ticket[t].cancel
  /\ ticket' = [ticket EXCEPT ![t].cancel = TRUE]
  /\ UNCHANGED <<now, phase, ticked, keys, bucket, active, file, billed, forgiven, stops>>

\* Ticket.Reported: a node's answer to one attempt carries its effort.  The
\* router makes no attempt once it has answered.
Reported(t, e) ==
  /\ t \in Live /\ ~ticket[t].told
  /\ ticket[t].effort + e <= MaxEffort
  /\ ticket' = [ticket EXCEPT ![t].effort = @ + e, ![t].reported = TRUE]
  /\ UNCHANGED <<now, phase, ticked, keys, bucket, active, file, billed, forgiven, stops>>

\* Ticket.refund: what a busy answer that cost no node any work gives back.
Back(t) == IF ticket[t].base > DefaultWeight THEN ticket[t].base - DefaultWeight ELSE 0

\* Ticket.Responding: the headers go out, once, busy being a 503 with a
\* Retry-After.
Responding(t, busy) ==
  LET k      == ticket[t].k
      refund == busy /\ ~ticket[t].reported /\ ~ticket[t].refunded
      back   == IF refund THEN Back(t) ELSE 0
      extra  == IF refund THEN 0 ELSE Settled(t)
  IN
  /\ t \in Live /\ ~ticket[t].told
  /\ ticket' = [ticket EXCEPT ![t].base = @ - back, ![t].extra = extra,
                  ![t].frozen = TRUE, ![t].refunded = @ \/ refund,
                  ![t].told = TRUE, ![t].cost = ticket[t].base - back + extra]
  /\ bucket' = [bucket EXCEPT ![k] = Refill(Charge(@, -back))]
  /\ billed' = [billed EXCEPT ![k] = @ - back]
  /\ UNCHANGED <<now, phase, ticked, keys, active, file, forgiven, stops>>

\* Ticket.Done bills what is owed.  The bucket is not refilled first: the
\* charge lands on the level of its last refill.
Done(t) ==
  LET k == ticket[t].k IN
  /\ t \in Live
  /\ ticket' = [ticket EXCEPT ![t] = [NoTicket EXCEPT !.st = "done"]]
  /\ active' = IF StillMetering(k, t) THEN active ELSE active \ {k}
  /\ bucket' = [bucket EXCEPT ![k] = Charge(@, Settled(t))]
  /\ billed' = [billed EXCEPT ![k] = @ + Settled(t)]
  /\ UNCHANGED <<now, phase, ticked, keys, file, forgiven, stops>>

\* Ticket.Exhausted: the answer to a request the limiter cut brings the bucket
\* up to date.
Exhausted(t) ==
  LET k == ticket[t].k IN
  /\ t \in Live /\ ticket[t].cancelled /\ ~ticket[t].told
  /\ bucket' = [bucket EXCEPT ![k] = Refill(@)]
  /\ UNCHANGED <<now, phase, ticked, keys, active, ticket, file, billed, forgiven, stops>>

-----------------------------------------------------------------------------
(* The Run loop.                                                           *)

\* (mutant) the tick meters a request whose price was told
MeteredOn == [t \in Tickets |->
  IF t \in Live /\ ticket[t].k \in active /\ ticket[t].metered
  THEN [ticket[t] EXCEPT !.extra = Meter(t)] ELSE ticket[t]]

\* The meters as the tick leaves them, before anything is cancelled.
Metered == [t \in Tickets |->
  IF t \in Live /\ ticket[t].k \in active /\ ticket[t].metered /\ ~ticket[t].frozen
  THEN [ticket[t] EXCEPT !.extra = Meter(t)] ELSE ticket[t]]

\* The requests the tick cancels: all that can be, of a key left overdrawn.
Cut == {t \in Live :
          /\ ticket[t].k \in active
          /\ Overdrawn(Refill(bucket[ticket[t].k]), OwedIn(Metered, ticket[t].k))
          /\ ~ticket[t].frozen
          /\ ticket[t].cancel}

\* Limiter.tick
Tick ==
  /\ phase = "run"
  /\ ticket' = [t \in Tickets |->
       IF t \in Cut THEN [Metered[t] EXCEPT !.frozen = TRUE, !.cancelled = TRUE]
       ELSE Metered[t]]
  /\ bucket' = [k \in Keys |-> IF k \in active THEN Refill(bucket[k]) ELSE bucket[k]]
  /\ ticked' = TRUE
  /\ UNCHANGED <<now, phase, keys, active, file, billed, forgiven, stops>>

\* The keys Limiter.sweep forgets: nothing in flight, both buckets full.
Idle(k) == Flights(k) = {} /\ Full(Refill(bucket[k]))

SweptClients == {k \in keys \cap Clients : Idle(k)}

\* (mutant) the shared allowance goes as soon as nobody spills into it
SweptOverflowInUse ==
  {k \in keys \cap {Overflow} : Cardinality((keys \cap Clients) \ SweptClients) < MaxKeys}

\* l.overflow is kept while the clients left would still spill into it.
SweptOverflow ==
  {k \in keys \cap {Overflow} :
     Idle(k) /\ Cardinality((keys \cap Clients) \ SweptClients) < MaxKeys}

Swept == SweptClients \cup SweptOverflow

\* Limiter.sweep, and the refills it makes.
SweptBucket ==
  [k \in Keys |-> IF k \in Swept THEN NewBucket
                  ELSE IF k \in keys /\ Flights(k) = {} THEN Refill(bucket[k])
                  ELSE bucket[k]]

\* (mutant) what requests in flight owe is not saved
SavedUnowed(b, k) == Refill(b[k])

\* What Limiter.save writes of key k: what is owed counts as spent.
SavedBucket(b, k) == Charge(Refill(b[k]), Owed(k))

\* Limiter.save: every client's allowance that is not full.  Overflow is not
\* among them.  What the file accounts for is kept with it.
Saved(ks, b) ==
  [keys   |-> {k \in ks \cap Clients : ~Full(SavedBucket(b, k))},
   bucket |-> [k \in Clients |->
                 IF k \in ks /\ ~Full(SavedBucket(b, k)) THEN SavedBucket(b, k)
                 ELSE NewBucket],
   billed |-> [k \in Clients |-> billed[k] + Owed(k)],
   forgiven |-> [k \in Clients |-> forgiven[k]]]

\* The file is replaced in one rename, or left as it was when it cannot be written.
WriteFile(ks, b) == file' \in {file, Saved(ks, b)}

\* The refills that saving makes.
SaveBucket(ks, b) ==
  [k \in Keys |-> IF k \in ks \cap Clients THEN Refill(b[k]) ELSE b[k]]

\* The save ticker of Run: sweep, then save.
SweepAndSave ==
  /\ phase = "run"
  /\ keys' = keys \ Swept
  /\ WriteFile(keys \ Swept, SweptBucket)
  /\ bucket' = SaveBucket(keys \ Swept, SweptBucket)
  /\ UNCHANGED <<now, phase, ticked, active, ticket, billed, forgiven, stops>>

\* Limiter.load, merged with what was spent since the start: a client already
\* seen keeps the lower level, so that of what was charged before the restart
\* and what was charged since it, the smaller is handed back.
Load ==
  LET saved(k)  == Refill(file.bucket[k])
      lower(k)  == [level |-> [w \in Windows |->
                       IF saved(k).level[w] < Refill(bucket[k]).level[w]
                       THEN saved(k).level[w] ELSE Refill(bucket[k]).level[w]],
                    at |-> now]
  IN
  /\ phase = "boot"
  /\ phase' = "run"
  /\ keys' = keys \cup file.keys
  /\ bucket' = [k \in Keys |->
       IF k \notin file.keys THEN bucket[k]
       ELSE IF k \in keys THEN lower(k) ELSE saved(k)]
  /\ billed' = [k \in Keys |-> IF k = Overflow THEN billed[k] ELSE billed[k] + file.billed[k]]
  /\ forgiven' = [k \in Keys |->
       IF k = Overflow THEN forgiven[k]
       ELSE IF k \notin file.keys THEN forgiven[k] + file.forgiven[k]
       ELSE IF file.billed[k] - file.forgiven[k] < billed[k] - forgiven[k]
            THEN forgiven[k] + file.billed[k]
       ELSE file.forgiven[k] + billed[k]]
  /\ UNCHANGED <<now, ticked, active, ticket, file, stops>>

\* Run saves once more when its context ends, and returns: no tick from here.
Stop ==
  /\ phase = "run"
  /\ stops < MaxStops
  /\ stops' = stops + 1
  /\ phase' = "drain"
  /\ WriteFile(keys, bucket)
  /\ bucket' = SaveBucket(keys, bucket)
  /\ UNCHANGED <<now, ticked, keys, active, ticket, billed, forgiven>>

-----------------------------------------------------------------------------
(* The process.                                                            *)

\* Memory is gone; what the file accounts for is all that will be known.  What
\* was charged since the last save that worked is lost with the process.
Forget ==
  /\ phase' = "down"
  /\ keys' = {}
  /\ bucket' = [k \in Keys |-> NewBucket]
  /\ active' = {}
  /\ ticket' = [t \in Tickets |->
       IF t \in Live THEN [NoTicket EXCEPT !.st = "done"] ELSE ticket[t]]
  /\ billed' = [k \in Keys |-> 0]
  /\ forgiven' = [k \in Keys |-> 0]

\* Agent.Serve's last save, once every request has drained or the drain has
\* timed out, and the exit of the process.
Exit ==
  /\ phase = "drain"
  /\ WriteFile(keys, bucket)
  /\ Forget
  /\ UNCHANGED <<now, ticked, stops>>

\* The process is killed: the state file is as the last save left it.
Crash ==
  /\ Serving
  /\ stops < MaxStops
  /\ stops' = stops + 1
  /\ Forget
  /\ UNCHANGED <<now, ticked, file>>

\* The process starts and serves at once; Run reads the file concurrently.
Boot ==
  /\ phase = "down"
  /\ phase' = "boot"
  /\ UNCHANGED <<now, ticked, keys, bucket, active, ticket, file, billed, forgiven, stops>>

\* Time passes.  While Run loops it ticks in every unit of time.
Advance ==
  /\ now < MaxNow
  /\ phase = "run" => ticked
  /\ now' = now + 1
  /\ ticked' = FALSE
  /\ UNCHANGED <<phase, keys, bucket, active, ticket, file, billed, forgiven, stops>>

Handler(t) ==
  \/ \E c \in Clients, cost \in BaseCosts, sim \in BOOLEAN : Admit(c, t, cost, sim)
  \/ \E c \in Clients, cost \in BaseCosts : AdmitUnreadable(c, t, cost)
  \/ Track(t)
  \/ \E e \in Efforts : Reported(t, e)
  \/ \E busy \in BOOLEAN : Responding(t, busy)
  \/ Exhausted(t)
  \/ Done(t)

Next ==
  \/ \E t \in Tickets : Handler(t)
  \/ \E c \in Clients, cost \in BaseCosts : Deny(c, cost)
  \/ Tick \/ SweepAndSave \/ Load \/ Stop
  \/ Exit \/ Crash \/ Boot \/ Advance

Spec == Init /\ [][Next]_vars

\* The Run loop's own steps happen: its ticker fires and its load returns; a
\* drain ends by its timeout.  Requests and the clock may stop at any time.
Fairness == WF_vars(Tick \/ Load \/ Exit)

FairSpec == Spec /\ Fairness

-----------------------------------------------------------------------------
(* Properties.                                                             *)

Buckets == [level : Level, at : Nat]

TicketRec ==
  [st : {"free", "live", "done"}, k : Keys, base : Nat,
   metered : BOOLEAN, start : Nat, extra : Nat, frozen : BOOLEAN, effort : Nat,
   reported : BOOLEAN, refunded : BOOLEAN, cancel : BOOLEAN,
   cancelled : BOOLEAN, told : BOOLEAN, cost : Nat]

\* Every variable has its type; levels may be negative, prices may not.
TypeOK ==
  /\ now \in Nat
  /\ phase \in {"boot", "run", "drain", "down"}
  /\ ticked \in BOOLEAN
  /\ keys \subseteq Keys
  /\ bucket \in [Keys -> Buckets]
  /\ active \subseteq Keys
  /\ ticket \in [Tickets -> TicketRec]
  /\ file \in [keys : SUBSET Clients, bucket : [Clients -> Buckets],
               billed : [Clients -> Int], forgiven : [Clients -> Int]]
  /\ billed \in [Keys -> Int]
  /\ forgiven \in [Keys -> Int]
  /\ stops \in Nat

\* What client k has left and what was charged to it never exceed a full
\* allowance, the refill of the time passed and what load handed back.
Accounted(k) ==
  \A w \in Windows :
    Refill(bucket[k]).level[w] + billed[k] <= Capacity[w] + Rate[w] * now + forgiven[k]

\* No sequence of refills, refunds, sweeps, saves, kills and reloads gives a
\* client credits beyond those of time and of load: sweep forgets a client
\* only when a fresh key is the same, save counts what is owed as spent, and
\* load hands back no more than the smaller of what was charged before the
\* restart and between the start and the load (Limiter.sweep, save, load).
NoFreeCredits == \A k \in Clients : Accounted(k)

\* The price in the X-Algod-Mesh-Cost header is the price that Done will bill,
\* whatever the tick or a late report do after the headers went out
\* (Ticket.Responding, settle, Done, Limiter.tick).
ToldIsBilled ==
  \A t \in Tickets : ticket[t].told => ticket[t].cost = ticket[t].base + Settled(t)

\* A request in flight keeps its key: its bill lands on the allowance that
\* later requests of the client are checked against (Limiter.sweep).
FlightsKeepTheirKey == \A t \in Live : ticket[t].k \in keys

\* The tick looks only at the keys in l.active: every metered request in
\* flight must be reachable from there, and nothing else keeps a key in it
\* (Limiter.Admit, Ticket.Done).
ActiveIsMetered == active = {ticket[t].k : t \in {u \in Live : ticket[u].metered}}

\* The requests in flight and the keys find each other, whatever is swept,
\* forgotten beyond MaxKeys or ended meanwhile (Limiter.sweep, Ticket.Done).
AccountsAgree == FlightsKeepTheirKey /\ ActiveIsMetered

\* A simulation that runs while its client is overdrawn.
RunsOverdrawn(t) ==
  /\ t \in Live /\ ticket[t].cancel /\ ~ticket[t].frozen
  /\ Overdrawn(Refill(bucket[ticket[t].k]), OwedIn(Metered, ticket[t].k))

\* A simulation of a client whose allowance ran out does not run on: it is
\* cancelled, or ends, or the allowance refills first (Limiter.tick).
OverdrawnIsCut == \A t \in Tickets : []<>~RunsOverdrawn(t)
=============================================================================
