---------------------------- MODULE LimiterProofs ----------------------------
(***************************************************************************)
(* The rate limiter's accounts, for any number of clients and requests and *)
(* any plan: the price told is the price billed, a request in flight keeps *)
(* its key, the keys the tick visits are exactly those with a metered      *)
(* request in flight, and no client is ever given credits beyond those of  *)
(* time and the ones load hands back.                                      *)
(***************************************************************************)
EXTENDS Limiter, FiniteSetTheorems, WellFoundedInduction, TLAPS

\* The requests' accounts have their types, and no request starts in the
\* future: the meter of a running one is a natural number.
AccountsOK ==
  /\ now \in Nat
  /\ active \subseteq Keys
  /\ keys \subseteq Keys
  /\ ticket \in [Tickets -> TicketRec]
  /\ \A t \in Tickets : ticket[t].start <= now

\* A price told is final: the response froze it.
TellingFreezes == \A t \in Tickets : ticket[t].told => ticket[t].frozen

\* ... and it is the sum of what the account holds.
PriceIsFinal ==
  \A t \in Tickets : ticket[t].told => ticket[t].cost = ticket[t].base + ticket[t].extra

\* The inductive invariant.
AccountsInv ==
  /\ AccountsOK
  /\ TellingFreezes
  /\ PriceIsFinal
  /\ FlightsKeepTheirKey
  /\ ActiveIsMetered

LEMMA NoTicketType == NoTicket \in TicketRec
BY DEF NoTicket, TicketRec, Keys

\* What a request costs beyond its base is never negative.
LEMMA SettledType ==
  ASSUME AccountsOK, NEW t \in Tickets
  PROVE  /\ Meter(t) \in Nat
         /\ Settled(t) \in Nat
         /\ ticket[t].frozen => Settled(t) = ticket[t].extra
<1> USE LimiterAssumption DEF AccountsOK
<1>1. /\ ticket[t] \in TicketRec
      /\ ticket[t].start \in Nat /\ ticket[t].extra \in Nat /\ ticket[t].effort \in Nat
      /\ ticket[t].frozen \in BOOLEAN /\ ticket[t].reported \in BOOLEAN
      /\ ticket[t].metered \in BOOLEAN
  BY DEF TicketRec
<1>2. now - ticket[t].start \in Nat
  BY <1>1
<1>3. Meter(t) \in Nat
  BY <1>1, <1>2 DEF Meter
<1>4. Settled(t) \in {ticket[t].extra, ticket[t].effort, Meter(t)}
  BY <1>1 DEF Settled
<1>5. ticket[t].frozen => Settled(t) = ticket[t].extra
  BY <1>1 DEF Settled
<1> QED BY <1>1, <1>3, <1>4, <1>5

LEMMA InitAccounts == Init => AccountsInv
<1> SUFFICES ASSUME Init PROVE AccountsInv
  OBVIOUS
<1>1. ticket \in [Tickets -> TicketRec] /\ \A t \in Tickets : ticket[t] = NoTicket
  BY NoTicketType DEF Init
<1>2. Live = {}
  BY <1>1 DEF Live, NoTicket
<1>3. AccountsOK
  <2>1. NoTicket.start = 0
    BY DEF NoTicket
  <2>2. now = 0 /\ keys = {} /\ active = {}
    BY DEF Init
  <2>3. \A t \in Tickets : ticket[t].start <= now
    BY <1>1, <2>1, <2>2
  <2> QED BY <1>1, <2>2, <2>3 DEF AccountsOK
<1>4. TellingFreezes /\ PriceIsFinal
  BY <1>1 DEF TellingFreezes, PriceIsFinal, NoTicket
<1>5. FlightsKeepTheirKey /\ ActiveIsMetered
  BY <1>2 DEF Init, FlightsKeepTheirKey, ActiveIsMetered
<1> QED BY <1>3, <1>4, <1>5 DEF AccountsInv

\* A step that leaves the accounts, the keys in use and the active set alone
\* leaves the invariant alone, whatever the clock does.
LEMMA AccountsUntouched ==
  ASSUME AccountsInv, ticket' = ticket, active' = active,
         keys \subseteq keys', keys' \subseteq Keys, now' \in Nat, now' >= now
  PROVE  AccountsInv'
<1>1. Live' = Live
  BY DEF Live
<1>2. AccountsOK'
  <2>1. \A t \in Tickets : ticket[t].start \in Nat
    BY DEF AccountsInv, AccountsOK, TicketRec
  <2> QED BY <2>1 DEF AccountsInv, AccountsOK
<1>3. TellingFreezes' /\ PriceIsFinal'
  BY DEF AccountsInv, TellingFreezes, PriceIsFinal
<1>4. FlightsKeepTheirKey'
  BY <1>1 DEF AccountsInv, FlightsKeepTheirKey
<1>5. ActiveIsMetered'
  BY <1>1 DEF AccountsInv, ActiveIsMetered
<1> QED BY <1>2, <1>3, <1>4, <1>5 DEF AccountsInv

LEMMA KeyOfType == \A c \in Clients : KeyOf(c) \in Keys
BY DEF KeyOf, Keys

LEMMA AdmitAccounts ==
  ASSUME AccountsInv, NEW c \in Clients, NEW t \in Tickets, NEW cost \in BaseCosts,
         NEW sim \in BOOLEAN, Admit(c, t, cost, sim)
  PROVE  AccountsInv'
<1> DEFINE k == KeyOf(c)
           new == [NoTicket EXCEPT !.st = "live", !.k = k, !.base = cost,
                                   !.metered = sim, !.start = now]
<1>1. k \in Keys /\ cost \in Nat /\ now \in Nat /\ now' = now
  BY KeyOfType, LimiterAssumption DEF AccountsInv, AccountsOK, Admit
<1>2. /\ new.st = "live" /\ new.k = k /\ new.metered = sim /\ new.start = now
      /\ new.told = FALSE
      /\ new \in TicketRec
  BY <1>1 DEF NoTicket, TicketRec
<1> HIDE DEF new, k
<1>3. /\ ticket \in [Tickets -> TicketRec]
      /\ ticket' = [ticket EXCEPT ![t] = new]
      /\ ticket[t].st = "free"
      /\ keys' = keys \cup {k}
      /\ active' = IF sim THEN active \cup {k} ELSE active
  BY DEF AccountsInv, AccountsOK, Admit, new, k
<1>4. ticket' \in [Tickets -> TicketRec] /\ ticket'[t] = new
      /\ \A u \in Tickets \ {t} : ticket'[u] = ticket[u]
  BY <1>2, <1>3
<1>5. Live' = Live \cup {t} /\ t \notin Live
  BY <1>2, <1>3, <1>4 DEF Live
<1>6. AccountsOK'
  BY <1>1, <1>2, <1>3, <1>4 DEF AccountsInv, AccountsOK
<1>7. TellingFreezes' /\ PriceIsFinal'
  BY <1>2, <1>4 DEF AccountsInv, TellingFreezes, PriceIsFinal
<1>8. FlightsKeepTheirKey'
  BY <1>2, <1>3, <1>4, <1>5 DEF AccountsInv, FlightsKeepTheirKey, Live
<1>9. ActiveIsMetered'
  BY <1>2, <1>3, <1>4, <1>5 DEF AccountsInv, ActiveIsMetered, Live
<1> QED BY <1>6, <1>7, <1>8, <1>9 DEF AccountsInv

\* The steps of a handler that write one live request's account, in a way that
\* keeps its key, its kind and its start, and leave the keys alone.
LEMMA AccountRewritten ==
  ASSUME AccountsInv, NEW t \in Live, NEW new \in TicketRec,
         ticket' = [ticket EXCEPT ![t] = new],
         new.st = "live", new.k = ticket[t].k, new.metered = ticket[t].metered,
         new.start = ticket[t].start,
         new.told => new.frozen /\ new.cost = new.base + new.extra,
         now' = now, keys' = keys, active' = active
  PROVE  AccountsInv'
<1>1. t \in Tickets /\ ticket[t].st = "live" /\ ticket \in [Tickets -> TicketRec]
  BY DEF Live, AccountsInv, AccountsOK
<1>2. /\ ticket' \in [Tickets -> TicketRec]
      /\ ticket'[t] = new
      /\ \A u \in Tickets \ {t} : ticket'[u] = ticket[u]
  BY <1>1
<1>3. Live' = Live
  BY <1>1, <1>2 DEF Live
<1>4. \A u \in Tickets : /\ ticket'[u].k = ticket[u].k
                         /\ ticket'[u].metered = ticket[u].metered
                         /\ ticket'[u].start = ticket[u].start
  BY <1>1, <1>2
<1>5. AccountsOK'
  BY <1>2, <1>4 DEF AccountsInv, AccountsOK
<1>6. TellingFreezes' /\ PriceIsFinal'
  BY <1>2 DEF AccountsInv, TellingFreezes, PriceIsFinal
<1>7. FlightsKeepTheirKey'
  BY <1>3, <1>4 DEF AccountsInv, FlightsKeepTheirKey, Live
<1>8. ActiveIsMetered'
  BY <1>3, <1>4 DEF AccountsInv, ActiveIsMetered, Live
<1> QED BY <1>5, <1>6, <1>7, <1>8 DEF AccountsInv

LEMMA TrackAccounts ==
  ASSUME AccountsInv, NEW t \in Tickets, Track(t)
  PROVE  AccountsInv'
<1> DEFINE new == [ticket[t] EXCEPT !.cancel = TRUE]
<1>1. t \in Live /\ ticket[t] \in TicketRec /\ ticket \in [Tickets -> TicketRec]
  BY DEF Track, Live, AccountsInv, AccountsOK
<1>2. new \in TicketRec
  BY <1>1 DEF TicketRec
<1>3. /\ new.st = "live" /\ new.k = ticket[t].k /\ new.metered = ticket[t].metered
      /\ new.start = ticket[t].start
      /\ new.told => new.frozen /\ new.cost = new.base + new.extra
  BY <1>1 DEF Live, TicketRec, AccountsInv, TellingFreezes, PriceIsFinal
<1>4. ticket' = [ticket EXCEPT ![t] = new] /\ now' = now /\ keys' = keys /\ active' = active
  BY DEF Track
<1> HIDE DEF new
<1> QED BY <1>1, <1>2, <1>3, <1>4, AccountRewritten

LEMMA ReportedAccounts ==
  ASSUME AccountsInv, NEW t \in Tickets, NEW e \in Efforts, Reported(t, e)
  PROVE  AccountsInv'
<1> DEFINE new == [ticket[t] EXCEPT !.effort = @ + e, !.reported = TRUE]
<1>1. t \in Live /\ ticket[t] \in TicketRec /\ ticket \in [Tickets -> TicketRec]
  BY DEF Reported, Live, AccountsInv, AccountsOK
<1>2. new \in TicketRec
  <2>1. ticket[t].effort + e \in Nat
    BY <1>1, LimiterAssumption DEF TicketRec
  <2> DEFINE sum == ticket[t].effort + e
  <2> HIDE DEF sum
  <2>2. [ticket[t] EXCEPT !.effort = sum, !.reported = TRUE] \in TicketRec
    BY <1>1, <2>1 DEF TicketRec, sum
  <2> QED BY <2>2 DEF sum
<1>3. /\ new.st = "live" /\ new.k = ticket[t].k /\ new.metered = ticket[t].metered
      /\ new.start = ticket[t].start
      /\ new.told => new.frozen /\ new.cost = new.base + new.extra
  BY <1>1 DEF Live, TicketRec, AccountsInv, TellingFreezes, PriceIsFinal
<1>4. ticket' = [ticket EXCEPT ![t] = new] /\ now' = now /\ keys' = keys /\ active' = active
  BY <1>1 DEF Reported
<1> HIDE DEF new
<1> QED BY <1>1, <1>2, <1>3, <1>4, AccountRewritten

LEMMA RespondingAccounts ==
  ASSUME AccountsInv, NEW t \in Tickets, NEW busy \in BOOLEAN, Responding(t, busy)
  PROVE  AccountsInv'
<1> DEFINE refund == busy /\ ~ticket[t].reported /\ ~ticket[t].refunded
           back   == IF refund THEN Back(t) ELSE 0
           extra  == IF refund THEN 0 ELSE Settled(t)
           new    == [ticket[t] EXCEPT !.base = @ - back, !.extra = extra,
                        !.frozen = TRUE, !.refunded = @ \/ refund,
                        !.told = TRUE, !.cost = ticket[t].base - back + extra]
<1>1. t \in Live /\ ticket[t] \in TicketRec /\ ticket \in [Tickets -> TicketRec]
  BY DEF Responding, Live, AccountsInv, AccountsOK
<1>2. extra \in Nat
  BY SettledType DEF AccountsInv
<1>3. ticket[t].base \in Nat /\ back \in Nat /\ ticket[t].base - back \in Nat
  BY <1>1, LimiterAssumption DEF Back, TicketRec
<1>4. ticket' = [ticket EXCEPT ![t] = new] /\ now' = now /\ keys' = keys /\ active' = active
  BY <1>1 DEF Responding
<1>5. refund \in BOOLEAN
  OBVIOUS
<1> HIDE DEF refund, back, extra
<1>6. new \in TicketRec
  <2> DEFINE base == ticket[t].base - back
             paid == ticket[t].base - back + extra
             ref  == ticket[t].refunded \/ refund
  <2>1. base \in Nat /\ paid \in Nat /\ ref \in BOOLEAN
    BY <1>2, <1>3
  <2> HIDE DEF base, paid, ref
  <2>2. [ticket[t] EXCEPT !.base = base, !.extra = extra, !.frozen = TRUE,
           !.refunded = ref, !.told = TRUE, !.cost = paid] \in TicketRec
    BY <1>1, <1>2, <2>1 DEF TicketRec
  <2> QED BY <2>2 DEF base, paid, ref
<1>7. /\ new.st = "live" /\ new.k = ticket[t].k /\ new.metered = ticket[t].metered
      /\ new.start = ticket[t].start
      /\ new.told => new.frozen /\ new.cost = new.base + new.extra
  BY <1>1 DEF Live, TicketRec
<1> HIDE DEF new
<1> QED BY <1>1, <1>4, <1>6, <1>7, AccountRewritten

LEMMA DoneAccounts ==
  ASSUME AccountsInv, NEW t \in Tickets, Done(t)
  PROVE  AccountsInv'
<1> DEFINE k   == ticket[t].k
           new == [NoTicket EXCEPT !.st = "done"]
<1>1. t \in Live /\ ticket[t] \in TicketRec /\ ticket \in [Tickets -> TicketRec]
  BY DEF Done, Live, AccountsInv, AccountsOK
<1>3. new \in TicketRec /\ new.st = "done" /\ new.start = 0 /\ new.told = FALSE
  BY NoTicketType DEF TicketRec, NoTicket
<1>4. /\ ticket' = [ticket EXCEPT ![t] = new]
      /\ now' = now /\ keys' = keys
      /\ active' = IF StillMetering(k, t) THEN active ELSE active \ {k}
  BY <1>1 DEF Done
<1> HIDE DEF new, k
<1>5. /\ ticket' \in [Tickets -> TicketRec]
      /\ ticket'[t] = new
      /\ \A u \in Tickets \ {t} : ticket'[u] = ticket[u]
  BY <1>1, <1>3, <1>4
<1>6. Live' = Live \ {t}
  BY <1>1, <1>3, <1>5 DEF Live
<1>7. AccountsOK'
  BY <1>3, <1>4, <1>5 DEF AccountsInv, AccountsOK
<1>8. TellingFreezes' /\ PriceIsFinal'
  BY <1>3, <1>5 DEF AccountsInv, TellingFreezes, PriceIsFinal
<1>9. FlightsKeepTheirKey'
  BY <1>4, <1>5, <1>6 DEF AccountsInv, FlightsKeepTheirKey, Live
<1>10. ActiveIsMetered'
  <2>1. StillMetering(k, t) <=> \E u \in Live \ {t} : ticket[u].k = k /\ ticket[u].metered
    BY DEF StillMetering, Flights
  <2>2. \A j : j \in active <=> \E u \in Live : ticket[u].metered /\ ticket[u].k = j
    BY DEF AccountsInv, ActiveIsMetered
  <2>3. \A j : j \in active' <=> \E u \in Live \ {t} : ticket[u].metered /\ ticket[u].k = j
    BY <1>1, <1>4, <2>1, <2>2 DEF k
  <2>4. \A u \in Live \ {t} : ticket'[u] = ticket[u]
    BY <1>5 DEF Live
  <2> QED BY <1>6, <2>3, <2>4 DEF ActiveIsMetered
<1> QED BY <1>7, <1>8, <1>9, <1>10 DEF AccountsInv

LEMMA TickAccounts ==
  ASSUME AccountsInv, Tick
  PROVE  AccountsInv'
<1>1. ticket \in [Tickets -> TicketRec]
  BY DEF AccountsInv, AccountsOK
<1>2. ASSUME NEW t \in Tickets
      PROVE  /\ Metered[t] \in TicketRec
             /\ Metered[t].st = ticket[t].st /\ Metered[t].k = ticket[t].k
             /\ Metered[t].metered = ticket[t].metered
             /\ Metered[t].start = ticket[t].start
             /\ Metered[t].told = ticket[t].told
             /\ Metered[t].frozen = ticket[t].frozen
             /\ ticket[t].frozen => Metered[t] = ticket[t]
  <2>1. Meter(t) \in Nat /\ ticket[t] \in TicketRec
    BY <1>1, SettledType DEF AccountsInv
  <2> DEFINE m == [ticket[t] EXCEPT !.extra = Meter(t)]
  <2>2. /\ m \in TicketRec
        /\ m.st = ticket[t].st /\ m.k = ticket[t].k /\ m.metered = ticket[t].metered
        /\ m.start = ticket[t].start /\ m.told = ticket[t].told
        /\ m.frozen = ticket[t].frozen
    BY <2>1 DEF TicketRec
  <2>3. Metered[t] = IF t \in Live /\ ticket[t].k \in active /\ ticket[t].metered /\ ~ticket[t].frozen
                     THEN m ELSE ticket[t]
    BY DEF Metered
  <2> HIDE DEF m
  <2> QED BY <2>1, <2>2, <2>3
<1>3. ASSUME NEW t \in Tickets
      PROVE  /\ ticket'[t] \in TicketRec
             /\ ticket'[t].st = ticket[t].st /\ ticket'[t].k = ticket[t].k
             /\ ticket'[t].metered = ticket[t].metered
             /\ ticket'[t].start = ticket[t].start
             /\ ticket'[t].told = ticket[t].told
             /\ ticket[t].frozen => ticket'[t] = ticket[t]
  <2> DEFINE c == [Metered[t] EXCEPT !.frozen = TRUE, !.cancelled = TRUE]
  <2>1. /\ c \in TicketRec
        /\ c.st = ticket[t].st /\ c.k = ticket[t].k /\ c.metered = ticket[t].metered
        /\ c.start = ticket[t].start /\ c.told = ticket[t].told
    <3> DEFINE m == Metered[t]
    <3>1. m \in TicketRec
      BY <1>2
    <3> HIDE DEF m
    <3>2. /\ [m EXCEPT !.frozen = TRUE, !.cancelled = TRUE] \in TicketRec
          /\ [m EXCEPT !.frozen = TRUE, !.cancelled = TRUE].st = m.st
          /\ [m EXCEPT !.frozen = TRUE, !.cancelled = TRUE].k = m.k
          /\ [m EXCEPT !.frozen = TRUE, !.cancelled = TRUE].metered = m.metered
          /\ [m EXCEPT !.frozen = TRUE, !.cancelled = TRUE].start = m.start
          /\ [m EXCEPT !.frozen = TRUE, !.cancelled = TRUE].told = m.told
      BY <3>1 DEF TicketRec
    <3> QED BY <1>2, <3>2 DEF m
  <2>2. ticket'[t] = IF t \in Cut THEN c ELSE Metered[t]
    BY DEF Tick
  <2>3. t \in Cut => ~ticket[t].frozen
    BY DEF Cut
  <2> HIDE DEF c
  <2> QED BY <1>2, <2>1, <2>2, <2>3
<1>4. ticket' \in [Tickets -> TicketRec]
  <2>1. ticket' = [t \in Tickets |-> ticket'[t]]
    BY DEF Tick
  <2> QED BY <1>3, <2>1
<1>5. Live' = Live
  BY <1>3 DEF Live
<1>6. now' = now /\ keys' = keys /\ active' = active
  BY DEF Tick
<1>7. AccountsOK'
  BY <1>3, <1>4, <1>6 DEF AccountsInv, AccountsOK
<1>8. TellingFreezes' /\ PriceIsFinal'
  BY <1>3 DEF AccountsInv, TellingFreezes, PriceIsFinal
<1>9. FlightsKeepTheirKey'
  BY <1>3, <1>5, <1>6 DEF AccountsInv, FlightsKeepTheirKey, Live
<1>10. ActiveIsMetered'
  BY <1>3, <1>5, <1>6 DEF AccountsInv, ActiveIsMetered, Live
<1> QED BY <1>7, <1>8, <1>9, <1>10 DEF AccountsInv

\* A key with a request in flight is never swept.
LEMMA SweepAccounts ==
  ASSUME AccountsInv, SweepAndSave
  PROVE  AccountsInv'
<1>1. ticket' = ticket /\ now' = now /\ active' = active /\ keys' = keys \ Swept
  BY DEF SweepAndSave
<1>2. Live' = Live
  BY <1>1 DEF Live
<1>3. \A t \in Live : ticket[t].k \notin Swept
  BY DEF Swept, SweptClients, SweptOverflow, Idle, Flights
<1>4. AccountsOK'
  BY <1>1 DEF AccountsInv, AccountsOK
<1>5. TellingFreezes' /\ PriceIsFinal'
  BY <1>1 DEF AccountsInv, TellingFreezes, PriceIsFinal
<1>6. FlightsKeepTheirKey'
  BY <1>1, <1>2, <1>3 DEF AccountsInv, FlightsKeepTheirKey
<1>7. ActiveIsMetered'
  BY <1>1, <1>2 DEF AccountsInv, ActiveIsMetered
<1> QED BY <1>4, <1>5, <1>6, <1>7 DEF AccountsInv

\* When the process ends, no request is left in flight.
LEMMA ForgetAccounts ==
  ASSUME AccountsInv, Forget, now' = now
  PROVE  AccountsInv'
<1>1. keys' = {} /\ active' = {} /\ ticket \in [Tickets -> TicketRec]
  BY DEF Forget, AccountsInv, AccountsOK
<1> DEFINE gone == [NoTicket EXCEPT !.st = "done"]
<1>2. gone \in TicketRec /\ gone.st = "done" /\ gone.told = FALSE /\ gone.start = 0
  BY NoTicketType DEF TicketRec, NoTicket
<1>3. ticket' = [t \in Tickets |-> IF t \in Live THEN gone ELSE ticket[t]]
  BY DEF Forget
<1> HIDE DEF gone
<1>4. ticket' \in [Tickets -> TicketRec]
      /\ \A t \in Tickets : ticket'[t] = gone \/ (ticket'[t] = ticket[t] /\ t \notin Live)
  BY <1>1, <1>2, <1>3
<1>5. Live' = {}
  BY <1>2, <1>4 DEF Live
<1>6. AccountsOK'
  BY <1>1, <1>2, <1>4 DEF AccountsInv, AccountsOK
<1>7. TellingFreezes' /\ PriceIsFinal'
  BY <1>2, <1>4 DEF AccountsInv, TellingFreezes, PriceIsFinal
<1>8. FlightsKeepTheirKey' /\ ActiveIsMetered'
  BY <1>1, <1>5 DEF FlightsKeepTheirKey, ActiveIsMetered
<1> QED BY <1>6, <1>7, <1>8 DEF AccountsInv

LEMMA UnreadableAccounts ==
  ASSUME AccountsInv, NEW c \in Clients, NEW t \in Tickets, NEW cost \in BaseCosts,
         AdmitUnreadable(c, t, cost)
  PROVE  AccountsInv'
<1> DEFINE new == [ticket[t] EXCEPT !.st = "done"]
<1>1. /\ ticket[t] \in TicketRec /\ ticket \in [Tickets -> TicketRec] /\ ticket[t].st = "free"
      /\ now' = now /\ active' = active /\ keys' = keys \cup {KeyOf(c)} /\ KeyOf(c) \in Keys
      /\ ticket' = [ticket EXCEPT ![t] = new]
  BY KeyOfType DEF AdmitUnreadable, AccountsInv, AccountsOK
<1>2. /\ new \in TicketRec /\ new.st = "done" /\ new.start = ticket[t].start
      /\ new.told = ticket[t].told /\ new.frozen = ticket[t].frozen
      /\ new.cost = ticket[t].cost /\ new.base = ticket[t].base /\ new.extra = ticket[t].extra
  BY <1>1 DEF TicketRec
<1> HIDE DEF new
<1>3. /\ ticket' \in [Tickets -> TicketRec] /\ ticket'[t] = new
      /\ \A u \in Tickets \ {t} : ticket'[u] = ticket[u]
  BY <1>1, <1>2
<1>4. Live' = Live /\ t \notin Live
  BY <1>1, <1>2, <1>3 DEF Live
<1>5. AccountsOK'
  BY <1>1, <1>2, <1>3 DEF AccountsInv, AccountsOK
<1>6. TellingFreezes' /\ PriceIsFinal'
  BY <1>2, <1>3 DEF AccountsInv, TellingFreezes, PriceIsFinal
<1>7. \A u \in Live : ticket'[u] = ticket[u]
  BY <1>3, <1>4 DEF Live
<1>8. FlightsKeepTheirKey' /\ ActiveIsMetered'
  BY <1>1, <1>4, <1>7 DEF AccountsInv, FlightsKeepTheirKey, ActiveIsMetered
<1> QED BY <1>5, <1>6, <1>8 DEF AccountsInv

\* The state file holds clients only: the shared allowance is never saved.
FileOK == file.keys \subseteq Clients

LEMMA FileHoldsClients == Spec => []FileOK
<1>1. Init => FileOK
  BY DEF Init, FileOK
<1>2. FileOK /\ [Next]_vars => FileOK'
  <2> SUFFICES ASSUME FileOK, [Next]_vars PROVE FileOK'
    OBVIOUS
  <2>1. \A ks, b : Saved(ks, b).keys \subseteq Clients
    BY DEF Saved
  <2>2. CASE SweepAndSave \/ Stop \/ Exit
    BY <2>1, <2>2 DEF SweepAndSave, Stop, Exit, WriteFile, FileOK
  <2>3. CASE UNCHANGED file
    BY <2>3 DEF FileOK
  <2>4. ASSUME NEW t \in Tickets, Handler(t) PROVE UNCHANGED file
    BY <2>4 DEF Handler, Admit, AdmitUnreadable, Track, Reported, Responding, Exhausted, Done
  <2>5. ASSUME NEW c \in Clients, NEW cost \in BaseCosts, Deny(c, cost) PROVE UNCHANGED file
    BY <2>5 DEF Deny
  <2>6. Tick \/ Load \/ Crash \/ Boot \/ Advance \/ UNCHANGED vars => UNCHANGED file
    BY DEF Tick, Load, Crash, Boot, Advance, vars
  <2> QED
    BY <2>2, <2>3, <2>4, <2>5, <2>6 DEF Next
<1> QED BY <1>1, <1>2, PTL DEF Spec

LEMMA ExhaustedAccounts ==
  ASSUME AccountsInv, NEW t \in Tickets, Exhausted(t)
  PROVE  AccountsInv'
<1>1. keys \subseteq Keys /\ now \in Nat
  BY DEF AccountsInv, AccountsOK
<1> QED BY <1>1, AccountsUntouched DEF Exhausted

\* Every step preserves the invariant.
LEMMA NextAccounts == AccountsInv /\ FileOK /\ [Next]_vars => AccountsInv'
<1> SUFFICES ASSUME AccountsInv, FileOK, [Next]_vars PROVE AccountsInv'
  OBVIOUS
<1>1. ASSUME NEW t \in Tickets, Handler(t) PROVE AccountsInv'
  BY <1>1, AdmitAccounts, UnreadableAccounts, TrackAccounts, ReportedAccounts,
     RespondingAccounts, ExhaustedAccounts, DoneAccounts DEF Handler
<1>2. ASSUME NEW c \in Clients, NEW cost \in BaseCosts, Deny(c, cost) PROVE AccountsInv'
  <2>1. KeyOf(c) \in Keys /\ keys \subseteq Keys /\ now \in Nat
    BY KeyOfType DEF AccountsInv, AccountsOK
  <2> QED BY <1>2, <2>1, AccountsUntouched DEF Deny
<1>3. CASE Tick
  BY <1>3, TickAccounts
<1>4. CASE SweepAndSave
  BY <1>4, SweepAccounts
<1>5. CASE Load
  <2>1. file.keys \subseteq Keys
    BY DEF Keys, FileOK
  <2> QED BY <1>5, <2>1, AccountsUntouched DEF Load, AccountsInv, AccountsOK
<1>6. CASE Stop \/ Boot \/ UNCHANGED vars
  <2>1. keys \subseteq Keys /\ now \in Nat
    BY DEF AccountsInv, AccountsOK
  <2> QED BY <1>6, <2>1, AccountsUntouched DEF Stop, Boot, vars
<1>7. CASE Advance
  <2>1. keys \subseteq Keys /\ now \in Nat
    BY DEF AccountsInv, AccountsOK
  <2> QED BY <1>7, <2>1, AccountsUntouched DEF Advance
<1>8. CASE Exit
  BY <1>8, ForgetAccounts DEF Exit
<1>9. CASE Crash
  BY <1>9, ForgetAccounts DEF Crash
<1> QED
  BY <1>1, <1>2, <1>3, <1>4, <1>5, <1>6, <1>7, <1>8, <1>9 DEF Next

\* The accounts' invariant holds in every reachable state.
THEOREM AccountsHold == Spec => []AccountsInv
BY InitAccounts, NextAccounts, FileHoldsClients, PTL DEF Spec

\* The price a client is told is the one it is billed.
THEOREM ToldIsBilledHolds == Spec => []ToldIsBilled
<1>1. AccountsInv => ToldIsBilled
  BY SettledType DEF AccountsInv, TellingFreezes, PriceIsFinal, ToldIsBilled
<1> QED BY <1>1, AccountsHold, PTL

\* A request in flight is never separated from its client's allowance.
THEOREM FlightsKeepTheirKeyHolds == Spec => []FlightsKeepTheirKey
<1>1. AccountsInv => FlightsKeepTheirKey
  BY DEF AccountsInv
<1> QED BY <1>1, AccountsHold, PTL

\* The tick reaches every metered request in flight, and visits no key without.
THEOREM ActiveIsMeteredHolds == Spec => []ActiveIsMetered
<1>1. AccountsInv => ActiveIsMetered
  BY DEF AccountsInv
<1> QED BY <1>1, AccountsHold, PTL

\* No sweep, save, load, crash or end of another request parts a request in
\* flight from its key, or hides its key from the tick.
THEOREM AccountsAgreeHolds == Spec => []AccountsAgree
<1>1. AccountsInv => AccountsAgree
  BY DEF AccountsInv, AccountsAgree
<1> QED BY <1>1, AccountsHold, PTL

-----------------------------------------------------------------------------
(* What is owed is a number.  The sum is a recursive function on the sets  *)
(* of requests, so that this takes two inductions on their size.           *)

LEMMA LeastNumber ==
  ASSUME NEW T \in SUBSET Nat, T # {}
  PROVE  \E n \in T : \A m \in T : n <= m
<1> DEFINE R == OpToRel(<, Nat)
<1>1. IsWellFoundedOn(R, Nat)
  BY NatLessThanWellFounded
<1>2. \A x, y \in Nat : y < x => <<y, x>> \in R
  BY DEF OpToRel
<1> HIDE DEF R
<1>3. PICK n \in T : \A m \in T : ~(<<m, n>> \in R)
  BY <1>1, WFMin
<1>4. \A m \in T : ~(m < n)
  BY <1>2, <1>3
<1>5. \A m \in T : n <= m
  BY <1>4
<1> QED BY <1>5

\* Induction, of a set of numbers.
LEMMA Inductive ==
  ASSUME NEW S, 0 \in S, \A n \in Nat : n \in S => n + 1 \in S
  PROVE  \A n \in Nat : n \in S
<1> SUFFICES ASSUME Nat \ S # {} PROVE FALSE
  OBVIOUS
<1>1. PICK n \in Nat \ S : \A m \in Nat \ S : n <= m
  BY LeastNumber
<1>2. n # 0 /\ n - 1 \in Nat /\ n - 1 \in S
  BY <1>1
<1>3. (n - 1) + 1 \in S
  BY <1>2
<1> QED BY <1>1, <1>3

Member(s) == CHOOSE x \in s : TRUE

OfSize(S, n) == {s \in SUBSET S : Cardinality(s) <= n}

OwedAt(tk, g, s) == IF s = {} THEN 0 ELSE tk[Member(s)].extra + g[s \ {Member(s)}]

OwedStep(tk, S, g) == [s \in SUBSET S |-> OwedAt(tk, g, s)]

FlightsIn(tk, k) == {t \in Tickets : tk[t].st = "live" /\ tk[t].k = k}

LEMMA OwedUnfolds ==
  ASSUME NEW tk, NEW k
  PROVE  OwedIn(tk, k) =
           (CHOOSE g : g = OwedStep(tk, FlightsIn(tk, k), g))[FlightsIn(tk, k)]
BY Zenon DEF OwedIn, MapThenSumSet, MapThenFoldSet, OwedStep, OwedAt, Member, FlightsIn

LEMMA SmallerSet ==
  ASSUME NEW S, IsFiniteSet(S), NEW s \in SUBSET S
  PROVE  /\ IsFiniteSet(s) /\ Cardinality(s) \in Nat /\ (Cardinality(s) = 0 <=> s = {})
         /\ s # {} => /\ Member(s) \in s
                      /\ s \ {Member(s)} \in SUBSET S
                      /\ Cardinality(s \ {Member(s)}) = Cardinality(s) - 1
<1>1. IsFiniteSet(s) /\ Cardinality(s) \in Nat
  BY FS_Subset, FS_CardinalityType
<1>2. Cardinality(s) = 0 <=> s = {}
  BY <1>1, FS_EmptySet
<1>3. s # {} => Member(s) \in s
  BY DEF Member
<1>4. s # {} => Cardinality(s \ {Member(s)}) = Cardinality(s) - 1
  BY <1>1, <1>3, FS_RemoveElement
<1> QED BY <1>1, <1>2, <1>3, <1>4

LEMMA SizeZero ==
  ASSUME NEW S, IsFiniteSet(S), NEW s \in OfSize(S, 0)
  PROVE  s = {} /\ s \in SUBSET S
<1>1. s \in SUBSET S /\ Cardinality(s) <= 0
  BY DEF OfSize
<1>2. Cardinality(s) \in Nat /\ (Cardinality(s) = 0 <=> s = {})
  BY <1>1, SmallerSet
<1>3. Cardinality(s) = 0
  BY <1>1, <1>2
<1> QED BY <1>1, <1>2, <1>3

LEMMA OwedExists ==
  ASSUME NEW tk, NEW S, IsFiniteSet(S)
  PROVE  \E g : g = OwedStep(tk, S, g)
<1> DEFINE Solves(g, n) == \A s \in OfSize(S, n) : g[s] = OwedAt(tk, g, s)
           N == {n \in Nat : \E g : Solves(g, n)}
<1>1. 0 \in N
  <2> DEFINE g == [s \in SUBSET S |-> 0]
  <2>1. \A s \in OfSize(S, 0) : s = {} /\ s \in SUBSET S
    BY SizeZero
  <2>2. Solves(g, 0)
    BY <2>1 DEF OwedAt
  <2> QED BY <2>2
<1>2. ASSUME NEW n \in Nat, n \in N PROVE n + 1 \in N
  <2>1. PICK g : Solves(g, n)
    BY <1>2
  <2> DEFINE h == [s \in SUBSET S |-> IF s \in OfSize(S, n) THEN g[s] ELSE OwedAt(tk, g, s)]
  <2>2. ASSUME NEW s \in OfSize(S, n + 1) PROVE h[s] = OwedAt(tk, h, s)
    <3>1. s \in SUBSET S /\ Cardinality(s) \in Nat /\ Cardinality(s) <= n + 1
      BY SmallerSet DEF OfSize
    <3>2. h[s] = OwedAt(tk, g, s)
      BY <2>1, <3>1
    <3>3. CASE s = {}
      BY <3>2, <3>3 DEF OwedAt
    <3>4. CASE s # {}
      <4> DEFINE r == s \ {Member(s)}
      <4>1. r \in SUBSET S /\ Cardinality(r) = Cardinality(s) - 1
        BY <3>1, <3>4, SmallerSet
      <4>2. r \in OfSize(S, n)
        BY <3>1, <4>1 DEF OfSize
      <4>3. h[r] = g[r]
        BY <4>1, <4>2
      <4> QED BY <3>2, <3>4, <4>3 DEF OwedAt
    <3> QED BY <3>3, <3>4
  <2>3. Solves(h, n + 1)
    BY <2>2
  <2>4. \E f : Solves(f, n + 1)
    <3> HIDE DEF h, Solves
    <3> QED BY <2>3
  <2> QED BY <2>4
<1> HIDE DEF N
<1>3. \A n \in Nat : n \in N
  BY <1>1, <1>2, Inductive
<1>4. Cardinality(S) \in N /\ Cardinality(S) \in Nat
  BY <1>3, FS_CardinalityType
<1>5. PICK g : Solves(g, Cardinality(S))
  BY <1>4 DEF N
<1>6. \A s \in SUBSET S : s \in OfSize(S, Cardinality(S))
  BY FS_Subset DEF OfSize
<1> DEFINE h == [s \in SUBSET S |-> g[s]]
<1>7. \A s \in SUBSET S : h[s] = OwedAt(tk, h, s)
  <2> SUFFICES ASSUME NEW s \in SUBSET S PROVE h[s] = OwedAt(tk, h, s)
    OBVIOUS
  <2>1. h[s] = OwedAt(tk, g, s)
    BY <1>5, <1>6
  <2>2. s # {} => h[s \ {Member(s)}] = g[s \ {Member(s)}]
    BY SmallerSet
  <2> QED BY <2>1, <2>2 DEF OwedAt
<1>8. h = OwedStep(tk, S, h)
  BY <1>7 DEF OwedStep
<1> QED BY <1>8

\* What the requests of a key owe is never negative, and nothing when there is none.
LEMMA OwedType ==
  ASSUME NEW tk \in [Tickets -> TicketRec], NEW k
  PROVE  OwedIn(tk, k) \in Nat /\ (FlightsIn(tk, k) = {} => OwedIn(tk, k) = 0)
<1> DEFINE S == FlightsIn(tk, k)
           g == CHOOSE f : f = OwedStep(tk, S, f)
<1>1. S \subseteq Tickets /\ IsFiniteSet(S)
  BY LimiterAssumption, FS_Subset DEF FlightsIn
<1>2. g = OwedStep(tk, S, g)
  BY <1>1, OwedExists
<1>3. OwedIn(tk, k) = g[S]
  BY OwedUnfolds
<1> HIDE DEF g, S
<1>4. \A s \in SUBSET S : g[s] = OwedAt(tk, g, s)
  BY <1>2 DEF OwedStep
<1> DEFINE N == {n \in Nat : \A s \in OfSize(S, n) : g[s] \in Nat}
<1>5. 0 \in N
  <2>1. \A s \in OfSize(S, 0) : s = {} /\ s \in SUBSET S
    BY <1>1, SizeZero
  <2>2. \A s \in OfSize(S, 0) : g[s] = 0
    BY <1>4, <2>1 DEF OwedAt
  <2> QED BY <2>2
<1>6. ASSUME NEW n \in Nat, n \in N PROVE n + 1 \in N
  <2> SUFFICES ASSUME NEW s \in OfSize(S, n + 1) PROVE g[s] \in Nat
    OBVIOUS
  <2>1. s \in SUBSET S /\ Cardinality(s) \in Nat /\ Cardinality(s) <= n + 1
    BY <1>1, SmallerSet DEF OfSize
  <2>2. CASE s = {}
    BY <1>4, <2>1, <2>2 DEF OwedAt
  <2>3. CASE s # {}
    <3> DEFINE r == s \ {Member(s)}
    <3>1. r \in SUBSET S /\ Cardinality(r) = Cardinality(s) - 1 /\ Member(s) \in Tickets
      BY <1>1, <2>1, <2>3, SmallerSet
    <3>2. r \in OfSize(S, n)
      BY <2>1, <3>1 DEF OfSize
    <3>3. g[r] \in Nat
      BY <1>6, <3>2
    <3>4. tk[Member(s)].extra \in Nat
      BY <3>1 DEF TicketRec
    <3>5. g[s] = tk[Member(s)].extra + g[r]
      BY <1>4, <2>1, <2>3 DEF OwedAt
    <3> HIDE DEF r
    <3> QED BY <3>3, <3>4, <3>5
  <2> QED BY <2>2, <2>3
<1> HIDE DEF N
<1>7. \A n \in Nat : n \in N
  BY <1>5, <1>6, Inductive
<1>8. Cardinality(S) \in N /\ Cardinality(S) \in Nat
  BY <1>1, <1>7, FS_CardinalityType
<1>9. S \in OfSize(S, Cardinality(S))
  BY <1>8 DEF OfSize
<1>10. g[S] \in Nat
  BY <1>8, <1>9 DEF N
<1>11. S = {} => g[S] = 0
  BY <1>4 DEF OwedAt
<1> QED BY <1>3, <1>10, <1>11 DEF S

-----------------------------------------------------------------------------
(***************************************************************************)
(* No free credits.  The bound of NoFreeCredits is not inductive: Done     *)
(* charges a bucket that was not refilled.  What is kept is the bound at   *)
(* the time of the bucket's last refill, for memory and for the file, and  *)
(* that a client without a bucket has spent no more than time has given    *)
(* back.  Until Load has run, memory and file each hold a part of what the *)
(* client was billed: there is a time s such that the file accounts for    *)
(* what was billed until s and memory for what was billed after it.        *)
(***************************************************************************)
\* What was charged to a key and not handed back, in memory and in a file.
Net(k) == billed[k] - forgiven[k]

NetIn(f, k) == f.billed[k] - f.forgiven[k]

Within(b, n, s) == \A w \in Windows : b.level[w] + n <= Capacity[w] + Rate[w] * (b.at - s)

GivenBack(n, d) == \A w \in Windows : n <= Rate[w] * d

MemoryInv(k, s) ==
  IF k \in keys
  THEN s <= bucket[k].at /\ bucket[k].at <= now /\ Within(bucket[k], Net(k), s)
  ELSE bucket[k] = NewBucket /\ GivenBack(Net(k), now - s)

FileInv(f, k) ==
  IF k \in f.keys
  THEN f.bucket[k].at <= now /\ Within(f.bucket[k], NetIn(f, k), 0)
  ELSE GivenBack(NetIn(f, k), now)

ClientInv(k) ==
  IF phase \in {"boot", "down"}
  THEN \E s \in 0 .. now :
         MemoryInv(k, s) /\ (k \notin file.keys => GivenBack(NetIn(file, k), s))
  ELSE MemoryInv(k, 0)

FileRec ==
  [keys : SUBSET Clients, bucket : [Clients -> Buckets],
   billed : [Clients -> Int], forgiven : [Clients -> Int]]

CreditTypes ==
  /\ phase \in {"boot", "run", "drain", "down"}
  /\ bucket \in [Keys -> Buckets] /\ billed \in [Keys -> Int] /\ forgiven \in [Keys -> Int]
  /\ file \in FileRec

CreditsInv == CreditTypes /\ \A k \in Clients : FileInv(file, k) /\ ClientInv(k)

\* What time gives back: the facts about Rate[w] * d that the rest needs.
LEMMA Regain ==
  ASSUME NEW w \in Windows, NEW a \in Int, NEW b \in Int
  PROVE  /\ Rate[w] * a \in Int /\ Rate[w] * b \in Int
         /\ Rate[w] * (a + b) = Rate[w] * a + Rate[w] * b
         /\ a <= b => Rate[w] * a <= Rate[w] * b
         /\ Rate[w] * 0 = 0
<1> DEFINE r == Rate[w]
<1>1. r \in Nat
  BY LimiterAssumption
<1> HIDE DEF r
<1>2. r * a \in Int /\ r * b \in Int /\ r * 0 = 0
  BY <1>1
<1>3. r * (a + b) = r * a + r * b
  BY <1>1
<1>4. a <= b => r * a <= r * b
  <2> SUFFICES ASSUME a <= b PROVE r * a <= r * b
    OBVIOUS
  <2>1. r * (b - a) >= 0
    BY <1>1
  <2>2. r * (b - a) = r * b - r * a
    BY <1>1
  <2> QED BY <1>2, <2>1, <2>2
<1> QED BY <1>2, <1>3, <1>4 DEF r

LEMMA NewBucketOK == NewBucket \in Buckets /\ NewBucket.level = Capacity /\ NewBucket.at = 0
BY LimiterAssumption DEF NewBucket, Buckets, Level

LEMMA RefillOK ==
  ASSUME now \in Nat, NEW b \in Buckets
  PROVE  /\ Refill(b) \in Buckets /\ Refill(b).at = now
         /\ \A w \in Windows : /\ Refill(b).level[w] <= Capacity[w]
                              /\ Refill(b).level[w] <= b.level[w] + Rate[w] * (now - b.at)
<1> DEFINE l == [w \in Windows |->
                  LET full == b.level[w] + Rate[w] * (now - b.at)
                  IN  IF full < Capacity[w] THEN full ELSE Capacity[w]]
<1>1. Refill(b) = [level |-> l, at |-> now]
  BY DEF Refill
<1>2. b.level \in [Windows -> Int] /\ b.at \in Nat
  BY DEF Buckets, Level
<1>3. ASSUME NEW w \in Windows
      PROVE  l[w] \in Int /\ l[w] <= Capacity[w] /\ l[w] <= b.level[w] + Rate[w] * (now - b.at)
  <2> DEFINE g == Rate[w] * (now - b.at)
  <2>1. g \in Int /\ b.level[w] \in Int /\ Capacity[w] \in Int
    BY <1>2, Regain, LimiterAssumption
  <2>2. l[w] = IF b.level[w] + g < Capacity[w] THEN b.level[w] + g ELSE Capacity[w]
    OBVIOUS
  <2> HIDE DEF g, l
  <2>3. l[w] \in Int /\ l[w] <= Capacity[w] /\ l[w] <= b.level[w] + g
    BY <2>1, <2>2
  <2> QED BY <2>3 DEF g
<1>4. l \in [Windows -> Int]
  BY <1>3
<1> HIDE DEF l
<1>5. Refill(b) \in Buckets /\ Refill(b).at = now /\ Refill(b).level = l
  BY <1>1, <1>4 DEF Buckets, Level
<1> QED BY <1>3, <1>5

\* Refilling keeps the bound: the level rises by what time gave back at most.
LEMMA RefillWithin ==
  ASSUME now \in Nat, NEW b \in Buckets, NEW n \in Int, NEW s \in Nat, Within(b, n, s)
  PROVE  Within(Refill(b), n, s)
<1> SUFFICES ASSUME NEW w \in Windows
             PROVE  Refill(b).level[w] + n <= Capacity[w] + Rate[w] * (now - s)
  BY RefillOK DEF Within
<1>1. Refill(b).level[w] \in Int /\ b.level[w] \in Int /\ b.at \in Nat /\ Capacity[w] \in Int
  BY RefillOK, LimiterAssumption DEF Buckets, Level
<1> DEFINE d == now - b.at
           e == b.at - s
           x == Rate[w] * d
           y == Rate[w] * e
           z == Rate[w] * (now - s)
<1>2. d \in Int /\ e \in Int /\ d + e = now - s
  BY <1>1
<1>3. x \in Int /\ y \in Int /\ z = x + y
  <2> HIDE DEF d, e
  <2>1. x \in Int /\ y \in Int /\ Rate[w] * (d + e) = x + y
    BY <1>2, Regain
  <2> QED BY <1>2, <2>1
<1>4. Refill(b).level[w] <= b.level[w] + x /\ b.level[w] + n <= Capacity[w] + y
  BY RefillOK DEF Within
<1> HIDE DEF x, y, z
<1>5. Refill(b).level[w] + n <= Capacity[w] + z
  BY <1>1, <1>2, <1>3, <1>4
<1> QED BY <1>5 DEF z

\* A charge moves credits from the level to the bill.
LEMMA ChargeOK ==
  ASSUME NEW b \in Buckets, NEW c \in Int, NEW n \in Int, NEW s \in Nat, Within(b, n, s)
  PROVE  Charge(b, c) \in Buckets /\ Charge(b, c).at = b.at /\ Within(Charge(b, c), n + c, s)
<1> DEFINE l == [w \in Windows |-> b.level[w] - c]
<1>1. b.level \in [Windows -> Int] /\ b.at \in Nat
  BY DEF Buckets, Level
<1>2. l \in [Windows -> Int] /\ \A w \in Windows : l[w] = b.level[w] - c
  BY <1>1
<1>3. Charge(b, c) = [b EXCEPT !.level = l]
  BY DEF Charge
<1> HIDE DEF l
<1>4. Charge(b, c) \in Buckets /\ Charge(b, c).at = b.at /\ Charge(b, c).level = l
  BY <1>2, <1>3 DEF Buckets, Level
<1>5. ASSUME NEW w \in Windows
      PROVE  Charge(b, c).level[w] + (n + c) <= Capacity[w] + Rate[w] * (b.at - s)
  <2>1. Rate[w] * (b.at - s) \in Int /\ Capacity[w] \in Int /\ b.level[w] \in Int
    BY <1>1, Regain, LimiterAssumption
  <2>2. b.level[w] + n <= Capacity[w] + Rate[w] * (b.at - s)
    BY DEF Within
  <2>3. Charge(b, c).level[w] + (n + c) = b.level[w] + n
    BY <1>2, <1>4, <2>1
  <2> QED BY <2>2, <2>3
<1> QED BY <1>4, <1>5 DEF Within

\* A client whose bucket is full has spent no more than time has given back.
LEMMA FullGivesBack ==
  ASSUME NEW b \in Buckets, NEW n \in Int, NEW s \in Nat, Within(b, n, s), Full(b)
  PROVE  GivenBack(n, b.at - s)
<1> SUFFICES ASSUME NEW w \in Windows PROVE n <= Rate[w] * (b.at - s)
  BY DEF GivenBack
<1>1. Rate[w] * (b.at - s) \in Int /\ Capacity[w] \in Int /\ b.level[w] \in Int
  BY Regain, LimiterAssumption DEF Buckets, Level
<1>2. b.level[w] + n <= Capacity[w] + Rate[w] * (b.at - s) /\ b.level[w] >= Capacity[w]
  BY DEF Within, Full
<1> QED BY <1>1, <1>2

\* The bucket Admit looks at keeps the bound.
LEMMA LookedOK ==
  ASSUME now \in Nat, CreditTypes, NEW k \in Keys, NEW s \in 0 .. now, MemoryInv(k, s)
  PROVE  Looked(k) \in Buckets /\ Looked(k).at = now /\ Within(Looked(k), Net(k), s)
<1>1. bucket[k] \in Buckets /\ Net(k) \in Int /\ s \in Nat
  BY DEF CreditTypes, Net
<1>2. CASE k \in keys
  BY <1>1, <1>2, RefillOK, RefillWithin DEF Looked, MemoryInv
<1>3. CASE k \notin keys
  <2> DEFINE z == NewBucket
             b == [z EXCEPT !.at = now]
  <2>1. z \in Buckets /\ z.level = Capacity
    BY NewBucketOK
  <2>2. Looked(k) = b
    BY <1>3 DEF Looked
  <2> HIDE DEF z
  <2>3. b \in Buckets /\ b.at = now /\ b.level = Capacity
    BY <2>1 DEF Buckets
  <2> HIDE DEF b
  <2>4. ASSUME NEW w \in Windows PROVE b.level[w] + Net(k) <= Capacity[w] + Rate[w] * (now - s)
    <3>1. Net(k) <= Rate[w] * (now - s)
      BY <1>3 DEF MemoryInv, GivenBack
    <3>2. Rate[w] * (now - s) \in Int /\ Capacity[w] \in Int
      BY <1>1, Regain, LimiterAssumption
    <3> QED BY <1>1, <2>3, <3>1, <3>2
  <2> QED BY <2>2, <2>3, <2>4 DEF Within
<1> QED BY <1>2, <1>3

\* A step that touches nothing the credits are about.
LEMMA CreditsUntouched ==
  ASSUME CreditsInv, UNCHANGED <<now, phase, keys, bucket, file, billed, forgiven>>
  PROVE  CreditsInv'
<1>1. CreditTypes'
  BY DEF CreditsInv, CreditTypes
<1>2. \A k \in Clients : FileInv(file, k)'
  BY DEF CreditsInv, FileInv, Within, GivenBack
<1>3. ASSUME NEW k \in Clients PROVE ClientInv(k)'
  <2>1. \A s : MemoryInv(k, s)' <=> MemoryInv(k, s)
    BY DEF MemoryInv, Within, GivenBack, Net
  <2> QED BY <2>1 DEF CreditsInv, ClientInv, GivenBack
<1> QED BY <1>1, <1>2, <1>3 DEF CreditsInv

\* A step that brings one key's bucket and bill from one bounded state to another.
LEMMA CreditsTouched ==
  ASSUME CreditsInv, now \in Nat, UNCHANGED <<now, phase, file, forgiven>>,
         NEW k \in Keys, NEW b \in Buckets, NEW m \in Int, NEW n \in Int,
         keys' = keys \cup {k}, bucket' = [bucket EXCEPT ![k] = b],
         billed' = [billed EXCEPT ![k] = m], n = m - forgiven[k],
         \A s \in 0 .. now : MemoryInv(k, s) => s <= b.at /\ b.at <= now /\ Within(b, n, s)
  PROVE  CreditsInv'
<1>1. /\ bucket' \in [Keys -> Buckets] /\ billed' \in [Keys -> Int]
      /\ \A j \in Keys : /\ bucket'[j] = IF j = k THEN b ELSE bucket[j]
                         /\ Net(j)' = IF j = k THEN n ELSE Net(j)
  BY DEF CreditsInv, CreditTypes, Net
<1>2. CreditTypes'
  BY <1>1 DEF CreditsInv, CreditTypes
<1>3. \A j \in Clients : FileInv(file, j)'
  BY DEF CreditsInv, FileInv, Within, GivenBack
<1>4. ASSUME NEW j \in Clients PROVE ClientInv(j)'
  <2>1. j \in Keys
    BY DEF Keys
  <2>2. ASSUME NEW s \in 0 .. now, MemoryInv(j, s) PROVE MemoryInv(j, s)'
    <3>1. CASE j = k
      <4>1. j \in keys' /\ bucket'[j] = b /\ Net(j)' = n
        BY <1>1, <2>1, <3>1
      <4>2. s <= b.at /\ b.at <= now /\ Within(b, n, s)
        BY <2>2, <3>1
      <4> QED BY <4>1, <4>2 DEF MemoryInv, Within
    <3>2. CASE j # k
      <4>1. (j \in keys' <=> j \in keys) /\ bucket'[j] = bucket[j] /\ Net(j)' = Net(j)
        BY <1>1, <2>1, <3>2
      <4> QED BY <2>2, <4>1 DEF MemoryInv, Within, GivenBack
    <3> QED BY <3>1, <3>2
  <2>3. 0 \in 0 .. now
    OBVIOUS
  <2> QED BY <2>2, <2>3 DEF CreditsInv, ClientInv, GivenBack
<1> QED BY <1>2, <1>3, <1>4 DEF CreditsInv

\* Admit, with or without an account, and Deny.
LEMMA AdmitCredits ==
  ASSUME CreditsInv, now \in Nat, UNCHANGED <<now, phase, file, forgiven>>,
         NEW c \in Clients, NEW cost \in BaseCosts \cup {0},
         keys' = keys \cup {KeyOf(c)},
         \/ bucket' = [bucket EXCEPT ![KeyOf(c)] = Charge(Looked(KeyOf(c)), cost)]
         \/ cost = 0 /\ bucket' = [bucket EXCEPT ![KeyOf(c)] = Looked(KeyOf(c))],
         billed' = [billed EXCEPT ![KeyOf(c)] = @ + cost]
  PROVE  CreditsInv'
<1> DEFINE k == KeyOf(c)
           m == billed[k] + cost
           n == Net(k) + cost
<1>1. k \in Keys /\ CreditTypes /\ cost \in Int
  BY KeyOfType, LimiterAssumption DEF CreditsInv
<1>2. /\ Net(k) \in Int /\ bucket[k] \in Buckets /\ n \in Int /\ m \in Int
      /\ n = m - forgiven[k]
  BY <1>1 DEF CreditTypes, Net
<1>3. billed' = [billed EXCEPT ![k] = m] /\ keys' = keys \cup {k}
  OBVIOUS
<1> HIDE DEF k
<1>4. Looked(k) \in Buckets
  <2>1. CASE k \in keys
    BY <1>2, <2>1, RefillOK DEF Looked
  <2>2. CASE k \notin keys
    <3> DEFINE z == NewBucket
    <3>1. z \in Buckets
      BY NewBucketOK
    <3>2. Looked(k) = [z EXCEPT !.at = now]
      BY <2>2 DEF Looked
    <3> HIDE DEF z
    <3> QED BY <3>1, <3>2 DEF Buckets
  <2> QED BY <2>1, <2>2
<1>5. CASE bucket' = [bucket EXCEPT ![k] = Charge(Looked(k), cost)]
  <2> DEFINE b == Charge(Looked(k), cost)
  <2>1. b \in Buckets
    <3> DEFINE l == [w \in Windows |-> Looked(k).level[w] - cost]
    <3>1. l \in Level
      BY <1>1, <1>4 DEF Buckets, Level
    <3>2. b = [Looked(k) EXCEPT !.level = l]
      BY DEF Charge
    <3> HIDE DEF l, b
    <3> QED BY <1>4, <3>1, <3>2 DEF Buckets
  <2>2. ASSUME NEW s \in 0 .. now, MemoryInv(k, s)
        PROVE  s <= b.at /\ b.at <= now /\ Within(b, n, s)
    <3>1. Looked(k).at = now /\ Within(Looked(k), Net(k), s) /\ s \in Nat
      BY <1>1, <2>2, LookedOK
    <3>2. b.at = now /\ Within(b, n, s)
      BY <1>1, <1>2, <1>4, <3>1, ChargeOK
    <3> HIDE DEF b
    <3> QED BY <3>2
  <2> HIDE DEF b, n, m
  <2> QED BY <1>1, <1>2, <1>3, <1>5, <2>1, <2>2, CreditsTouched DEF b
<1>6. CASE cost = 0 /\ bucket' = [bucket EXCEPT ![k] = Looked(k)]
  <2>1. n = Net(k)
    BY <1>2, <1>6
  <2>2. ASSUME NEW s \in 0 .. now, MemoryInv(k, s)
        PROVE  s <= Looked(k).at /\ Looked(k).at <= now /\ Within(Looked(k), n, s)
    <3>1. Looked(k).at = now /\ Within(Looked(k), Net(k), s) /\ s \in Nat /\ s <= now
      BY <1>1, <2>2, LookedOK
    <3> QED BY <2>1, <3>1
  <2> HIDE DEF n, m
  <2> QED BY <1>1, <1>2, <1>3, <1>4, <1>6, <2>2, CreditsTouched
<1> QED BY <1>5, <1>6 DEF k

\* A step that brings the bucket of a request in flight to b, and the bill to n.
LEMMA FlightCredits ==
  ASSUME CreditsInv, AccountsInv, UNCHANGED <<now, phase, keys, file, forgiven>>, NEW t \in Live,
         NEW b \in Buckets, NEW m \in Int, NEW n \in Int,
         bucket' = [bucket EXCEPT ![ticket[t].k] = b], billed' = [billed EXCEPT ![ticket[t].k] = m],
         n = m - forgiven[ticket[t].k],
         \A s \in Nat : /\ s <= bucket[ticket[t].k].at
                       /\ bucket[ticket[t].k].at <= now
                       /\ Within(bucket[ticket[t].k], Net(ticket[t].k), s)
                       => s <= b.at /\ b.at <= now /\ Within(b, n, s)
  PROVE  CreditsInv'
<1> DEFINE k == ticket[t].k
<1>1. k \in Keys /\ k \in keys /\ now \in Nat
  BY DEF AccountsInv, AccountsOK, FlightsKeepTheirKey, Live, TicketRec
<1>2. keys' = keys \cup {k}
  BY <1>1
<1>3. \A s \in 0 .. now : MemoryInv(k, s) => s <= b.at /\ b.at <= now /\ Within(b, n, s)
  BY <1>1 DEF MemoryInv
<1> HIDE DEF k
<1> QED BY <1>1, <1>2, <1>3, CreditsTouched DEF k

LEMMA RespondingCredits ==
  ASSUME CreditsInv, AccountsInv, NEW t \in Tickets, NEW busy \in BOOLEAN, Responding(t, busy)
  PROVE  CreditsInv'
<1> DEFINE k    == ticket[t].k
           back == IF busy /\ ~ticket[t].reported /\ ~ticket[t].refunded THEN Back(t) ELSE 0
           c    == Charge(bucket[k], -back)
           b    == Refill(c)
           m    == billed[k] - back
           n    == Net(k) - back
<1>1. /\ t \in Live /\ bucket' = [bucket EXCEPT ![k] = b] /\ billed' = [billed EXCEPT ![k] = m]
      /\ UNCHANGED <<now, phase, keys, file, forgiven>>
  BY DEF Responding
<1>2. ticket[t] \in TicketRec /\ k \in Keys /\ k \in keys /\ now \in Nat
  BY <1>1 DEF AccountsInv, AccountsOK, FlightsKeepTheirKey, TicketRec
<1>3. back \in Int
  BY <1>2, LimiterAssumption DEF Back, TicketRec
<1>4. bucket[k] \in Buckets /\ Net(k) \in Int /\ m \in Int /\ n = m - forgiven[k]
  BY <1>2, <1>3 DEF CreditsInv, CreditTypes, Net
<1> HIDE DEF k, back
<1>5. c \in Buckets /\ n \in Int /\ -back \in Int
  <2> DEFINE l == [w \in Windows |-> bucket[k].level[w] - (-back)]
  <2>1. l \in Level
    BY <1>3, <1>4 DEF Buckets, Level
  <2>2. c = [bucket[k] EXCEPT !.level = l]
    BY DEF Charge
  <2> HIDE DEF l, c
  <2> QED BY <1>3, <1>4, <2>1, <2>2 DEF Buckets
<1>6. b \in Buckets /\ b.at = now
  BY <1>2, <1>5, RefillOK
<1>7. ASSUME NEW s \in Nat, s <= bucket[k].at, bucket[k].at <= now, Within(bucket[k], Net(k), s)
      PROVE  s <= b.at /\ b.at <= now /\ Within(b, n, s)
  <2>1. Within(c, Net(k) + (-back), s)
    BY <1>4, <1>5, <1>7, ChargeOK
  <2>2. Net(k) + (-back) = n
    BY <1>3, <1>4
  <2>3. Within(c, n, s)
    BY <2>1, <2>2
  <2>4. Within(b, n, s)
    BY <1>2, <1>5, <2>3, RefillWithin
  <2>5. s <= now
    BY <1>2, <1>4, <1>7 DEF Buckets
  <2> HIDE DEF b, c, n
  <2> QED BY <1>2, <1>6, <2>4, <2>5
<1> HIDE DEF b, c, n, m
<1> QED BY <1>1, <1>4, <1>5, <1>6, <1>7, FlightCredits DEF k

LEMMA DoneCredits ==
  ASSUME CreditsInv, AccountsInv, NEW t \in Tickets, Done(t)
  PROVE  CreditsInv'
<1> DEFINE k == ticket[t].k
           b == Charge(bucket[k], Settled(t))
           m == billed[k] + Settled(t)
           n == Net(k) + Settled(t)
<1>1. /\ t \in Live /\ bucket' = [bucket EXCEPT ![k] = b] /\ billed' = [billed EXCEPT ![k] = m]
      /\ UNCHANGED <<now, phase, keys, file, forgiven>>
  BY DEF Done
<1>2. k \in Keys /\ k \in keys /\ now \in Nat /\ Settled(t) \in Int
  BY <1>1, SettledType DEF AccountsInv, AccountsOK, FlightsKeepTheirKey, TicketRec
<1>3. /\ bucket[k] \in Buckets /\ Net(k) \in Int /\ n \in Int /\ m \in Int
      /\ n = m - forgiven[k]
  BY <1>2 DEF CreditsInv, CreditTypes, Net
<1> HIDE DEF k
<1>4. b \in Buckets /\ b.at = bucket[k].at
  <2> DEFINE l == [w \in Windows |-> bucket[k].level[w] - Settled(t)]
  <2>1. l \in Level
    BY <1>2, <1>3 DEF Buckets, Level
  <2>2. b = [bucket[k] EXCEPT !.level = l]
    BY DEF Charge
  <2> HIDE DEF l, b
  <2> QED BY <1>3, <2>1, <2>2 DEF Buckets
<1>5. ASSUME NEW s \in Nat, s <= bucket[k].at, bucket[k].at <= now, Within(bucket[k], Net(k), s)
      PROVE  s <= b.at /\ b.at <= now /\ Within(b, n, s)
  <2>1. Within(b, n, s)
    BY <1>2, <1>3, <1>5, ChargeOK
  <2> HIDE DEF b
  <2> QED BY <1>4, <1>5, <2>1
<1> HIDE DEF b, n, m
<1> QED BY <1>1, <1>3, <1>4, <1>5, FlightCredits DEF k

LEMMA ExhaustedCredits ==
  ASSUME CreditsInv, AccountsInv, NEW t \in Tickets, Exhausted(t)
  PROVE  CreditsInv'
<1> DEFINE k == ticket[t].k
           b == Refill(bucket[k])
<1>1. /\ t \in Live /\ bucket' = [bucket EXCEPT ![k] = b] /\ billed' = billed
      /\ UNCHANGED <<now, phase, keys, file, forgiven>>
  BY DEF Exhausted
<1>2. k \in Keys /\ k \in keys /\ now \in Nat
  BY <1>1 DEF AccountsInv, AccountsOK, FlightsKeepTheirKey, TicketRec
<1>3. /\ bucket[k] \in Buckets /\ Net(k) \in Int /\ billed \in [Keys -> Int]
      /\ billed[k] \in Int /\ Net(k) = billed[k] - forgiven[k]
  BY <1>2 DEF CreditsInv, CreditTypes, Net
<1>4. b \in Buckets /\ b.at = now /\ billed' = [billed EXCEPT ![k] = billed[k]]
  BY <1>1, <1>2, <1>3, RefillOK
<1> HIDE DEF k
<1>5. ASSUME NEW s \in Nat, s <= bucket[k].at, bucket[k].at <= now, Within(bucket[k], Net(k), s)
      PROVE  s <= b.at /\ b.at <= now /\ Within(b, Net(k), s)
  <2>1. Within(b, Net(k), s)
    BY <1>2, <1>3, <1>5, RefillWithin
  <2>2. s <= now
    BY <1>2, <1>3, <1>5 DEF Buckets
  <2> HIDE DEF b
  <2> QED BY <1>2, <1>4, <2>1, <2>2
<1> HIDE DEF b
<1> QED BY <1>1, <1>3, <1>4, <1>5, FlightCredits DEF k

\* A step that refills the buckets of some keys on record.
LEMMA CreditsRefilled ==
  ASSUME CreditsInv, now \in Nat, UNCHANGED <<now, phase, keys, billed, forgiven, file>>,
         NEW ks, ks \cap Clients \subseteq keys, ks \subseteq Keys,
         bucket' = [k \in Keys |-> IF k \in ks THEN Refill(bucket[k]) ELSE bucket[k]]
  PROVE  CreditsInv'
<1>1. CreditTypes /\ bucket \in [Keys -> Buckets]
      /\ billed \in [Keys -> Int] /\ forgiven \in [Keys -> Int]
  BY DEF CreditsInv, CreditTypes
<1>2. bucket' \in [Keys -> Buckets]
  BY <1>1, RefillOK
<1>3. CreditTypes'
  BY <1>1, <1>2 DEF CreditTypes
<1>4. \A j \in Clients : FileInv(file, j)'
  BY DEF CreditsInv, FileInv, Within, GivenBack
<1>5. ASSUME NEW j \in Clients PROVE ClientInv(j)'
  <2>1. j \in Keys /\ bucket[j] \in Buckets /\ Net(j) \in Int /\ bucket[j].at \in Nat
    BY <1>1 DEF Keys, Buckets, Net
  <2>2. ASSUME NEW s \in 0 .. now, MemoryInv(j, s) PROVE MemoryInv(j, s)'
    <3>1. CASE j \in ks
      <4>1. j \in keys /\ bucket'[j] = Refill(bucket[j])
        BY <2>1, <3>1
      <4>2. s \in Nat /\ Within(bucket[j], Net(j), s)
        BY <2>2, <4>1 DEF MemoryInv
      <4>3. Within(Refill(bucket[j]), Net(j), s) /\ Refill(bucket[j]).at = now
        BY <2>1, <4>2, RefillOK, RefillWithin
      <4>4. s <= now
        OBVIOUS
      <4> QED BY <4>1, <4>3, <4>4 DEF MemoryInv, Within, Net
    <3>2. CASE j \notin ks
      <4>1. bucket'[j] = bucket[j]
        BY <2>1, <3>2
      <4> QED BY <2>2, <4>1 DEF MemoryInv, Within, GivenBack, Net
    <3> QED BY <3>1, <3>2
  <2>3. 0 \in 0 .. now
    OBVIOUS
  <2> QED BY <2>2, <2>3 DEF CreditsInv, ClientInv, GivenBack
<1> QED BY <1>3, <1>4, <1>5 DEF CreditsInv

LEMMA TickCredits ==
  ASSUME CreditsInv, AccountsInv, Tick
  PROVE  CreditsInv'
<1>1. active \subseteq keys /\ active \subseteq Keys /\ now \in Nat
  BY DEF AccountsInv, AccountsOK, ActiveIsMetered, FlightsKeepTheirKey
<1> QED BY <1>1, CreditsRefilled DEF Tick

\* A save writes a file that keeps the bound: what is owed is taken from the level
\* and added to the bill.
LEMMA SavedOK ==
  ASSUME AccountsInv, CreditTypes, NEW ks, NEW b \in [Keys -> Buckets],
         \A k \in Clients :
           IF k \in ks THEN b[k].at <= now /\ Within(b[k], Net(k), 0)
           ELSE GivenBack(Net(k), now) /\ Flights(k) = {}
  PROVE  Saved(ks, b) \in FileRec /\ \A k \in Clients : FileInv(Saved(ks, b), k)
<1> DEFINE f == Saved(ks, b)
           in(k) == k \in ks /\ ~Full(SavedBucket(b, k))
<1>1. now \in Nat /\ ticket \in [Tickets -> TicketRec]
  BY DEF AccountsInv, AccountsOK
<1>2. /\ f.keys = {k \in ks \cap Clients : ~Full(SavedBucket(b, k))}
      /\ f.bucket = [k \in Clients |-> IF in(k) THEN SavedBucket(b, k) ELSE NewBucket]
      /\ f.billed = [k \in Clients |-> billed[k] + Owed(k)]
      /\ f.forgiven = [k \in Clients |-> forgiven[k]]
      /\ f = [keys |-> f.keys, bucket |-> f.bucket, billed |-> f.billed, forgiven |-> f.forgiven]
  BY DEF Saved
<1>3. ASSUME NEW k \in Clients
      PROVE  /\ Owed(k) \in Nat /\ Net(k) \in Int /\ b[k] \in Buckets
             /\ billed[k] \in Int /\ forgiven[k] \in Int
             /\ Flights(k) = {} => Owed(k) = 0
  <2>1. Flights(k) = FlightsIn(ticket, k)
    BY DEF Flights, Live, FlightsIn
  <2>2. Owed(k) \in Nat /\ (Flights(k) = {} => Owed(k) = 0)
    BY <1>1, <2>1, OwedType DEF Owed
  <2> QED BY <2>2 DEF CreditTypes, Keys, Net
<1>4. ASSUME NEW k \in Clients
      PROVE  SavedBucket(b, k) \in Buckets
  <2> DEFINE r == Refill(b[k])
             l == [w \in Windows |-> r.level[w] - Owed(k)]
  <2>1. r \in Buckets /\ Owed(k) \in Int
    BY <1>1, <1>3, RefillOK
  <2>2. SavedBucket(b, k) = [r EXCEPT !.level = l]
    BY DEF SavedBucket, Charge
  <2> HIDE DEF r
  <2>3. l \in Level
    BY <2>1 DEF Buckets, Level
  <2> HIDE DEF l
  <2> QED BY <2>1, <2>2, <2>3 DEF Buckets
<1>5. ASSUME NEW k \in Clients, k \in ks
      PROVE  SavedBucket(b, k).at = now /\ Within(SavedBucket(b, k), Net(k) + Owed(k), 0)
  <2>1. Within(Refill(b[k]), Net(k), 0) /\ Refill(b[k]) \in Buckets /\ Refill(b[k]).at = now
    BY <1>1, <1>3, <1>5, RefillOK, RefillWithin
  <2>2. Owed(k) \in Int /\ Net(k) \in Int
    BY <1>3
  <2> QED BY <2>1, <2>2, ChargeOK DEF SavedBucket
<1>6. f \in FileRec
  <2>1. f.keys \in SUBSET Clients
    BY <1>2
  <2>2. f.bucket \in [Clients -> Buckets]
    BY <1>2, <1>4, NewBucketOK
  <2>3. f.billed \in [Clients -> Int] /\ f.forgiven \in [Clients -> Int]
    BY <1>2, <1>3
  <2> HIDE DEF f
  <2> QED BY <1>2, <2>1, <2>2, <2>3 DEF FileRec
<1>7. ASSUME NEW k \in Clients PROVE FileInv(f, k)
  <2>1. NetIn(f, k) = Net(k) + Owed(k)
    BY <1>2, <1>3 DEF Net, NetIn
  <2>2. CASE in(k)
    <3>1. k \in f.keys /\ f.bucket[k] = SavedBucket(b, k)
      BY <1>2, <2>2
    <3>2. SavedBucket(b, k).at = now /\ Within(SavedBucket(b, k), Net(k) + Owed(k), 0)
      BY <1>5, <2>2
    <3> HIDE DEF f
    <3> QED BY <1>1, <2>1, <3>1, <3>2 DEF FileInv
  <2>3. CASE k \in ks /\ Full(SavedBucket(b, k))
    <3>1. k \notin f.keys
      BY <1>2, <2>3
    <3> DEFINE n == Net(k) + Owed(k)
    <3>2. SavedBucket(b, k).at = now /\ Within(SavedBucket(b, k), n, 0) /\ n \in Int
      BY <1>3, <1>5, <2>3
    <3> HIDE DEF f, n
    <3>3. GivenBack(n, SavedBucket(b, k).at - 0)
      BY <1>4, <2>3, <3>2, FullGivesBack
    <3>4. SavedBucket(b, k).at - 0 = now
      BY <1>1, <3>2
    <3> QED BY <2>1, <3>1, <3>3, <3>4 DEF FileInv, n
  <2>4. CASE k \notin ks
    <3>1. k \notin f.keys
      BY <1>2, <2>4
    <3>2. Net(k) + Owed(k) = Net(k) /\ GivenBack(Net(k), now)
      BY <1>3, <2>4
    <3> HIDE DEF f
    <3> QED BY <2>1, <3>1, <3>2 DEF FileInv
  <2> QED BY <2>2, <2>3, <2>4
<1> QED BY <1>6, <1>7

\* While the agent runs, memory accounts for all that was billed.
LEMMA RunningCredits ==
  ASSUME CreditsInv, AccountsInv, phase \in {"run", "drain"}
  PROVE  /\ \A k \in Clients : MemoryInv(k, 0)
         /\ \A k \in Clients :
              IF k \in keys THEN bucket[k].at <= now /\ Within(bucket[k], Net(k), 0)
              ELSE GivenBack(Net(k), now) /\ Flights(k) = {}
<1>1. \A k \in Clients : MemoryInv(k, 0)
  BY DEF CreditsInv, ClientInv
<1>2. ASSUME NEW k \in Clients, k \notin keys PROVE GivenBack(Net(k), now) /\ Flights(k) = {}
  <2>1. now \in Nat /\ now - 0 = now
    BY DEF AccountsInv, AccountsOK
  <2>2. GivenBack(Net(k), now)
    BY <1>1, <1>2, <2>1 DEF MemoryInv
  <2>3. Flights(k) = {}
    BY <1>2 DEF AccountsInv, FlightsKeepTheirKey, Flights
  <2> QED BY <2>2, <2>3
<1> QED BY <1>1, <1>2 DEF MemoryInv

LEMMA SweepCredits ==
  ASSUME CreditsInv, AccountsInv, SweepAndSave
  PROVE  CreditsInv'
<1> DEFINE ks == keys \ Swept
<1>1. /\ phase = "run" /\ keys' = ks /\ file' \in {file, Saved(ks, SweptBucket)}
      /\ bucket' = SaveBucket(ks, SweptBucket) /\ UNCHANGED <<now, phase, billed, forgiven>>
  BY DEF SweepAndSave, WriteFile
<1>2. now \in Nat /\ keys \subseteq Keys /\ CreditTypes /\ bucket \in [Keys -> Buckets]
      /\ billed \in [Keys -> Int] /\ forgiven \in [Keys -> Int]
  BY DEF AccountsInv, AccountsOK, CreditsInv, CreditTypes
<1>3. Swept \subseteq keys /\ \A k \in Swept : Idle(k)
  BY DEF Swept, SweptClients, SweptOverflow
<1>4. SweptBucket \in [Keys -> Buckets]
  BY <1>2, NewBucketOK, RefillOK DEF SweptBucket
<1>5. ASSUME NEW k \in Clients
      PROVE  IF k \in ks THEN SweptBucket[k].at <= now /\ Within(SweptBucket[k], Net(k), 0)
             ELSE /\ SweptBucket[k] = NewBucket
                  /\ GivenBack(Net(k), now) /\ Flights(k) = {}
  <2>1. /\ k \in Keys /\ bucket[k] \in Buckets /\ Net(k) \in Int
        /\ bucket[k].at \in Nat /\ MemoryInv(k, 0)
    BY <1>1, <1>2, RunningCredits DEF Keys, Buckets, Net
  <2>2. CASE k \in ks
    <3>1. SweptBucket[k] \in {bucket[k], Refill(bucket[k])}
      BY <2>1, <2>2 DEF SweptBucket
    <3>2. bucket[k].at <= now /\ Within(bucket[k], Net(k), 0)
      BY <2>1, <2>2 DEF MemoryInv
    <3>3. Refill(bucket[k]).at = now /\ Within(Refill(bucket[k]), Net(k), 0)
      BY <1>2, <2>1, <3>2, RefillOK, RefillWithin
    <3> QED BY <1>2, <2>2, <3>1, <3>2, <3>3
  <2>3. CASE k \in Swept
    <3>1. k \in keys /\ Idle(k) /\ SweptBucket[k] = NewBucket
      BY <1>3, <2>1, <2>3 DEF SweptBucket
    <3>2. Within(bucket[k], Net(k), 0)
      BY <2>1, <3>1 DEF MemoryInv
    <3>3. /\ Refill(bucket[k]) \in Buckets /\ Refill(bucket[k]).at = now
          /\ Within(Refill(bucket[k]), Net(k), 0) /\ Full(Refill(bucket[k]))
      BY <1>2, <2>1, <3>1, <3>2, RefillOK, RefillWithin DEF Idle
    <3>4. GivenBack(Net(k), Refill(bucket[k]).at - 0)
      BY <2>1, <3>3, FullGivesBack
    <3>5. Refill(bucket[k]).at - 0 = now
      BY <1>2, <3>3
    <3>6. GivenBack(Net(k), now)
      BY <3>4, <3>5
    <3> QED BY <2>3, <3>1, <3>6 DEF Idle
  <2>4. CASE k \notin keys
    <3>1. k \notin Swept /\ SweptBucket[k] = bucket[k]
      BY <1>3, <2>1, <2>4 DEF SweptBucket
    <3>2. bucket[k] = NewBucket
      BY <2>1, <2>4 DEF MemoryInv
    <3>3. GivenBack(Net(k), now) /\ Flights(k) = {}
      BY <1>1, <2>4, RunningCredits
    <3> QED BY <2>4, <3>1, <3>2, <3>3
  <2> QED BY <2>2, <2>3, <2>4
<1> HIDE DEF ks
<1>6. Saved(ks, SweptBucket) \in FileRec /\ \A k \in Clients : FileInv(Saved(ks, SweptBucket), k)
  BY <1>2, <1>4, <1>5, SavedOK
<1>7. file' \in FileRec /\ \A k \in Clients : FileInv(file, k)'
  <2>1. file' \in FileRec /\ \A k \in Clients : FileInv(file', k)
    BY <1>1, <1>6 DEF CreditsInv, CreditTypes
  <2>2. ASSUME NEW k \in Clients, FileInv(file', k) PROVE FileInv(file, k)'
    BY <1>1, <2>2 DEF FileInv, Within, GivenBack
  <2> QED BY <2>1, <2>2
<1>8. bucket' \in [Keys -> Buckets]
  BY <1>1, <1>2, <1>4, RefillOK DEF SaveBucket
<1>9. CreditTypes'
  BY <1>1, <1>2, <1>7, <1>8 DEF CreditTypes
<1>10. ASSUME NEW k \in Clients PROVE MemoryInv(k, 0)'
  <2>1. k \in Keys /\ SweptBucket[k] \in Buckets /\ Net(k) \in Int
    BY <1>2, <1>4 DEF Keys, Net
  <2>2. CASE k \in ks
    <3>1. bucket'[k] = Refill(SweptBucket[k])
      BY <1>1, <2>1, <2>2 DEF SaveBucket
    <3>2. Refill(SweptBucket[k]).at = now /\ Within(Refill(SweptBucket[k]), Net(k), 0)
      BY <1>2, <1>5, <2>1, <2>2, RefillOK, RefillWithin
    <3> QED BY <1>1, <1>2, <2>2, <3>1, <3>2 DEF MemoryInv, Within, Net
  <2>3. CASE k \notin ks
    <3>1. bucket'[k] = NewBucket /\ GivenBack(Net(k), now) /\ now - 0 = now
      BY <1>1, <1>2, <1>5, <2>1, <2>3 DEF SaveBucket
    <3>2. GivenBack(Net(k), now - 0)
      BY <3>1
    <3> QED BY <1>1, <2>3, <3>1, <3>2 DEF MemoryInv, GivenBack, NewBucket, Net
  <2> QED BY <2>2, <2>3
<1>11. \A k \in Clients : ClientInv(k)'
  BY <1>1, <1>10 DEF ClientInv
<1> QED BY <1>7, <1>9, <1>11 DEF CreditsInv

\* What Stop and Exit write, while memory accounts for everything.
LEMMA WrittenOK ==
  ASSUME CreditsInv, AccountsInv, phase \in {"run", "drain"}, WriteFile(keys, bucket), now' = now
  PROVE  file' \in FileRec /\ \A k \in Clients : FileInv(file', k) /\ FileInv(file, k)'
<1>1. CreditTypes /\ bucket \in [Keys -> Buckets] /\ file \in FileRec
  BY DEF CreditsInv, CreditTypes
<1>2. Saved(keys, bucket) \in FileRec /\ \A k \in Clients : FileInv(Saved(keys, bucket), k)
  BY <1>1, RunningCredits, SavedOK
<1>3. file' \in FileRec /\ \A k \in Clients : FileInv(file', k)
  BY <1>1, <1>2 DEF CreditsInv, WriteFile
<1>4. ASSUME NEW k \in Clients PROVE FileInv(file, k)'
  BY <1>3 DEF FileInv, Within, GivenBack
<1> QED BY <1>3, <1>4

LEMMA StopCredits ==
  ASSUME CreditsInv, AccountsInv, Stop
  PROVE  CreditsInv'
<1>1. /\ phase = "run" /\ phase' = "drain" /\ WriteFile(keys, bucket)
      /\ bucket' = SaveBucket(keys, bucket) /\ UNCHANGED <<now, keys, billed, forgiven>>
  BY DEF Stop
<1>2. now \in Nat /\ CreditTypes /\ bucket \in [Keys -> Buckets]
      /\ billed \in [Keys -> Int] /\ forgiven \in [Keys -> Int]
  BY DEF AccountsInv, AccountsOK, CreditsInv, CreditTypes
<1>3. file' \in FileRec /\ \A k \in Clients : FileInv(file, k)'
  BY <1>1, WrittenOK
<1>4. bucket' \in [Keys -> Buckets]
  BY <1>1, <1>2, RefillOK DEF SaveBucket
<1>5. CreditTypes'
  BY <1>1, <1>2, <1>3, <1>4 DEF CreditTypes
<1>6. ASSUME NEW k \in Clients PROVE MemoryInv(k, 0)'
  <2>1. k \in Keys /\ bucket[k] \in Buckets /\ Net(k) \in Int /\ MemoryInv(k, 0)
    BY <1>1, <1>2, RunningCredits DEF Keys, Net
  <2>2. CASE k \in keys
    <3>1. bucket'[k] = Refill(bucket[k])
      BY <1>1, <2>1, <2>2 DEF SaveBucket
    <3>2. Within(bucket[k], Net(k), 0)
      BY <2>1, <2>2 DEF MemoryInv
    <3>3. Refill(bucket[k]).at = now /\ Within(Refill(bucket[k]), Net(k), 0)
      BY <1>2, <2>1, <3>2, RefillOK, RefillWithin
    <3> QED BY <1>1, <1>2, <2>2, <3>1, <3>3 DEF MemoryInv, Within, Net
  <2>3. CASE k \notin keys
    <3>1. bucket'[k] = bucket[k]
      BY <1>1, <2>1, <2>3 DEF SaveBucket
    <3> QED BY <1>1, <2>1, <2>3, <3>1 DEF MemoryInv, GivenBack, NewBucket, Net
  <2> QED BY <2>2, <2>3
<1>7. \A k \in Clients : ClientInv(k)'
  BY <1>1, <1>6 DEF ClientInv
<1> QED BY <1>3, <1>5, <1>7 DEF CreditsInv

\* The process is gone: from now on the file accounts for everything.
LEMMA ForgetCredits ==
  ASSUME CreditsInv, now \in Nat, Forget, now' = now, file' \in FileRec,
         \A k \in Clients : FileInv(file, k)'
  PROVE  CreditsInv'
<1>1. /\ phase' = "down" /\ keys' = {} /\ bucket' = [k \in Keys |-> NewBucket]
      /\ billed' = [k \in Keys |-> 0] /\ forgiven' = [k \in Keys |-> 0]
  BY DEF Forget
<1>2. CreditTypes'
  BY <1>1, NewBucketOK DEF CreditTypes
<1>3. ASSUME NEW k \in Clients PROVE ClientInv(k)'
  <2>1. k \in Keys /\ bucket'[k] = NewBucket /\ Net(k)' = 0
    BY <1>1 DEF Keys, Net
  <2>2. GivenBack(0, 0)
    BY Regain DEF GivenBack
  <2>3. MemoryInv(k, now)'
    <3>1. now' - now' = 0
      OBVIOUS
    <3>2. GivenBack(Net(k)', now' - now')
      BY <2>1, <2>2, <3>1
    <3> QED BY <1>1, <2>1, <3>2 DEF MemoryInv, GivenBack, NewBucket
  <2>4. k \notin file'.keys => GivenBack(NetIn(file', k), now')
    BY DEF FileInv, GivenBack
  <2>5. now' \in 0 .. now'
    OBVIOUS
  <2>6. MemoryInv(k, now)' /\ (k \notin file'.keys => GivenBack(NetIn(file', k), now'))
    BY <2>3, <2>4
  <2> QED BY <1>1, <2>5, <2>6 DEF ClientInv, MemoryInv, GivenBack, Within
<1> QED BY <1>2, <1>3 DEF CreditsInv

LEMMA ExitCredits ==
  ASSUME CreditsInv, AccountsInv, Exit
  PROVE  CreditsInv'
<1>1. phase = "drain" /\ WriteFile(keys, bucket) /\ Forget /\ now' = now /\ now \in Nat
  BY DEF Exit, AccountsInv, AccountsOK
<1>2. file' \in FileRec /\ \A k \in Clients : FileInv(file, k)'
  BY <1>1, WrittenOK
<1> QED BY <1>1, <1>2, ForgetCredits

LEMMA CrashCredits ==
  ASSUME CreditsInv, AccountsInv, Crash
  PROVE  CreditsInv'
<1>1. Forget /\ now' = now /\ file' = file /\ now \in Nat
  BY DEF Crash, AccountsInv, AccountsOK
<1>2. file' \in FileRec /\ \A k \in Clients : FileInv(file, k)'
  BY <1>1 DEF CreditsInv, CreditTypes, FileInv, Within, GivenBack
<1> QED BY <1>1, <1>2, ForgetCredits

LEMMA BootCredits ==
  ASSUME CreditsInv, Boot
  PROVE  CreditsInv'
<1>1. phase = "down" /\ phase' = "boot" /\ UNCHANGED <<now, keys, bucket, file, billed, forgiven>>
  BY DEF Boot
<1>2. CreditTypes'
  BY <1>1 DEF CreditsInv, CreditTypes
<1>3. \A k \in Clients : FileInv(file, k)'
  BY <1>1 DEF CreditsInv, FileInv, Within, GivenBack
<1>4. ASSUME NEW k \in Clients PROVE ClientInv(k)'
  <2>1. \A s : MemoryInv(k, s)' <=> MemoryInv(k, s)
    BY <1>1 DEF MemoryInv, Within, GivenBack, Net
  <2> QED BY <1>1, <2>1 DEF CreditsInv, ClientInv, GivenBack
<1> QED BY <1>2, <1>3, <1>4 DEF CreditsInv

\* More time gives back more.
LEMMA GivenBackLater ==
  ASSUME NEW n \in Int, NEW d \in Int, NEW e \in Int, d <= e, GivenBack(n, d)
  PROVE  GivenBack(n, e)
<1> SUFFICES ASSUME NEW w \in Windows PROVE n <= Rate[w] * e
  BY DEF GivenBack
<1>1. n <= Rate[w] * d
  BY DEF GivenBack
<1>2. Rate[w] * d <= Rate[w] * e /\ Rate[w] * d \in Int /\ Rate[w] * e \in Int
  BY Regain
<1> QED BY <1>1, <1>2

LEMMA AdvanceCredits ==
  ASSUME CreditsInv, AccountsInv, Advance
  PROVE  CreditsInv'
<1>1. now' = now + 1 /\ now \in Nat /\ UNCHANGED <<phase, keys, bucket, file, billed, forgiven>>
  BY DEF Advance, AccountsInv, AccountsOK
<1>2. CreditTypes /\ CreditTypes'
  BY <1>1 DEF CreditsInv, CreditTypes
<1>3. ASSUME NEW k \in Clients
      PROVE  /\ k \in Keys /\ bucket[k].at \in Nat /\ Net(k) \in Int
             /\ file.bucket[k].at \in Nat /\ NetIn(file, k) \in Int
  BY <1>2 DEF CreditTypes, FileRec, Keys, Buckets, Net, NetIn
<1>4. ASSUME NEW k \in Clients PROVE FileInv(file, k)'
  <2>1. FileInv(file, k)
    BY DEF CreditsInv
  <2>2. CASE k \in file.keys
    <3>1. file.bucket[k].at <= now /\ Within(file.bucket[k], NetIn(file, k), 0)
      BY <2>1, <2>2 DEF FileInv
    <3>2. file.bucket[k].at <= now'
      BY <1>1, <1>3, <3>1
    <3> QED BY <1>1, <2>2, <3>1, <3>2 DEF FileInv, Within
  <2>3. CASE k \notin file.keys
    <3>1. GivenBack(NetIn(file, k), now)
      BY <2>1, <2>3 DEF FileInv
    <3>2. GivenBack(NetIn(file, k), now')
      BY <1>1, <1>3, <3>1, GivenBackLater
    <3> QED BY <1>1, <2>3, <3>2 DEF FileInv, GivenBack
  <2> QED BY <2>2, <2>3
<1>5. ASSUME NEW k \in Clients, NEW s \in 0 .. now, MemoryInv(k, s) PROVE MemoryInv(k, s)'
  <2>1. CASE k \in keys
    <3>1. s <= bucket[k].at /\ bucket[k].at <= now /\ Within(bucket[k], Net(k), s)
      BY <1>5, <2>1 DEF MemoryInv
    <3>2. bucket[k].at <= now'
      BY <1>1, <1>3, <3>1
    <3> QED BY <1>1, <2>1, <3>1, <3>2 DEF MemoryInv, Within, Net
  <2>2. CASE k \notin keys
    <3>1. bucket[k] = NewBucket /\ GivenBack(Net(k), now - s)
      BY <1>5, <2>2 DEF MemoryInv
    <3>2. now - s \in Int /\ now' - s \in Int /\ now - s <= now' - s
      BY <1>1
    <3>3. GivenBack(Net(k), now' - s)
      BY <1>3, <3>1, <3>2, GivenBackLater
    <3> QED BY <1>1, <2>2, <3>1, <3>3 DEF MemoryInv, GivenBack, NewBucket, Net
  <2> QED BY <2>1, <2>2
<1>6. ASSUME NEW k \in Clients PROVE ClientInv(k)'
  <2>1. ClientInv(k)
    BY DEF CreditsInv
  <2>2. CASE phase \in {"boot", "down"}
    <3>1. PICK s \in 0 .. now : MemoryInv(k, s) /\ (k \notin file.keys => GivenBack(NetIn(file, k), s))
      BY <2>1, <2>2 DEF ClientInv
    <3>2. s \in 0 .. now'
      BY <1>1
    <3>3. MemoryInv(k, s)' /\ (k \notin file'.keys => GivenBack(NetIn(file', k), s))
      BY <1>1, <1>5, <3>1
    <3> QED BY <1>1, <2>2, <3>2, <3>3 DEF ClientInv, GivenBack
  <2>3. CASE phase \notin {"boot", "down"}
    <3>1. MemoryInv(k, 0) /\ 0 \in 0 .. now
      BY <1>1, <2>1, <2>3 DEF ClientInv
    <3> QED BY <1>1, <1>5, <2>3, <3>1 DEF ClientInv
  <2> QED BY <2>2, <2>3
<1> QED BY <1>2, <1>4, <1>6 DEF CreditsInv

\* A bound that counts time from s bounds all the more from the start, and by
\* what time gave back until s more.
LEMMA FromTheStart ==
  ASSUME NEW b \in Buckets, NEW n \in Int, NEW s \in Nat, Within(b, n, s)
  PROVE  /\ Within(b, n, 0)
         /\ \A m \in Int : GivenBack(m, s) => Within(b, n + m, 0)
<1>1. b.at \in Nat /\ b.level \in [Windows -> Int]
  BY DEF Buckets, Level
<1>2. ASSUME NEW m \in Int, GivenBack(m, s) PROVE Within(b, n + m, 0)
  <2> SUFFICES ASSUME NEW w \in Windows
               PROVE  b.level[w] + (n + m) <= Capacity[w] + Rate[w] * (b.at - 0)
    BY DEF Within
  <2> DEFINE d == b.at - s
             x == Rate[w] * d
             y == Rate[w] * s
             z == Rate[w] * (b.at - 0)
  <2>1. d \in Int /\ s \in Int /\ d + s = b.at - 0
    BY <1>1
  <2>2. x \in Int /\ y \in Int /\ z = x + y
    <3> HIDE DEF d
    <3>1. x \in Int /\ y \in Int /\ Rate[w] * (d + s) = x + y
      BY <2>1, Regain
    <3> QED BY <2>1, <3>1
  <2>3. b.level[w] + n <= Capacity[w] + x /\ m <= y
    BY <1>2 DEF Within, GivenBack
  <2>4. Capacity[w] \in Int /\ b.level[w] \in Int
    BY <1>1, LimiterAssumption
  <2> HIDE DEF x, y, z
  <2>5. b.level[w] + (n + m) <= Capacity[w] + z
    BY <2>2, <2>3, <2>4
  <2> QED BY <2>5 DEF z
<1>3. GivenBack(0, s)
  <2>1. GivenBack(0, 0)
    BY Regain DEF GivenBack
  <2> QED BY <2>1, GivenBackLater
<1>4. Within(b, n, 0)
  <2>1. Within(b, n + 0, 0) /\ n + 0 = n
    BY <1>2, <1>3
  <2> QED BY <2>1
<1> QED BY <1>2, <1>4

\* Load joins the two parts of the bill: their sum for a client whose saved
\* allowance was full, the larger of them with the lower level for the others.
LEMMA LoadCredits ==
  ASSUME CreditsInv, AccountsInv, Load
  PROVE  CreditsInv'
<1> DEFINE saved(k) == Refill(file.bucket[k])
           mine(k)  == Refill(bucket[k])
           least(k) == [w \in Windows |-> IF saved(k).level[w] < mine(k).level[w]
                                          THEN saved(k).level[w] ELSE mine(k).level[w]]
           lower(k) == [level |-> least(k), at |-> now]
           bill(k)  == IF NetIn(file, k) < Net(k) THEN Net(k) ELSE NetIn(file, k)
<1>1. /\ phase = "boot" /\ phase' = "run" /\ keys' = keys \cup file.keys
      /\ UNCHANGED <<now, file>> /\ now \in Nat
      /\ bucket' = [k \in Keys |-> IF k \notin file.keys THEN bucket[k]
                                   ELSE IF k \in keys THEN lower(k) ELSE saved(k)]
      /\ billed' = [k \in Keys |-> IF k = Overflow THEN billed[k] ELSE billed[k] + file.billed[k]]
      /\ forgiven' = [k \in Keys |->
           IF k = Overflow THEN forgiven[k]
           ELSE IF k \notin file.keys THEN forgiven[k] + file.forgiven[k]
           ELSE IF NetIn(file, k) < Net(k) THEN forgiven[k] + file.billed[k]
           ELSE file.forgiven[k] + billed[k]]
  BY DEF Load, AccountsInv, AccountsOK, Net, NetIn
<1>2. /\ CreditTypes /\ bucket \in [Keys -> Buckets]
      /\ billed \in [Keys -> Int] /\ forgiven \in [Keys -> Int]
      /\ file \in FileRec /\ file.keys \subseteq Clients
      /\ file.bucket \in [Clients -> Buckets] /\ file.billed \in [Clients -> Int]
      /\ file.forgiven \in [Clients -> Int]
  BY DEF CreditsInv, CreditTypes, FileRec
<1>3. ASSUME NEW k \in Clients
      PROVE  /\ k \in Keys /\ k # Overflow /\ bucket[k] \in Buckets /\ Net(k) \in Int
             /\ file.bucket[k] \in Buckets /\ NetIn(file, k) \in Int
             /\ bucket[k].at \in Nat
             /\ saved(k) \in Buckets /\ mine(k) \in Buckets
             /\ saved(k).at = now /\ mine(k).at = now
  <2>1. /\ k \in Keys /\ k # Overflow /\ bucket[k] \in Buckets /\ Net(k) \in Int
        /\ file.bucket[k] \in Buckets /\ NetIn(file, k) \in Int
    BY <1>2, LimiterAssumption DEF Keys, Net, NetIn
  <2>2. bucket[k].at \in Nat
    BY <2>1 DEF Buckets
  <2>3. /\ saved(k) \in Buckets /\ mine(k) \in Buckets
        /\ saved(k).at = now /\ mine(k).at = now
    BY <1>1, <2>1, RefillOK
  <2> QED BY <2>1, <2>2, <2>3
<1>4. ASSUME NEW k \in Clients
      PROVE  /\ lower(k) \in Buckets /\ lower(k).at = now
             /\ \A w \in Windows : /\ lower(k).level[w] <= saved(k).level[w]
                                  /\ lower(k).level[w] <= mine(k).level[w]
             /\ bill(k) \in {Net(k), NetIn(file, k)}
  <2> HIDE DEF saved, mine
  <2>1. saved(k).level \in [Windows -> Int] /\ mine(k).level \in [Windows -> Int]
    BY <1>3 DEF Buckets, Level
  <2>2. /\ least(k) \in [Windows -> Int]
        /\ \A w \in Windows : /\ least(k)[w] <= saved(k).level[w]
                             /\ least(k)[w] <= mine(k).level[w]
    BY <2>1
  <2> HIDE DEF least
  <2>3. lower(k) \in Buckets /\ lower(k).at = now /\ lower(k).level = least(k)
    BY <1>1, <2>2 DEF Buckets, Level
  <2> QED BY <2>2, <2>3
<1>5. ASSUME NEW k \in Clients
      PROVE  /\ bucket'[k] = IF k \notin file.keys THEN bucket[k]
                             ELSE IF k \in keys THEN lower(k) ELSE saved(k)
             /\ Net(k)' = IF k \notin file.keys THEN Net(k) + NetIn(file, k) ELSE bill(k)
             /\ billed'[k] \in Int /\ forgiven'[k] \in Int
  <2>1. k \in Keys /\ k # Overflow
    BY <1>3
  <2>2. billed[k] \in Int /\ forgiven[k] \in Int /\ file.billed[k] \in Int /\ file.forgiven[k] \in Int
    BY <1>2, <2>1
  <2>3. bucket'[k] = IF k \notin file.keys THEN bucket[k]
                     ELSE IF k \in keys THEN lower(k) ELSE saved(k)
    BY <1>1, <2>1
  <2>4. /\ billed'[k] = billed[k] + file.billed[k]
        /\ forgiven'[k] = IF k \notin file.keys THEN forgiven[k] + file.forgiven[k]
                          ELSE IF NetIn(file, k) < Net(k) THEN forgiven[k] + file.billed[k]
                          ELSE file.forgiven[k] + billed[k]
    BY <1>1, <2>1
  <2>5. Net(k)' = IF k \notin file.keys THEN Net(k) + NetIn(file, k) ELSE bill(k)
    BY <2>2, <2>4 DEF Net, NetIn
  <2> QED BY <2>2, <2>3, <2>4, <2>5
<1> HIDE DEF saved, mine, lower, bill
<1>6. CreditTypes'
  <2>1. bucket' \in [Keys -> Buckets]
    <3>1. \A k \in Keys : bucket[k] \in Buckets
      BY <1>2
    <3>2. \A k \in file.keys : lower(k) \in Buckets /\ saved(k) \in Buckets
      BY <1>2, <1>3, <1>4
    <3> QED BY <1>1, <3>1, <3>2
  <2>2. \A k \in Keys : billed'[k] \in Int /\ forgiven'[k] \in Int
    <3> SUFFICES ASSUME NEW k \in Keys PROVE billed'[k] \in Int /\ forgiven'[k] \in Int
      OBVIOUS
    <3>1. CASE k = Overflow
      BY <1>1, <1>2, <3>1
    <3>2. CASE k \in Clients
      BY <1>5, <3>2
    <3> QED BY <3>1, <3>2 DEF Keys
  <2>3. billed' \in [Keys -> Int] /\ forgiven' \in [Keys -> Int]
    <3> DEFINE bs == billed'
               fs == forgiven'
    <3>1. bs = [k \in Keys |-> bs[k]] /\ fs = [k \in Keys |-> fs[k]]
      BY <1>1
    <3> QED BY <2>2, <3>1
  <2> QED BY <1>1, <1>2, <2>1, <2>3 DEF CreditTypes
<1>7. ASSUME NEW k \in Clients PROVE FileInv(file, k)'
  BY <1>1 DEF CreditsInv, FileInv, Within, GivenBack
<1>8. ASSUME NEW k \in Clients PROVE MemoryInv(k, 0)'
  <2>1. PICK s \in 0 .. now : MemoryInv(k, s) /\ (k \notin file.keys => GivenBack(NetIn(file, k), s))
    BY <1>1 DEF CreditsInv, ClientInv
  <2>2. s \in Nat /\ s <= now
    BY <1>1
  <2>3. FileInv(file, k)
    BY DEF CreditsInv
  <2>4. CASE k \notin file.keys /\ k \in keys
    <3>1. /\ bucket'[k] = bucket[k] /\ Net(k)' = Net(k) + NetIn(file, k) /\ k \in keys'
      BY <1>1, <1>3, <1>5, <2>4
    <3>2. bucket[k].at <= now /\ Within(bucket[k], Net(k), s)
      BY <2>1, <2>4 DEF MemoryInv
    <3>3. Within(bucket[k], Net(k) + NetIn(file, k), 0)
      BY <1>3, <2>1, <2>2, <2>4, <3>2, FromTheStart
    <3>4. 0 <= bucket[k].at
      BY <1>3
    <3> QED BY <1>1, <3>1, <3>2, <3>3, <3>4 DEF MemoryInv, Within
  <2>5. CASE k \notin file.keys /\ k \notin keys
    <3>1. /\ bucket'[k] = bucket[k] /\ Net(k)' = Net(k) + NetIn(file, k) /\ k \notin keys'
      BY <1>1, <1>3, <1>5, <2>5
    <3>2. /\ bucket[k] = NewBucket /\ GivenBack(Net(k), now - s)
          /\ GivenBack(NetIn(file, k), s)
      BY <2>1, <2>5 DEF MemoryInv
    <3>3. GivenBack(Net(k) + NetIn(file, k), now - 0)
      <4> SUFFICES ASSUME NEW w \in Windows
                   PROVE  Net(k) + NetIn(file, k) <= Rate[w] * (now - 0)
        BY DEF GivenBack
      <4> DEFINE d == now - s
                 x == Rate[w] * d
                 y == Rate[w] * s
                 z == Rate[w] * (now - 0)
      <4>1. d \in Int /\ s \in Int /\ d + s = now - 0
        BY <1>1, <2>2
      <4>2. x \in Int /\ y \in Int /\ z = x + y
        <5> HIDE DEF d
        <5>1. x \in Int /\ y \in Int /\ Rate[w] * (d + s) = x + y
          BY <4>1, Regain
        <5> QED BY <4>1, <5>1
      <4>3. Net(k) <= x /\ NetIn(file, k) <= y
        BY <3>2 DEF GivenBack
      <4> HIDE DEF x, y, z
      <4>4. Net(k) + NetIn(file, k) <= z
        BY <1>3, <4>2, <4>3
      <4> QED BY <4>4 DEF z
    <3> QED BY <1>1, <3>1, <3>2, <3>3 DEF MemoryInv, GivenBack, NewBucket
  <2>6. CASE k \in file.keys
    <3> DEFINE b == IF k \in keys THEN lower(k) ELSE saved(k)
    <3>1. bucket'[k] = b /\ Net(k)' = bill(k) /\ k \in keys'
      BY <1>1, <1>3, <1>5, <2>6
    <3>2. /\ b \in Buckets /\ b.at = now
          /\ \A w \in Windows : b.level[w] <= saved(k).level[w]
      <4>1. saved(k).level \in [Windows -> Int]
        BY <1>3 DEF Buckets, Level
      <4> QED BY <1>3, <1>4, <4>1
    <3>3. Within(saved(k), NetIn(file, k), 0)
      BY <1>1, <1>3, <2>3, <2>6, RefillWithin DEF FileInv, saved
    <3>4. ASSUME NEW w \in Windows
          PROVE  /\ b.level[w] + NetIn(file, k) <= Capacity[w] + Rate[w] * (now - 0)
                 /\ b.level[w] + Net(k) <= Capacity[w] + Rate[w] * (now - 0)
      <4> DEFINE z == Rate[w] * (now - 0)
      <4>1. /\ z \in Int /\ Capacity[w] \in Int /\ b.level[w] \in Int
            /\ saved(k).level[w] \in Int /\ mine(k).level[w] \in Int
        BY <1>1, <1>3, <3>2, Regain, LimiterAssumption DEF Buckets, Level
      <4>2. saved(k).level[w] + NetIn(file, k) <= Capacity[w] + z
        BY <1>3, <3>3 DEF Within
      <4>3. b.level[w] <= saved(k).level[w]
        BY <3>2
      <4>4. CASE k \in keys
        <5>1. Within(bucket[k], Net(k), s)
          BY <2>1, <4>4 DEF MemoryInv
        <5>2. Within(bucket[k], Net(k), 0)
          BY <1>3, <2>2, <5>1, FromTheStart
        <5>3. Within(mine(k), Net(k), 0)
          BY <1>1, <1>3, <5>2, RefillWithin DEF mine
        <5>4. mine(k).level[w] + Net(k) <= Capacity[w] + z
          BY <1>3, <5>3 DEF Within
        <5>5. b.level[w] <= mine(k).level[w]
          BY <1>4, <4>4
        <5> HIDE DEF z, b
        <5>6. /\ b.level[w] + NetIn(file, k) <= Capacity[w] + z
              /\ b.level[w] + Net(k) <= Capacity[w] + z
          BY <1>3, <4>1, <4>2, <4>3, <5>4, <5>5
        <5> QED BY <5>6 DEF z
      <4>5. CASE k \notin keys
        <5>1. GivenBack(Net(k), now - s)
          BY <2>1, <4>5 DEF MemoryInv
        <5>2. now - s \in Int /\ now - 0 \in Int /\ now - s <= now - 0
          BY <1>1, <2>2
        <5>3. GivenBack(Net(k), now - 0)
          BY <1>3, <5>1, <5>2, GivenBackLater
        <5>4. Net(k) <= z
          BY <5>3 DEF GivenBack
        <5>5. saved(k).level[w] <= Capacity[w]
          BY <1>1, <1>3, RefillOK DEF saved
        <5> HIDE DEF z, b
        <5>6. /\ b.level[w] + NetIn(file, k) <= Capacity[w] + z
              /\ b.level[w] + Net(k) <= Capacity[w] + z
          BY <1>3, <4>1, <4>2, <4>3, <5>4, <5>5
        <5> QED BY <5>6 DEF z
      <4> QED BY <4>4, <4>5
    <3>5. Within(b, bill(k), 0)
      <4>1. bill(k) = Net(k) \/ bill(k) = NetIn(file, k)
        BY <1>4
      <4> HIDE DEF b
      <4> QED BY <3>2, <3>4, <4>1 DEF Within
    <3> HIDE DEF b
    <3>6. 0 <= now
      BY <1>1
    <3> QED BY <1>1, <3>1, <3>2, <3>5, <3>6 DEF MemoryInv, Within
  <2> QED BY <2>4, <2>5, <2>6
<1>9. \A k \in Clients : ClientInv(k)'
  BY <1>1, <1>8 DEF ClientInv
<1> QED BY <1>6, <1>7, <1>9 DEF CreditsInv

LEMMA InitCredits == Init => CreditsInv
<1> SUFFICES ASSUME Init PROVE CreditsInv
  OBVIOUS
<1>1. /\ now = 0 /\ phase = "boot" /\ keys = {} /\ bucket = [k \in Keys |-> NewBucket]
      /\ billed = [k \in Keys |-> 0] /\ forgiven = [k \in Keys |-> 0] /\ file.keys = {}
      /\ file.bucket = [k \in Clients |-> NewBucket]
      /\ file.billed = [k \in Clients |-> 0] /\ file.forgiven = [k \in Clients |-> 0]
  BY DEF Init
<1>2. file \in FileRec
  <2>1. file = [keys |-> {}, bucket |-> [k \in Clients |-> NewBucket],
                billed |-> [k \in Clients |-> 0], forgiven |-> [k \in Clients |-> 0]]
    BY DEF Init
  <2>2. [k \in Clients |-> NewBucket] \in [Clients -> Buckets]
    BY NewBucketOK
  <2> QED BY <2>1, <2>2 DEF FileRec
<1>3. CreditTypes
  BY <1>1, <1>2, NewBucketOK DEF CreditTypes
<1>4. GivenBack(0, 0)
  BY Regain DEF GivenBack
<1>5. ASSUME NEW k \in Clients PROVE FileInv(file, k) /\ ClientInv(k)
  <2>1. k \in Keys /\ bucket[k] = NewBucket /\ Net(k) = 0 /\ NetIn(file, k) = 0
    BY <1>1 DEF Keys, Net, NetIn
  <2>2. MemoryInv(k, 0) /\ FileInv(file, k)
    <3>1. GivenBack(Net(k), now - 0) /\ GivenBack(NetIn(file, k), now)
      BY <1>1, <1>4, <2>1
    <3> QED BY <1>1, <2>1, <3>1 DEF MemoryInv, FileInv
  <2>3. 0 \in 0 .. now /\ GivenBack(NetIn(file, k), 0)
    BY <1>1, <1>4, <2>1
  <2> QED BY <1>1, <2>2, <2>3 DEF ClientInv
<1> QED BY <1>3, <1>5 DEF CreditsInv

\* Every step preserves the invariant.
LEMMA NextCredits == AccountsInv /\ CreditsInv /\ [Next]_vars => CreditsInv'
<1> SUFFICES ASSUME AccountsInv, CreditsInv, [Next]_vars PROVE CreditsInv'
  OBVIOUS
<1>1. now \in Nat /\ billed \in [Keys -> Int]
  BY DEF AccountsInv, AccountsOK, CreditsInv, CreditTypes
<1>2. ASSUME NEW t \in Tickets, Handler(t) PROVE CreditsInv'
  <2>1. ASSUME NEW c \in Clients, NEW cost \in BaseCosts, NEW sim \in BOOLEAN, Admit(c, t, cost, sim)
        PROVE  CreditsInv'
    BY <1>1, <2>1, AdmitCredits DEF Admit
  <2>2. ASSUME NEW c \in Clients, NEW cost \in BaseCosts, AdmitUnreadable(c, t, cost)
        PROVE  CreditsInv'
    BY <1>1, <2>2, AdmitCredits DEF AdmitUnreadable
  <2>3. ASSUME Track(t) PROVE CreditsInv'
    BY <2>3, CreditsUntouched DEF Track
  <2>4. ASSUME NEW e \in Efforts, Reported(t, e) PROVE CreditsInv'
    BY <2>4, CreditsUntouched DEF Reported
  <2> QED BY <1>2, <2>1, <2>2, <2>3, <2>4, RespondingCredits, ExhaustedCredits, DoneCredits DEF Handler
<1>3. ASSUME NEW c \in Clients, NEW cost \in BaseCosts, Deny(c, cost) PROVE CreditsInv'
  <2> DEFINE k == KeyOf(c)
             no == 0
  <2>1. k \in Keys /\ no \in BaseCosts \cup {0}
    BY KeyOfType
  <2>2. billed' = [billed EXCEPT ![k] = @ + no]
    <3>1. billed[k] + 0 = billed[k]
      BY <1>1, <2>1
    <3> HIDE DEF k
    <3>2. billed = [billed EXCEPT ![k] = billed[k]]
      BY <1>1, <2>1
    <3> QED BY <1>3, <3>1, <3>2 DEF Deny
  <2>3. /\ UNCHANGED <<now, phase, file, forgiven>> /\ keys' = keys \cup {k}
        /\ no = 0 /\ bucket' = [bucket EXCEPT ![k] = Looked(k)]
    BY <1>3 DEF Deny
  <2> HIDE DEF no
  <2> QED BY <1>1, <2>1, <2>2, <2>3, AdmitCredits
<1>4. CASE UNCHANGED vars
  BY <1>4, CreditsUntouched DEF vars
<1> QED
  BY <1>2, <1>3, <1>4, TickCredits, SweepCredits, LoadCredits, StopCredits, ExitCredits,
     CrashCredits, BootCredits, AdvanceCredits DEF Next

\* The bound on memory and file holds in every reachable state: whatever is
\* swept, saved, lost in a crash and loaded again, no credit is counted twice.
THEOREM CreditsInvariant == Spec => []CreditsInv
BY InitCredits, NextCredits, AccountsHold, PTL DEF Spec

\* No sequence of refills, refunds, sweeps, saves, kills and reloads gives a
\* client credits beyond those of time and the ones load hands back, for any
\* plan and any number of clients.
THEOREM NoFreeCreditsHolds == Spec => []NoFreeCredits
<1>1. AccountsInv /\ CreditsInv => NoFreeCredits
  <2> SUFFICES ASSUME AccountsInv, CreditsInv, NEW k \in Clients PROVE Accounted(k)
    BY DEF NoFreeCredits
  <2>1. /\ now \in Nat /\ k \in Keys /\ bucket[k] \in Buckets /\ Net(k) \in Int
        /\ bucket[k].at \in Nat /\ billed[k] \in Int /\ forgiven[k] \in Int
    BY DEF AccountsInv, AccountsOK, CreditsInv, CreditTypes, Keys, Buckets, Net
  <2>2. PICK s \in 0 .. now : MemoryInv(k, s)
    <3>1. 0 \in 0 .. now
      BY <2>1
    <3> QED BY <3>1 DEF CreditsInv, ClientInv
  <2>3. s \in Nat /\ s <= now
    BY <2>1
  <2>4. Refill(bucket[k]).at = now /\ Refill(bucket[k]) \in Buckets /\ now - 0 = now
    BY <2>1, RefillOK
  <2>5. ASSUME \A w \in Windows :
                 Refill(bucket[k]).level[w] + Net(k) <= Capacity[w] + Rate[w] * now
        PROVE  Accounted(k)
    <3> SUFFICES ASSUME NEW w \in Windows
                 PROVE  Refill(bucket[k]).level[w] + billed[k]
                          <= Capacity[w] + Rate[w] * now + forgiven[k]
      BY DEF Accounted
    <3> DEFINE l == Refill(bucket[k]).level[w]
               z == Rate[w] * now
    <3>1. l \in Int /\ Capacity[w] \in Int /\ z \in Int
      BY <2>1, <2>4, Regain, LimiterAssumption DEF Buckets, Level
    <3>2. l + Net(k) <= Capacity[w] + z
      BY <2>5
    <3> HIDE DEF l, z
    <3>3. l + billed[k] <= Capacity[w] + z + forgiven[k]
      BY <2>1, <3>1, <3>2 DEF Net
    <3> QED BY <3>3 DEF l, z
  <2>6. CASE k \in keys
    <3>1. Within(bucket[k], Net(k), s)
      BY <2>2, <2>6 DEF MemoryInv
    <3>2. Within(bucket[k], Net(k), 0)
      BY <2>1, <2>3, <3>1, FromTheStart
    <3>3. Within(Refill(bucket[k]), Net(k), 0)
      BY <2>1, <3>2, RefillWithin
    <3>4. \A w \in Windows : Refill(bucket[k]).level[w] + Net(k) <= Capacity[w] + Rate[w] * now
      BY <2>4, <3>3 DEF Within
    <3> QED BY <2>5, <3>4
  <2>7. CASE k \notin keys
    <3>1. GivenBack(Net(k), now - s)
      BY <2>2, <2>7 DEF MemoryInv
    <3>2. now - s \in Int /\ now - s <= now
      BY <2>1, <2>3
    <3>3. GivenBack(Net(k), now)
      BY <2>1, <3>1, <3>2, GivenBackLater
    <3>4. ASSUME NEW w \in Windows
          PROVE  Refill(bucket[k]).level[w] + Net(k) <= Capacity[w] + Rate[w] * now
      <4>1. /\ Refill(bucket[k]).level[w] <= Capacity[w] /\ Net(k) <= Rate[w] * now
        BY <2>1, <3>3, RefillOK DEF GivenBack
      <4>2. /\ Refill(bucket[k]).level[w] \in Int /\ Capacity[w] \in Int /\ Rate[w] * now \in Int
        BY <2>1, <2>4, Regain, LimiterAssumption DEF Buckets, Level
      <4> QED BY <2>1, <4>1, <4>2
    <3> QED BY <2>5, <3>4
  <2> QED BY <2>6, <2>7
<1> QED BY <1>1, CreditsInvariant, AccountsHold, PTL

\* Every variable of the limiter keeps its type; a price is never negative.
THEOREM LimiterTypeCorrect == Spec => []TypeOK
<1> DEFINE Rest == ticked \in BOOLEAN /\ stops \in Nat
<1>1. Init => Rest
  <2>1. Init => ticked = FALSE /\ stops = 0
    BY DEF Init
  <2>2. 0 \in Nat /\ FALSE \in BOOLEAN
    OBVIOUS
  <2> QED BY <2>1, <2>2, Zenon
<1>2. Rest /\ [Next]_vars => Rest'
  <2> SUFFICES ASSUME Rest, [Next]_vars PROVE Rest'
    OBVIOUS
  <2>1. ASSUME UNCHANGED <<ticked, stops>> PROVE Rest'
    BY <2>1
  <2>2. ASSUME NEW t \in Tickets, Handler(t) PROVE UNCHANGED <<ticked, stops>>
    BY <2>2 DEF Handler, Admit, AdmitUnreadable, Track, Reported, Responding, Exhausted, Done
  <2>3. ASSUME NEW c \in Clients, NEW cost \in BaseCosts, Deny(c, cost)
        PROVE  UNCHANGED <<ticked, stops>>
    BY <2>3 DEF Deny
  <2>4. SweepAndSave \/ Load \/ Exit \/ Boot \/ UNCHANGED vars => UNCHANGED <<ticked, stops>>
    BY DEF SweepAndSave, Load, Exit, Boot, vars
  <2>5. CASE Tick \/ Advance
    BY <2>5 DEF Tick, Advance
  <2>6. CASE Stop
    BY <2>6 DEF Stop
  <2>7. CASE Crash
    BY <2>7 DEF Crash
  <2> QED BY <2>1, <2>2, <2>3, <2>4, <2>5, <2>6, <2>7 DEF Next
<1>3. AccountsInv /\ CreditsInv /\ Rest => TypeOK
  BY DEF AccountsInv, AccountsOK, CreditsInv, CreditTypes, FileRec, TypeOK
<1> QED BY <1>1, <1>2, <1>3, AccountsHold, CreditsInvariant, PTL DEF Spec
=============================================================================
