# algod-mesh in TLA+

algod-mesh puts an agent beside every algod node of a fleet. The agents tell
each other over UDP what their nodes hold, and each serves the algod API by
forwarding every request to a node that can answer it, with rate limits per
client. This directory models the parts of the agent in which concurrency,
failure and time make the code hard to test, checks them with TLC and proves the
central safety properties with TLAPS.

`PROJECT.json` lists components, runs, mutants (one plausible bug per property
that TLC must find), the map from definitions to source lines, hazards,
findings and theorems.

To check one run: `tlc -config Attempts.cfg MCAttempts`. To check the proofs of
a module: `tlapm AttemptsProofs.tla`.

## The system

| Component | State | Operations | Interacts with | Module |
|---|---|---|---|---|
| Router, one request (`internal/app/router.go`) | attempts of a request | serve, handleDefault, forwardSelected, forward, externalFallback | limiter, directory, StatsBook, upstreams | `Attempts` |
| StatsBook (`stats.go`) | per upstream: in flight, failures, breaker, throttle, busy | Begin, Record, Busy, Snapshot | every handler, selection | `Attempts` |
| Held waits (`router.go`, `directory.go`) | waiters, coalesced status, checks of the externals | handlePeerWait, handleBalancerWait, statusAt, fetchStatus, checkExternals | directory, upstreams | `HeldWaits` |
| Fan-out (`router.go`, `pending.go`, `txnpins.go`) | answers, pins of transactions | handleBroadcast, handlePending | upstreams, StatsBook | `FanOut`, `TxnPins`, `PinTable` |
| Domain operators (`select.go`, `eligible.go`, `classify.go`, `types.go`) | none | Classify, Eligible, Select, FleetSimulateLimits | router, directory | `Routing`, `Capabilities` |
| Limiter (`ratelimit.go`) | keys with two buckets each, requests' accounts, active keys, state file | Admit, Track, Reported, Responding, Done, tick, sweep, save, load | handlers, its Run loop, the composition root | `Limiter` |
| Directory (`directory.go`) | records, heartbeats, probes, highest round | SetRecords, handle, sendHeartbeat, maintenance, Snapshot | peers by UDP, monitor, router, registry sync | `PeerDirectory` |
| Link paths (`directory.go`, `domain/path.go`) | per peer: addresses, pings, losses, the current path | checkPaths, handleProbe, choose | peers by UDP | `Links` |
| Sync judge (`domain/health.go`) | behind since, last round, streak, trust | Judge | directory | `SyncJudge` |
| Monitor (`monitor.go`) | local node's state, verified window, limits | awaitOnline, watch, configLoop, verifyLoop | algod, data directory, directory | `Monitor`, `Capabilities` |
| Registry sync (`registrysync.go` and the registry adapters) | records, registration, cache | Run, refresh, register, RefreshNow | registry, cache, directory | `Registry` |
| Pass-through (`adapters/passthrough`) | listeners, splices, WaitGroups, cut | Serve, accept, splice, Shutdown | clients, algod, composition root | `Passthrough` |
| Composition root (`agent.go`) | contexts | Serve: run, drain, save, shut down | everything | parts in `Limiter`, `Passthrough`, `Registry` |

The behaviours that are hard, and what would make each part wrong:

* **Limiter.** Handlers, the 250 ms tick, the save ticker and shutdown all work
  on the same accounts. The books must balance over crashes, sweeps and a
  reload that runs while requests are already served; the price told in a header
  must be the price billed; the tick must reach every running simulation.
* **Directory.** Datagrams are lost, duplicated and reordered; an agent that
  restarts counts from one; probe results come late. What is known of a peer
  must not go back, a dead peer must not stay reachable, a live one must not be
  lost, and a round once announced must release everyone who waits for it.
* **Links.** Paths fail in one direction, lose their route, or come back, while
  what the other end reports is already out of date. Both ends must come to hear
  each other again, and then stay where they are.
* **Attempts.** A request's client, its deadline and the limiter can end it
  between any two steps, while other requests change the statistics it selects
  by. One response, always; the truth about a cut simulation; no upstream blamed
  for what it did not do.
* **Held waits and external checks.** Requests sleep on channels that are closed
  and replaced, and share fetches and checks that end at any moment. No wake-up
  may be lost, no stale status given, no herd sent to a node.
* **Fan-out.** Answers of several nodes come in any order while the losers are
  cancelled. The best must win, and a pin must name a node that has it.
* **Monitor.** Three goroutines apply what they have read, over many requests,
  to a state that has moved on, of a node that prunes and restarts unseen.
* **Registry.** A list that is read while others write, and a write that lands
  long after it was given up.
* **Routing.** Requests about a round must reach a node that has it, though what
  is known of a node trails it and nodes are out; what stock nodes ignore must
  not reach them.
* **Pass-through.** Shutdown races Serve, accepts and dials. WaitGroup's rules
  must hold, nothing may outlive Shutdown, and Shutdown must return.

## The modules

Every module has its type invariant (`TypeOK`). It is proved of `Limiter`,
`PeerDirectory`, `Passthrough`, `FanOut`, `HeldWaits`, `Monitor` and `Fleet`;
adding `INVARIANT TypeOK` to a configuration checks it there (it holds).

### Limiter (`Limiter.tla`, `MCLimiter.tla`, `LimiterProofs.tla`)

Each action is one critical section of `Limiter.mu`. `keys` and `bucket` are
`l.keys` (and `l.overflow`, as one more key), `active` is `l.active`, `ticket`
holds the fields of each `Ticket`, `file` is the state file, which a save
replaces in one rename or leaves alone when it fails. `billed` and `forgiven` are
histories, kept with the file too: all that was charged to a key, and how much of it
`load` handed back. The process
is `boot` (serving, file not read), `run`, `drain` (Run has returned) or `down`.

Time is in units of the limiter's tick, credits are integers: the code's floats
are sums and products of the same quantities, and no property turns on
rounding. A plan has the windows `Windows`, each with a capacity and a rate.
`MaxEffort` bounds what nodes report for one request; `MaxNow` and `MaxStops` (kills
and orderly exits) bound a behaviour. A read of the state file that fails is not
modelled (the agent then starts with full allowances and says so in its log).

* `NoFreeCredits`: level plus what was charged never exceeds a full allowance, the
  refill of the time passed and what `load` handed back, for every client, across
  refunds, sweeps, saves, kills and reloads. `load` keeps the lower of two levels, so
  that each time it hands back the smaller of what was charged before the restart and
  since it; nothing else does.
* `ToldIsBilled`: nothing changes a price once it is in a header.
* `AccountsAgree`: a request in flight keeps its key, and the tick reaches
  exactly the keys with a simulation in flight.
* `OverdrawnIsCut` (liveness): with ticks that keep coming.

### Peer directory (`SyncJudge.tla`, `PeerDirectory.tla`, `MCPeerDirectory.tla`, `PeerDirectoryProofs.tla`)

`SyncJudge` is `domain/health.go` as operators on a judge's record.
`PeerDirectory` has the peers' nodes and agents (which fail separately), the
datagrams under way (`net`, read without being removed, so they may come again),
and one agent's `peerState` of each (`peer`). Instants are kept as ages up to the
value beyond which nothing depends on them. The local node and the externals
appear by the highest round they hold (`ref`).

A unit of time is 5 s and the constants are the defaults' proportions:
SuspectAfter 15 s = 3, DownAfter 30 s = 6, ProbeInterval 10 s = 2, the probe's
timeout 5 s = 1 (`directory_rounds` takes 2 and 3 for the first two, which
keeps their order). A datagram is delayed by less than two units. At `MaxSeq` a
sequence number stops growing, so that later heartbeats look like duplicates
rather than end the behaviour. The maintenance tick runs once per unit of time.

* `HeartbeatsMoveForward` (action property), `AnnouncedIsReleased`.
* `DeadPeerGoesOffline`, `SilentNodeStaysShown`, `RestartedPeerIsHeard`
  (liveness). `LaggardIsShown` (liveness): however often a peer that stays behind is
  observed, the grace of `SyncJudge` runs out and it is shown as lagging.

### Link paths (`Links.tla`, `MCLinks.tla`)

Both ends of one link run the same actions: the keepalive's heartbeat and what
its sends proved (`SendHeartbeat`, `HeartbeatNoted`), `checkPaths` (`Check`,
`CheckNoted`), the answer to a ping, the use of a pong, and a record with other
addresses (`SetRecords`). `road` says of each path, in each direction, whether it
delivers, loses, has no route or fails; it changes at any moment, at most
`MaxChanges` times, which is what makes "once a path that works stays" happen. A
datagram arrives in its unit of time or, `MaxLate` times, later. One end may be a
balancer, which sends no heartbeats. The choice of a path (`Choose`, `Better`,
`Alive`) is `domain.PathPolicy`, with the round trip a constant of each path.

* `DeafAfterThree` (action property): a path is declared deaf only after three
  heartbeats were sent on it since the switch to it.
* `LinkHeals`: once some path works both ways and stays, each end goes on
  hearing the other. `LinkHolds`: where no path is one-way, without a gap.

### Pass-through (`Passthrough.tla`, `MCPassthrough.tla`, `PassthroughProofs.tla`)

Serve, Shutdown, an accept loop per listener and a splice per connection, each
action one step between two points where another goroutine can come in: between
`Accept` and `wg.Add`, between the dial and `track`, between the cut and the
cancellation of the dials. The WaitGroups are the sets of loops and splices they
count. Bytes are left out; a direction is copied until its source ends or its
pair is closed.

* `ShutdownIsClean`: no `Add` beside the `Wait` (`AddsComeBeforeTheWait`), nothing
  cut before the drain window ends (`DrainIsHonoured`), nothing left when Shutdown
  or Serve returns (`NothingOutlivesShutdown`, `ServeReleasesPorts`).
* `ShutdownReturns`, `OneFailureStopsServe` (liveness).

### Attempts (`Attempts.tla`, `MCAttempts.tla`, `AttemptsProofs.tla`)

A request is at `pick` (nothing eligible at the first look), `try`, `forward`
(at an upstream), `judge`, `spent`, `check` (waiting for the externals) or
`done`; a handler that is done makes room for another request. `stats` is the
StatsBook, its instants as time left. What Forward reports is one of the status
classes the code tells apart, or how the attempt ended without one: `timeout` is the
upstream's own, `overdue` the request's deadline. `cause` is why the request's
context ended, the first cause staying as `context.Cause` keeps it. Selection is
any order of any subset of the upstreams the StatsBook leaves usable, externals
last. `Abort` is what `httputil.ReverseProxy` does when the copy of a body breaks
off: a panic through `forward`; `MaxAborts` bounds how many there are.

The latency average and the error window only order upstreams, and any order is
possible already. The failure count is kept up to the threshold.

* `AnsweredTruly`: never two responses (`OneResponse`), never none
  (`EveryoneIsAnswered`), and the truth about a cut simulation (`QuotaIsTold`).
* `EachOnceMeshFirst`; `RequestsEnd` (liveness).
* `BlamelessUpstreams` (action property): neither the client's leaving nor the
  limiter counts against an upstream, and the request's own deadline does only for a
  first attempt, or for a retry that was begun with the time for one.

### Held waits and external checks (`HeldWaits.tla`, `MCHeldWaits.tla`, `HeldWaitsProofs.tla`)

A held request (`wait`) sleeps on the directory's channel until a round is
passed (`held`), is then forwarded (`passed`) or given a status (`status`,
`fetching`), or waits for a check of the externals (`check`, `checking`). A
channel is a flag of whoever has read it: closing it (`Woken`) sets the flag of
the sleepers, and a look at the state and the channel is one step because the
code does both under one lock. `current` is `Router.statusFetch`, `fetch` the
fetches that run or are still held; `ext` has each external's last check and how
many run. Nodes change their round and usability at any moment.

That a node which announced a round answers with it or a later one is assumed of
the nodes (`FetchEnds`): `getStatus` takes whatever round it is told.

* `StatusIsPast`: no client gets a status at or before the round it named.
* `WorkIsShared`: one check per external at a time, and the newest fetch can be
  joined as long as it runs.
* `NobodySleepsInVain`; `PassedWaitsEnd` (liveness): no lost wake-up.

### Fan-out (`PinTable.tla`, `TxnPins.tla`, `FanOut.tla`, `MCFanOut.tla`, `FanOutProofs.tla`)

`PinTable` is the abstract specification: what is remembered is found for at least
`TTL` and is gone before `3 * TTL`. `TxnPins` is `txnpins.go`, two generations that
calls rotate, and implements it with `pin` mapped to what `recall` would find.
`FanOut` is `handleBroadcast` and `handlePending` on top: tasks that answer at
any moment, the channel of results, the grace period, the pinned node's attempt,
and the last resort of an external. A task that outlives its handler is
cancelled and ends later. Answers are the classes that `fanRank` and
`pendingRank` tell apart.

* `PinsKeepTheirPromise`: the pins of `FanOut` implement `PinTable` (refinement,
  proved in two steps: `FanOut` implements `TxnPins`, and that `PinTable`).
* `PinLivesTwoTTL`: the upper bound that the comments give. It does not hold.
* `RejectionHidesNothing`, `NotFoundIsEverywhere`, `PinsNameHolders`,
  `LeftoversAreNotBooked` (action properties), `TransactionsEnd` (liveness). A node
  that answered with an error has answered: a client may be told "not found" though
  another node only failed.

### Monitor (`Capabilities.tla`, `Monitor.tla`, `MCMonitor.tla`, `MonitorProofs.tla`)

`Capabilities` is the part of `domain/types.go` that says what a node serves.
`Monitor` has the node (external: it adds and prunes blocks, stops, and comes
back with another configuration, other limits or fewer blocks), the data
directory, and the three goroutines on one `LocalState` (`st`): `Run` (`run`),
`configLoop` (`conf`), `verifyLoop` (`ver`). Each request to the node is a step
of its own, so that the node changes between any two of a search.
`ver.from` is a history: the node's oldest block when the measurement began.

* `MeasuredTruly` (action property): a measurement is between the oldest block at
  its beginning and at its end, and no block gone at its beginning is claimed
  after it, whatever the state has become.
* `ClaimsAreCorrected`, `LimitsAreLearnt` (liveness): what an agent claims of a
  node that changed unseen comes to be true.

### Registry, routing, fleet (`Registry.tla`, `Routing.tla`, `Fleet.tla`, `MCFleet.tla`, `FleetProofs.tla`)

`Registry` is one agent's `RegistrySync` against a registry of boxes: the list is
read box by box while others write, a write is a transaction that may be
confirmed, dropped or land after it was given up, and the process may end
anywhere and start from its cache. `Routing` has no variables: `Classify`,
`ApplySimulate`, `Eligible`, `Select`, the relaxations and refusals of
`handleDefault`, `FleetSimulateLimits`. `Fleet` composes them: the records known
to the directory decide who is a candidate and in which tier, `Situations` is
what the rest of the directory adds, and the nodes answer from what they really have
(`Holds`), which is the reference the decisions are checked against.

A situation gives of every upstream what it really can do (`caps`), the round it has
reached (`at`), the round the directory shows of it (`seen`) and the round for which
the directory has its block window (`told`). News may be old by any number of rounds: a
heartbeat counts for SuspectAfter, a probe for twice its interval, a check for as long
as the configuration says. `seen` and `told` differ for a peer whose agent fell silent
and whose node answers probes; a peer that was never heard (`heard`) and the externals
are shown by what is `declared` of them, which never includes a lookback. `out` says who
is out, and how: `silent` is a peer of which nothing is shown, `expired` an external
whose good check has run out and whose round still counts towards the best one.
Assumed of the nodes: what they tell, and what is declared of them, is true; they have
the blocks of the states they keep; one that is up has a first round. The grace and the
hysteresis of `SyncJudge` are left out here: who is behind is lagging at once.

* `RightRound`: nowhere along the retries of a request for a round is there a
  node that ignores it or lacks it, but for three reasons (`Excused`): nobody has told
  which blocks it has; nobody has told how far back its states go; or its window,
  which the router had right as of the last news, has moved past the round since. Even
  then the first choice is not the oldest state of a plain node when a history of
  its tier is at hand.
* `RefusedOnlyWhenNobodyHas`: of nodes whose capabilities were heard or are declared in
  full (`Disclosed`). `OutageNeverRelaxes`: of the upstreams that the directory knows
  anything of; a silent peer is as if it did not exist. `LimitsAreServed`.
* `RegistryIsLearnt` (liveness), by the periodic refresh alone.
* `RecordIsSetRight` (liveness): whatever was wrong with the agent's record at a run's
  last look is set right by that run. What happens after that look is not
  (`Overlooked`), until the agent is started again.

`Routing` also has `GET /v2/deltas/{round}/txn/group` (`deltagroups`), which the router
takes by the block window. What a node has of it depends on its tracer, which the agent
knows nothing about, so that it is not among the paths of `RightRound`.

## What the runs show

| Run | Instance | Shows |
|---|---|---|
| `limiter` | two anonymous clients, `MaxKeys` 1, two requests, both windows, a crash or an orderly restart | the accounts balance but for what `load` hands back; sweeping clients and their shared key loses nothing; an overdrawn client's simulations do not run on |
| `directory_order` | one peer, restarted once, two datagrams under way | what is known of a run never goes back; a new run is heard |
| `directory_rounds` | one peer, two rounds, node and agent failing | announced rounds are released; probes find the truth in the end; who stays behind is shown so |
| `links` | two ends, two paths, one change, one late datagram, a balancer or not | the link finds the path that works and holds it |
| `passthrough` | two listeners, three connections | WaitGroup order, cut and drain; everything returns |
| `attempts` | one handler, one mesh node and an external, three kinds of request, an aborted body | one true response, and an end |
| `attempts_inflight` | the same with aborted bodies | violation: see the finding |
| `waits` | two waiters, a node, an external, two fetches, two rounds | no lost wake-up, no stale status, no herd |
| `pins_ttl` | two transactions, two nodes, TTL 3 | violation: see the finding |
| `fanout` | two mesh nodes, an external, one transaction, TTL 2 | the best answer wins in every order; pins keep their promise |
| `monitor` | a chain of three rounds, an archival or a pruning node, one restart | measurements and limits come to be true |
| `fleet` | this agent, a peer, an external; some 2300 situations and 37 requests for every set of records; two changes, two faults, a restart | requests for a round reach it; the registry is learnt, and the agent's record set right |

Why the bounds are enough: peers, clients and upstreams only meet where the
instance has two of what meets (two requests on a key, two clients on the shared
key, two datagrams, two waiters at a fetch, two nodes that answer). A second peer
would only change the best round, which `ref` already moves freely. The
capacities are such that a request fits once and not twice, that a simulation
overdraws within the clock's range and that refills reach the cap. In `links` a
change of both directions of a path, or of one, is one change, and the next is a
new start from a state the first left; two changes were checked too, outside the
listed runs. In `attempts` a request goes from the one upstream to the other,
by a retry or by the fallback; more upstreams, and requests that share their
statistics, are what the theorems of `AttemptsProofs` add. In `monitor` the window
of a pruning node moves past what a search
began with. In `fleet` the windows are three rounds (two for one external) and the lookback two,
so that each end of each is met; the news of a peer is exact, one or two rounds old, a
probe's with an older or a newer heartbeat's window, or what is declared or not even that,
and that of an external is exact, two rounds old or without a declared window. Longer
delays only move the same ends further, and the theorems have them all. TTL is 2 in
`fanout` and 3 in `pins_ttl`, so that a rotation can come between TTL and twice that. In `fanout` the answers of
a lookup that rank below "not found" are left out by `Odd`; the run holds with all of
them as well, in twice the time. The theorems below hold without the bounds.

The `violation` runs state what a comment says and show that the code does
otherwise. `attempts_inflight`: a response that breaks off leaves its upstream
counted as one request busier for the life of the process. `pins_ttl`: a pin is still
found when it is older than `2 * ttl`, which `txnpins.go:8-10` and
`deploy/config.example.yaml:99` exclude: a generation of almost `2 * ttl` is moved to
`prev` and kept for another `ttl`.

## Differences noted

What the models showed to differ from a document or comment, beyond the findings.
The models follow the code, and the properties are stated so.

* `SuspectAfter`, not `DownAfter`, makes a peer offline (`directory.go:1035`;
  `deploy/config.example.yaml:69` and `MULTI.md:297` say `down_after`).
* A round seen before counts again towards trust when what is shown of a peer
  goes back, from a heartbeat to an older probe (`health.go:91`; the comment at
  line 53 says rounds, not observations).
* The repository's README (line 365) says a restart "resets nobody's quota". Two things
  do: `save` never writes the allowance that anonymous clients share beyond
  `max_keys`, so it is full again (`NoFreeCredits` is stated of the clients' own keys);
  and `load`, which runs while requests are served, keeps the lower of the saved level
  and the present one (`ratelimit.go:676-679`) instead of charging both. With 2 of 10
  left in the file and 5 spent before it is read, the client is left with 2, not -3:
  the smaller charge is handed back. `forgiven` counts it.
* `timeLeft` is there "so that one cut short by the deadline is not counted against the
  upstream" (`router.go:630-633`). It keeps an attempt from being begun with less than a
  second, on a retry; one that was begun in time, or the first of a request, is counted
  when the request's deadline cuts it, as a timeout of the upstream's own is.
* A simulation that the tick cuts just before its node's report arrives is billed
  by its running time (`ratelimit.go:418`; the comment at line 49 says by the report).
* When the pinned node says "not found" and all others fail, the client is told
  that the nodes failed: the first answer is forgotten. A fan-out does not book an
  upstream's own timeout.
* `Verified` stays true when only the endpoint of the data directory's
  configuration changed, though the claims were computed anew; the oldest round
  measured of a node without an archival mode is overwritten at the next round; the
  length applied to a trailing node is too long by the rounds that passed during
  the search. `ClaimsAreCorrected` is stated of the archival modes, and holds
  because the search is repeated.
* With `path_probe_interval` at or below `2 * 3 * path_timeout`, which nothing
  forbids, a one-way path on which the peer never heard this agent is never left
  (`MULTI.md:281-283`); `LinksAssumption` demands more. A faster path that became
  one-way is tried again, and left again, every `2 * PathProbeInterval`
  (`path.go:32-34`): hence the two properties `LinkHeals` and `LinkHolds`.
* `RegistrySync` "keeps this node's own record up to date" (`registrysync.go:18-19`),
  but it registers once per run and does not look again: a token that is read anew from
  the data directory is not published; a record removed with `registry rm` stays
  removed; a write of its own that was never confirmed and lands over the present one
  stays. Each lasts until the agent is started again (`Overlooked`).
* A peer that neither sends heartbeats nor answers probes is shown without capabilities
  (`directory.go:1089-1092`), so that `CouldServe` and the limits forget what it could
  do. A simulation that only it could run is relaxed and handed to a node that cannot,
  contrary to `eligible.go:147-151` ("reachable or not") and to the repository's README
  (line 318: offline is a 503 to retry). `OutageNeverRelaxes` does not count such a peer.
* An upstream that was never heard and whose archival mode is not declared is taken
  to have the blocks of a node that is not archival, and one whose lookback is unknown,
  as every external's is, is trusted with its whole block window for requests about
  states (`Excused`).
* Select does not avoid a time-travel peer at the trailing edge of its block window
  when it is asked for a delta: the edge it looks at is that of the plain nodes'
  states (`stateWindowEdge`). News that trail can then lead there first; `Excused` says
  so.
* A status at round 0 counts as none (`HeldWaits`).

## Fairness

* Limiter: weak fairness of what `Run` and `Serve` do by themselves, in whichever phase
  the process is: the tick, load, the exit after a drain. `Run`'s ticker fires, a
  drain has a timeout. Requests and the clock may stop.
* Directory: weak fairness of time, maintenance, snapshots and the end of a probe
  (5 s timeout). For `RestartedPeerIsHeard` also that a running agent keeps
  sending (its keepalive) and strong fairness of accepting one of its datagrams:
  not every acceptable one is lost.
* Links: some step is always taken. All but `MaxChanges + MaxLate` steps are the
  agents' own or the clock's, and the clock waits for both agents' due work.
* Pass-through: weak fairness of every goroutine's own steps and of the end of the
  drain window; none of clients: nobody has to close a connection or stop sending.
* Attempts, fan-out: weak fairness of a handler's own steps and of the end of an
  attempt (UpstreamTimeout). None of clients or of new requests.
* Held waits: weak fairness of each handler, of the end of a fetch and of a check
  (both have timeouts), and strong fairness of the bound on a request that waits
  for a check: others may keep some check under way for ever. A waiter's own
  timeout is not relied on.
* Monitor: weak fairness of the goroutines, strong fairness of `verifyLoop`'s timer,
  which Go's `select` picks at random among what is ready. None of the node.
* Registry: weak fairness of `Run`, of a start after a crash and of the
  confirmation of transactions that are not dropped.

## What is proved

Every safety property of the passing runs but `DeafAfterThree`, for every value of
the constants that the modules' ASSUMEs allow: any number of clients, requests,
nodes, waiters, rounds, situations, and none of the runs' bounds. The assumptions
say what the code's configuration and types say (numbers are naturals, timeouts are
in their order, sets of handlers, nodes and agents are finite, names are distinct).
`FleetAssumption` also says what a situation is, as above: the news may be old by any
number of rounds, and no node has gone back.

* `LimiterProofs`: `AccountsInv` ties each request in flight to a key that exists,
  makes `active` exactly the keys of metered ones, and makes a told price final
  (told implies frozen, and nothing changes a frozen account's extra). The last part
  is what `ToldIsBilled` lacks to be inductive; `AccountsAgree` is a part of it.
  `CreditsInv` is for `NoFreeCredits`, which is not inductive either: `Done` charges
  a bucket that was not refilled, and a client whose key was swept has no bucket at
  all. It keeps the bound at the time of each bucket's last refill, for memory and
  for the file, and says that a client without a bucket has spent no more than time
  has given back. Until `Load` has run there is an instant such that the file
  accounts for what was billed before it and memory for what was billed after; `Load`
  keeps the larger of the two, less what was forgiven before, and forgives the smaller. What
  a save charges is a sum over a key's requests in flight; what is needed of it (a
  natural, and zero without requests) is proved by induction on their number.
* `PeerDirectoryProofs`: `TypeOK` (its own induction), `HeartbeatsMoveForward` and
  `AnnouncedIsReleased`. The order proof needs that within a run an accepted
  number is never above the agent's own, and datagrams neither; when DownAfter has
  passed every datagram older than the accepted one is gone from the network.
* `PassthroughProofs`: `ShutdownInv` relates where Shutdown is to the listeners,
  loops and splices: after its first wait no loop runs, so no splice is added;
  after the cut every tracked pair is closed. `ShutdownIsClean` follows.
* `AttemptsProofs`: `SoundInv` says of each request what may have been sent at each
  of its steps and that its list of upstreams is ranked; `AnsweredTruly` and
  `EachOnceMeshFirst` follow. `BlamelessUpstreams` follows from it and the
  StatsBook's type.
* `FanOutProofs`: first the refinement of `PinTable` by `TxnPins`. `PinInv` relates
  the age of each pin to the age of its generation: a pin of `cur` is no older than the
  generation (unless the generation is so old that the next call drops it), and one
  of `prev` less than `2 * TTL` older. A step of the clock that makes `recall` miss
  a pin therefore comes no sooner than `TTL` and no later than `3 * TTL` after it was
  remembered, and rotation itself changes nothing that `recall` shows. Every step of
  `FanOut` is a step of `TxnPins` or leaves the pins alone, so that the promise is
  kept under the handlers too. `FanInv` says of a handler that collects that `left`
  counts exactly the answers still to come or still in the channel, that the best
  answer so far is one of those taken, and that none taken ranks above it. When
  `left` is zero, the best is the best of all, which is what `RejectionHidesNothing`
  and `NotFoundIsEverywhere` are about; `PinsNameHolders` and
  `LeftoversAreNotBooked` follow from the same.
* `HeldWaitsProofs`: `WaitsInv`. A waiter holds a fetch only while it awaits it, and
  that fetch is under way for, or has ended at, the round the waiter saw pass or a
  later one, which is why a status is never stale; the fetch that can be joined runs
  and is the newest; an external's flag says exactly whether a check runs. With
  `NobodySleepsInVain` itself, which every close of a channel restores, these are
  inductive together.
* `MonitorProofs`: `MonitorInv`. At every step of a search the node's oldest block of
  the beginning is at or below the upper end, and the lower end below its oldest block
  of now (`Bracketed`), though the node prunes, stops and comes back in between: it only
  ever loses blocks. Both halves of `MeasuredTruly` are the two sides of that bracket.
* `FleetProofs`: the four properties of routing do not depend on the state beyond the
  records, and are facts about every set of records, situation and request. The
  argument follows the router: what `Classify` asks of a request's path and body; what
  `Eligible` says of a node's window, as the node has it and as the directory was told
  of it or has it declared; how far a window can have moved since; that
  `Select` sorts by a total order, so that who comes first is a least member; which of
  the classes `Decision` sends the request by. The lemmas on sorted sequences and
  least members are inductions on the size of a set. For the registry, `TypeOK`, and
  `RegisteredStands`: once an agent calls itself registered, the registry holds what
  it said, unless somebody has written over it since its last look. Its inductive invariant,
  `PublishedInv`, follows the record from the read or the confirmed write on which
  the agent relies.

The attempt to prove `RightRound` and `OutageNeverRelaxes` showed both false as they
stood at first, beyond the instance of the run: the delta of a time-travel peer at the
edge of its blocks (above), and a simulation that nobody could run even if all were
well. Both statements were made precise, and the run's requests now meet the first case.

The induction rule over the naturals takes an operator, which the prover cannot
instantiate. The proofs use the set of numbers for which a claim holds instead, and
that the naturals are well-founded (`Inductive`).

Only model-checked: every liveness property, being out of the prover's reach, and
`DeafAfterThree` of `Links`.

## What is left

1. A proof of `DeafAfterThree`, from an invariant that counts, per unit of time since
   the switch to a path, the heartbeats sent on it.
2. Abstract specifications of a drain (`Passthrough`), of an account with a
   balance (`Limiter`) and of a request that is answered once (`Attempts`), with
   their refinements.
3. `Attempts` with the selections of `Routing` in place of any order.
4. A sender that takes its number after it was handed its state
   (`directory.go:493`).

## Not modelled

Cryptography and encodings (`codec.go`), the deployment and sealing of the
registry, the sockets of the gossip, clock and HTTP adapters, configuration,
command line, logging, metrics, the test fleet and the deployment scripts: I/O,
parsing and reporting without concurrent state of their own. Of modelled parts:
the waiters of the local monitor, the monitor of a balancer (it does nothing),
errors of a running node other than at the reading of its limits, versions and update
rounds of records, `auto_register` off, two processes on one file registry (no
lock), the parsing of paths and bodies, and effort reports beyond their amount. See the
components in `PROJECT.json`.
