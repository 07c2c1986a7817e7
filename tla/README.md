# TLA+ models and proofs of ws-tunnel

ws-tunnel publishes TCP services of nodes that can only dial out. A *client* on
the node keeps one WebSocket control connection and several data channels (smux
over WebSocket) to the *server*. The server listens on the reverse ports of every
node that is online and forwards each external connection as one smux stream to
the node's client, which dials the local service.

This directory models the parts of the program where goroutines, reloads, failures
and half-closed connections meet, checks them with TLC on small instances, and
proves with TLAPS what holds for every instance. `PROJECT.json` lists the runs,
the source lines every definition stands for, the hazards and the findings.

## The parts of the system

| Part | State it keeps | Operations | Source |
|---|---|---|---|
| Slot pool of a session | `n.channels`, `ch.active`, `n.activeStreams`, `n.waiters`, `queueDepth`, `maxStreams`, `draining`, `done` | `OpenStream`, `CloseStream`, `AddChannel`, `RemoveChannel`, `SetConfig`, `SetDraining`, `Close` | `server/registry.go` |
| Registry | `r.live` (one session per node) | `Register`, `Unregister`, `Get`, `List` | `server/registry.go` |
| Control and data handlers | the goroutine's position, its `NodeSpec` and session | `handleWS`, `authenticate`, `serveControl`, `serveData`, `pingLoop`, `controlReadLoop` | `server/server.go` |
| Reload, drain, shutdown | `s.cfg`, drainer goroutines | `applyReload`, `pushConfig`, `drainNode`, `waitDrained`, `shutdown` | `server/server.go` |
| Listener manager | `m.items` | `StartNode`, `StartPort`, `StopNode`, `StopPort`, `StopAll` | `server/listener.go` |
| Port listener | `pl.ln`, `pl.listening`, `pl.conns`, `pl.ctx` | `run`, `accept`, `track`, `untrack`, `stop` | `server/listener.go` |
| Forwarding | the stream, the two TCP connections, the copy goroutines | `Server.forward`, `Client.handleStream`, `serveChannel` | `server/listener.go`, `client/client.go`, `protocol/` |
| Configuration | a validated snapshot | `Load`, `NodeConfig`, `PortsOf`, `DiffConfig` | `config/`, `protocol/message.go` |
| Client session | `c.session`, `c.draining`, `c.activeStreams`, the supervisor's target, keys and goroutines | `Run`, `runSession`, `controlLoop`, supervisor, `handleStream`, `Shutdown`, `main` | `client/client.go` |
| Heartbeat | the timers and deadlines of both ends | `pingLoop`, `controlReadLoop`, `controlLoop`, `statsLoop` | `server/server.go`, `client/client.go` |
| Statistics, status, metrics | counters | rendering | `server/status.go`, `client/status.go` |
| Endpoints | the WebSocket and the status server, those being retired, `errCh`, the wait group | `serve`, `rebindEndpoints`, `retireServer`, the select of `Run`, `shutdown` | `server/server.go` |
| File watching | the debounce timer | `watchConfig` | `server/server.go` |

How they interact. A control handler authenticates against `s.cfg`, builds a
session, registers it, sends the welcome, starts the node's ports and serves until
the session is closed; its teardown stops the ports, unregisters and closes, in
this order. Data handlers look the session up and add channels to its pool. An
external connection is accepted by a port listener, looks the session up, asks its
pool for a slot and forwards over the stream it got. The reload goroutine compares
two snapshots and drains, disconnects, stops, starts and pushes, in this order,
while all of the above goes on; what it drains it leaves to goroutines that act
up to a grace period later. It is started by `watchConfig`, which loads the file
after edits have calmed down, and moves the HTTP endpoints before anything else.
On the client one goroutine runs session after session; a supervisor keeps as many
data channels up as the server last asked for, each channel's accept loop starts
stream handlers, and `Shutdown`, called from `main`, watches their number. The
two ends of a control connection tell that the other is alive by pings and pongs
whose interval a reload may change.

What is hard: every shared structure has its own lock and almost every operation
takes it several times, with calls, network writes or waits in between
(`StartPort`, `stop`, `acquire`/`abandon`, `SetConfig`, `serveControl`). Facts are
read before a wait and used after it (the draining flag, the snapshot, "is the
node online"). Things are named by node when they mean a session (`StopNode` by a
drainer). Timers fire once while loops go round again, and keep the interval they
were started with. Flags are set by one goroutine and reset by the next session.
Goroutines that were cancelled are still there while their successors start.
Half-closes, truncated frames and refused streams travel the same byte stream.
`PROJECT.json` lists each hazard at its line.

What makes each part correct:

- *Pool*: no slot is lost or returned twice; the queue holds exactly those who
  wait; free room is never kept from the parked; no booking exceeds the limit in
  force; first come, first served; a wait ends with its timer or its session.
- *Registry, handlers, reload*: registrations match handlers; a port has a listener
  exactly while its node is online, up to the steps of a teardown; a reload
  touches only what it concerns; outdated sessions end and the others learn the
  new configuration.
- *Configuration*: what is loaded is sound whatever the file holds, and the first
  occurrence wins; the difference loses nothing; who is not told misses nothing.
- *Listener*: the reported state is true; a stopped port is released; a wanted one
  is bound in the end; a forced stop closes its connections.
- *Forwarding*: payload arrives in order, unmixed with protocol items; a FIN means
  that everything arrived; a refused stream touches no service; half-closing loses
  nothing; only a silent peer can hold a connection whose channel died.
- *Client session*: exactly as many channels as were asked for; nothing is carried
  over to the next session; bye comes after the streams; every teardown and every
  leave comes to its end.
- *Heartbeat*: a healthy connection is kept whatever the timers run with, a dead
  one is given up in time; the counters of both ends settle.
- *Endpoints*: never without a server, no server forgotten, the last good file is
  applied, the process exits.

## The modules

| Module | Models | Notes |
|---|---|---|
| `NodePool` | the slot pool of one session with its channels and everybody who touches it | core |
| `FifoService` | what the queue promises: a first-come-first-served service | abstract; `NodePool` implements it |
| `MCNodePool` | symmetry for the runs of `NodePool` | |
| `NodePoolProofs` | lemmas on handoff, release, reserve, the queue; the invariant; the refinement | TLAPS |
| `ConfigDiff` | snapshots and `DiffConfig`, field by field, as operators | used by `NodeLifecycle` and `ConfigLoad` |
| `ConfigLoad` | the walk of `config.Load` over a document | extends `ConfigDiff` |
| `MCConfigLoad` | the documents its run loads | |
| `ConfigProofs` | what `Load` guarantees and what `applyReload` may rely on | TLAPS |
| `NodeLifecycle` | registry, `m.items`, control handlers, reload, drainers, shutdown | extends `ConfigDiff` |
| `MCNodeLifecycle` | the snapshots its runs reload between | |
| `NodeLifecycleProofs` | registrations, listeners, what a reload may touch and what it must not miss | TLAPS |
| `PortListener` | the listeners that follow each other on one port, with their stops and connections | |
| `PortListenerProofs` | the reported state, what a stop releases and cuts | TLAPS |
| `StreamForward` | one tunnelled connection from the external peer to the local service | |
| `Tunnel` | what a connection promises its peers: two byte streams that end one by one | abstract; `StreamForward` implements it |
| `StreamForwardProofs` | order and integrity of the payload, the FIN, refused streams; the refinement | TLAPS |
| `ClientSession` | the process of `tunnel-client` through its sessions | |
| `ClientSessionProofs` | the supervisor's target, separation of sessions, bye | TLAPS |
| `ControlLink` | both ends of a control connection in discrete time | |
| `ControlLinkProofs` | healthy and dead connections, the counters | TLAPS |
| `Endpoints` | the HTTP endpoints of the server, `watchConfig`, the end of the process | |
| `MCEndpoints` | the configurations its run moves between | |
| `EndpointsProofs` | the servers during and behind a reload, and at the end | TLAPS |

### NodePool

A request is one call of `OpenStream` and, when that succeeds, one `CloseStream`.
`pc[r]` is where it stands, `slot[r]` the channel it owns a slot on, also while the
channel still sits in the waiter's `ready` channel. Each hold of `n.chMu` is one
action: `Acquire` (reserve or park), `Abandon`, `OpenFails`/`CloseStream`
(`release`, which hands on under the same hold), `AddChannel`,
`HandoffAfterStore` (the second half of `SetConfig`; `StoreLimit` is the first,
outside the lock), `CloseTakesChannels`. `Handoff` is the loop of
`handoffLocked`: it grants the longest prefix of the queue that finds room, each
on a least loaded channel of that moment. Go's map order breaks ties, so the choice
among least loaded channels is nondeterministic. The `select` of `acquire` is three
actions (`TakeReady`, `TakeTimeout`, `TakeDone`), enabled independently. The smux
session is external: it may break (opens fail, not yet closed) or close at any
time. Errors returned, the `Saturated` counter and the demand gauges other than
`queueDepth` are left out; what `observeDemand` adds up is stated (`DemandExact`).

### ConfigLoad

`Load` is a loop over the entries under `nodes` and one over those under `ports`;
one turn is one action (`NodeEntry`, `PortEntry`), with the maps built so far and the
keys claimed as variables, so that an invariant can say what holds after every entry.
`doc` is external and arbitrary: entries that do not decode, empty or repeated keys,
names and numbers, unknown nodes, reserved ports, numbers that are zero or negative
(which is also how an absent one decodes). YAML itself, the parsing of durations and
addresses, and the warnings are left out. `Snapshot` hands the result to
`ConfigDiff`.

### ConfigDiff and NodeLifecycle

A snapshot is a record of functions; `wire` stands for the settings pushed to
clients, `queueTimeout` for the one that is not. `IsConfig` is what `Load`
guarantees (`LoadedSnapshotIsSound`). `NodeLifecycle` gives each handler a position (`at`), what it read
before it gave a lock back (`spec`, `sent`) and its `StartPort` calls (`job`);
`StartPort` is four actions, because it looks at the registry, at `m.items`, at
`StopPort` and at `m.items` again under separate holds. `reload` walks through
`applyReload`; `drainers` is the set of goroutines it left behind; `shutdown`
walks through `Server.shutdown`. Clients are external: a handler may start with any
node's key at any time and its connection may end at any time. The heartbeat is
the possibility of `PingFails`.

`sent[h]` is what the client was told last and took. The welcome carries the
`nodeCfg` that `serveControl` built before `Register`. A `reload_config` that was
pushed (`PushConfig`) updates `sent` only if it was written after the welcome. If the
write fails, which `pushConfig` only logs, or if it goes out between `Register` and
the welcome, where the client finds it instead of the welcome and leaves
(`client.go:121-133`), the message is `lost`: `sent` stays what it was, the push is
not repeated, and the session ends when the server notices (`SeeLost`).

### PortListener

Each `portListener` has the position of `run`/`accept`, its context, the socket it
bound last and whether that is published in `pl.ln`; each stop has its position
and what it read (`sawSock`, `victims`). `shut` holds the connections that a stop has
closed. Closing one does not end its `forward`, which blocks in `st.Read` until the
stream ends; the end of the stream does not either, because `forward` then waits at
`<-upDone` for the external peer. A connection whose stream is dead, because the
session was closed (`NodeIsGone`) or the channel died (`StreamDies`), is `orphaned`;
it takes both for `ForwardCut`. `ForwardEnds` is everything peer and service may
do. The kernel (one socket per port) and another process holding the port are
external.

### StreamForward

Both directions of the stream are FIFO queues of items: header, ack, the two
pieces of a frame, end-of-data. `forward` and `handleStream` and their upstream
goroutines are programs over them; the two TCP peers send, half-close, close or break
off (reset, timeout) as they like, where a read error ends `io.Copy` like an end of
data and is relayed as one; the channel may die and take an unread suffix of each direction along.
The refinement mapping to `Tunnel` keeps the two peers, forgets all in between, and
calls the tunnel intact (`Undisturbed`) while the channel lives, nobody cut the
connection or broke off and the ack was in time (`TunnelSpec`).

### ClientSession

`run` is where `Client.Run` stands, `session` and `registered` the session the
client believes in and the one the server holds. The supervisor is `target`,
`slots` (the keys of `supervisor.workers`), `nextID` and one position per goroutine
in `worker`. `SetTarget` starts goroutines or deletes any of the keys, as the
iteration over a map may; a goroutine whose key is gone is still on its way
out. `said[i]` is the session a channel's hello carried: it is read when the hello
is written, not when the goroutine starts. A stream handler is `accepted`, counts
itself (`Enter`) and only then looks at the draining flag (`PassesDrain`,
`Rejects`); `Shutdown` sets the flag and then polls the count. `Establish` resets
the flag, as `Run` does. `leaving` is a history variable: whether the grace ran
out and whether a new session has reset the flag. External: which session the
server holds, when connections fail, what the services do.

### ControlLink

A timer is the time it has left. `Tick` lets one unit pass, and only when no
message and no timer is due: goroutines are prompt, a message takes at most
`MaxDelay`. Three different intervals are in play after a reload, and the model keeps
all of them apart: `heartbeat` (what the server's session says now), `interval`
(what the ticker of `pingLoop` runs with until its next tick), and `known` and
`statsEvery` on the client. A read keeps the deadline it was started with.
`failed` is the client's counter of failed local dials; the server's `counted` is
incremented by the ack of a stream (`AckArrives`) and overwritten by the stats
(`ServerReads`). `link` may die without a sign.

### Endpoints

Every `http.Server` ever made has a number, an address and a life; `current` is
`s.wsSrv` and `s.statusSrv`. `watchConfig` is `Debounce`, `Load`, `Publish` and, for
`ws` and then `status`, `Unmoved`, `Rebind` or `RebindFails`, and `Swap`, which
publishes the new server and hands the old one to a retire goroutine of its
own. An address can be bound once, so the order of binding and releasing shows.
`Run`'s select ends by a signal or an error in `errCh`; `shutdown` reads the two
servers once (`ReadServers`), stops what it read and waits for every goroutine
(`Exit`). `kept` is a history variable: the endpoints that a failed attempt left
where they were.

## What is checked

| Run | Instance | Question |
|---|---|---|
| `pool` | 2 requests, 2 channels, limits 1 and 2 | Are all counters exact, and the demand but for its known overlap, is free room handed on at once, do bookings respect the limit, is the queue exact, is it first come, first served (refinement of `FifoService`)? |
| `pool_liveness` | 2 requests, 1 channel, limit 1, fairness | Does the timer end a wait, does a closed session let everybody go? |
| `pool_timeout` | as above | *violated*: is `queue_timeout` honoured? |
| `lifecycle_reload` | 2 nodes, 1 port, 2 handlers, 2 reloads among a takeover of the port and a key change | Do registrations match handlers and, before a reload, listeners match sessions; does a reload touch only what it concerns; has whoever drains somebody who will close it? |
| `lifecycle_liveness` | 1 node, 1 port, 2 handlers, 1 reload of any kind, fairness | Do closed, drained and outdated sessions end, do registered nodes get their ports and served ones their configuration, and does who knows it stay in step? |
| `config_load` | documents of up to 3 node and 2 port entries | Is the snapshot sound, and is an entry dropped only for an earlier one that is in force? |
| `listener_stops` | 2 listeners in turn, 1 connection, foreign process, forced and graceful stops, fairness | Is the reported state true, does a stop release what it saw, does a forward that it read return, is a wanted port bound? |
| `listener_leak` | as above, forced stops | *violated*: is every stopped port released? |
| `stream` | 1 chunk of two pieces each way, fairness | Is the connection a pair of byte streams (refinement of `Tunnel`), is a FIN last, is a refused service untouched, does half-closing lose nothing, does only a silent peer hold what is left? |
| `client` | 1 stream, counts 0 and 2, 3 goroutines, 2 sessions, fairness | Does the supervisor hold the target, is nothing carried over, does bye come after the streams, do teardown and leave end? |
| `link` | heartbeats 2 and 4, delay 1, 2 reloads, 2 failed dials | Is a healthy connection kept, a dead one noticed in time, do the counters settle? |
| `endpoints` | 2 addresses, 3 configurations, 2 edits, 1 failing listener, fairness | Is an endpoint always served and no server forgotten, is the last file applied, does the process exit? |

Every property of a passing run has a mutant: an operator beside the original,
named `Mutant of ...` in its comment, that changes one definition the way a slip in
the code would (a count not taken back, a guard left out, a name used for a
session). With the mutant in place TLC finds the property violated.

### Bounds, and why they are enough

- Two requests on two channels is the least on which the choice of the least
  loaded channel matters, one request can hold what another waits for, a queue of
  two forms (while no channel is up), and a channel can fail while the other takes
  over. Limits 1 and 2 let a reload raise and lower the limit below what is booked;
  reloads are not counted, so they may alternate for ever. Requests and channels
  are interchangeable (`MCNodePool`); the liveness runs use no symmetry. That
  order and books are right for longer queues is proved.
- Two handlers give a session and its successor, or two that compete to register.
  Two reloads let the drainer of the first meet the second. `MaxReloads` is the
  only counter bound of `NodeLifecycle`; every handler is used once, which bounds
  reconnects to one.
- Three node entries are needed for an entry that is dropped and one that claims what
  the dropped one would have taken; two port entries for a number that is taken.
  Documents of any length are covered by the proofs.
- A second listener is one that takes the place of the first while the first is
  still being stopped.
- One chunk has a head and a tail, so a piece can follow a piece and a cut can fall
  before, between and behind them; a second one adds no new way to wait. That nothing is
  lost or swapped between chunks either is proved, for any number of them.
- Counts 0 and 2 make the supervisor raise an invalid count to one, grow and
  shrink; three goroutines let one of two fail and a count be raised while cancelled
  ones are on their way out. Two sessions give a session and the one that follows.
- Heartbeats 2 and 4 are the least that differ by a factor for which a delay of 1
  still leaves the three-heartbeat rule a margin (`Moderate`); two reloads let the
  second overtake the effects of the first.
- Two addresses and three configurations let an endpoint move, be switched on and
  off and want the address another one is leaving; two edits let the second come
  while the first is applied.

`CHECK_DEADLOCK FALSE` everywhere: requests, handlers, listeners and connections
are used once, processes exit and a dead connection is given up by both ends, so
each model really stops.

The type invariants have no run of their own, because the proofs cover them for
every instance (`TypeCorrect` of each `*Proofs` module). The same holds for
`PayloadIsPrefix`, which the refinement of `Tunnel` implies, and for
`ReloadSparesNoOutdated`, the safe half of `OutdatedSessionIsClosed`.

### Fairness

A goroutine that can take its next instruction does (weak fairness per goroutine);
an armed timer fires; a started reload, drainer or shutdown goes on. Go's scheduler
and runtime timers justify that. No fairness is given to what nobody is
obliged to: clients connecting or leaving, streams ending, channels dying,
external processes giving a port up, peers sending or closing. In particular
`CloseStream` and `ForwardEnds` have none: after its channel died `forward` relays
a FIN and waits for the external peer, which may stay silent.
`OnlySilentPeersHoldIt` needs no assumption on the peers, because it names what may be
left: a goroutine that waits for a peer which was told the end and neither ends nor
sends. `HalfCloseLosesNothing` takes it that peers go on reading; what is written to
an open connection is delivered. `SeeLost` is fair: a write that failed leaves a
broken connection, so the read of the control loop fails or times out, and a client
that got no welcome closes its end. The client's teardown waits
for stream handlers and they for local services: `TeardownEnds` and `LeavingEnds`
name `ServicesAnswer`, a service whose channel died gives up. On the server's
endpoints an error in `errCh` must end the process, a signal need not come. The
`select` of `watchConfig` chooses at random among what is ready, and what puts the
timer off are edits, of which there are finitely many; that is why `Load` and
`WatchEnds` are strongly fair. `ControlLink` needs no fairness: its claims bound
the time itself. `HealthyLinkStaysUp` has one proviso, `Moderate`: no change of the
heartbeat is to a third or less, the delay included.

### Disagreements found

Each of these is a run that TLC finds violated, with the line of the repository it
contradicts in `PROJECT.json`.

1. **`queue_timeout` is not honoured after a retry** (`pool_timeout`). The timer's
   only tick is read while a slot is being handed over; opening a stream on that
   slot fails; the loop parks the request again and no timer is left.
2. **A stopped port that is not released** (`listener_leak`). `stop` reads
   `pl.ln` between `Listen` and the lock hold that publishes the socket; `run` does
   not look at its context again and accepts for ever.

Eight further claims of the repository that the models contradict. Each is stated
as a property in its module, and TLC finds it violated when it is added to the
configuration of the module's passing run, unless another instance is named; no run
of the project checks it:

- `NeverCountedTwice` (`NodePool`). `registry.go:363-364` says of a request that it is
  "queued while it waits, active once it holds a slot -- never both at once". The slot
  is booked at 477-478 and `queueDepth` lowered at 407 only, so a request that is
  opening its stream is in both gauges and `observeDemand` reports it twice.
  `DemandExact`, a part of `CountersExact`, says that the error is exactly the number
  of these requests, on every path.
- `OfflineNodeHasNoConnections` (`PortListener`). `listener.go:96-98` and the design
  document (line 313) say that the connections of a node that went offline are torn
  down. One that was accepted but not yet tracked when the forced stop read
  `pl.conns` is not, and neither are those of a listener that a graceful stop had
  already taken out of `m.items` (`drainNode`, `shutdown`: `server.go:679`), because
  the forced one that follows finds nothing. Their streams end with the session, but
  `forward` then waits at `<-upDone` for the external peer, which may stay silent.
- `DeadChannelClosesConnection` (`StreamForward`). The design document (line 314)
  says that the external connections of a dead data channel are closed. `forward`
  relays a FIN and waits for the peer (`listener.go:374`); a silent one keeps it for
  ever. What does hold is `OnlySilentPeersHoldIt`.
- `OfflineNodeReleasesPorts` (`NodeLifecycle`, instance `PortChange` from `Portless`).
  `StartPort`, called by a reload, sees the node online, the node leaves and is torn down, then
  the listener is inserted. It stays until the node returns.
- `TruncationIsNoCleanEnd` (`StreamForward`). `FrameReader` reports a truncated
  frame, but both callers drop the error of `io.Copy` and relay a FIN, as they do
  with the error of a TCP connection that was reset (`listener.go:336`,
  `client.go:534`).
- `ReloadInPlace` (`ControlLink`, e.g. heartbeats 1 and 4). A heartbeat is shortened
  to less than a third: the client's next read waits for three of the new
  intervals while the server's ticker still counts the old one, so the ping comes too
  late. The healthy connection is given up, where the design document (line 156) says that
  no reconnect is needed.
- `LeavingTakesNoStreams` (`ClientSession`). `Shutdown` sets the draining flag, the
  session ends and the next one resets it (`client.go:142`), so a client that is
  leaving takes streams again (`client.go:236`: "stop taking new streams").
- `ShutdownAlwaysEnds` (`Endpoints`). A reload that publishes a server after
  `shutdown` read `s.wsSrv` and `s.statusSrv` leaves one that nobody stops, and
  `wg.Wait` does not return.

Further behaviours of the code that the models contain and that disagree with a
comment or with the design document, without a property yet:

- A request that passed the draining check before a drain books a slot after
  `waitDrained` saw the session empty (`registry.go:357`; `registry.go:32` says a
  draining session takes no new streams).
- A node that is removed, added again and back online loses its ports to the drainer
  of the first reload, which stops them by node name (`server.go:686`).
- A handler that authenticated before a reload registers after the reload
  looked for sessions to disconnect or to push to, and keeps an outdated node
  connected, or outdated settings (`server.go:298`). It stays so through every later
  reload that does not touch its node or the settings, because `applyReload` compares
  snapshots and not what the session was sent. `OutdatedSessionIsClosed` is therefore
  about sessions that are registered in time, `ServedNodeGetsConfig` and
  `SessionStaysCurrent` about those that are in step once.
- A handler that registers after `shutdown` listed the sessions is neither drained
  nor told goodbye (`server.go:739`).
- A `StartNode` that began before a reload takes a port that moved to another node
  back (`listener.go:61`).
- A `reload_config` that could not be written is only logged (`server.go:662-665`);
  the snapshot is current and no later reload repeats it. Settings arrive then only
  with the node's next session.
- A session is registered before its welcome is written (`server.go:307`, 313). A
  reload in between pushes its configuration first and the welcome, built from the
  older one (299), follows; the client takes a first message that is no welcome for
  a failure and reconnects (`client.go:121-133`).
- An idle local service keeps `handleStream`, hence `serveChannel`, hence the dead
  channel's slot, so the channel is not rebuilt (`client.go:457`), and a client
  that is told to leave waits for it without a limit.
- An endpoint that could not be rebound is never retried: the snapshot that names
  the address is published, so the next reload sees no change (`server.go:558`).
- When one edit swaps `ws` and `status`, whether the second finds its address free
  depends on how far the goroutine that retires the first one is (`server.go:608`).
- Nobody reads the `Errors` channel of fsnotify; that every edit is reported is an
  assumption of `Endpoints`.

## What is proved

Everything below holds for every value of the constants, under the assumptions
the modules state: limits are positive integers, `nil` is no channel, sets of
requests, channels and streams are finite, heartbeats are positive and have a
greatest one, bounds are natural numbers, every configuration has a `ws` address,
a document is a pair of lists of entries, and what stands for "none" is none.
Each `*Proofs` module states the inductive invariant (`IInv`, `LoadInv`, `LInv`, `PInv`,
`SInv`, `CInv`, `EInv`), shows that it holds initially and that every action keeps it, one
lemma per group of actions, and derives the theorems.

The argument for the pool. `TypeOK`, `SlotOwnedByPhase`, `QueueExact`,
`SlotAccounting` and `WorkConserving` hold together, and none of the first four is
inductive alone: `handoffLocked` books for whoever is in the queue, so the books
stay right only if the queued own nothing (`QueueExact`); the queue stays exact only
if those who own a slot are in the phases that give it back
(`SlotOwnedByPhase`); a release takes a slot away only if there is one
(`SlotOwnedByPhase` again). `WorkConserving` needs in addition that a channel that
comes up was not in the map before (`OnlineIsServed`). `IInv` is their conjunction.

The lemmas follow the code. `HandoffEffect` says what `handoffLocked` does without
its choice of channels; `HandoffQueue` and `HandoffAccounts` derive what that means
for the queue and the books; `ReleaseAccounts`, `ReserveAccounts`, `ParkEffect`
and `WithoutEffect` do the same for `release`, `reserveLocked`, parking and
`abandon`; `HandoffConserves` and `HandoffBooksInLimit` are about room and limits.
`RequestInv`, `ChannelInv` and `SessionInv` have one case per action. For the
refinement, `HandoffServes` shows that every handoff serves a prefix of the queue,
and `FifoStep` maps acquire to `ServeDirectly` or `Join`, abandon to `GiveUp`, a
release to `GiveBack`, the other handoffs to `Grow` or a stutter. The theorems:

| Theorem of `NodePoolProofs` | States |
|---|---|
| `TypeCorrect`, `SlotsAreAccountedFor`, `SlotsFollowPhases`, `QueueIsExact`, `RoomIsHandedOn` | `Spec => []` of `TypeOK`, `SlotAccounting`, `SlotOwnedByPhase`, `QueueExact`, `WorkConserving` |
| `BookingsAreWithinLimit` | `Spec => BookingsWithinLimit`, an action property |
| `PoolIsFifo` | `Spec => FifoSpec`: the pool implements `FifoService` under the refinement mapping `queue <- waiters`, `served <- SlotOwners` |
| `QueueDepthIsExact`, `CountersAreExact` | `Spec => []` of `QueueDepthExact` and of all counters together, the demand included (`GaugesOverlap`: it is the union of the two gauges plus their intersection) |

**Configuration** (`ConfigProofs`: `LoadedSnapshotIsSound`, `DocumentOrderDecides`,
`LoadedIsSnapshot`; `DiffMovesListeners`, `DiffStripsRemovedNodes`, `DiffSparesOnlyUnchanged`).
`NodesSelected` and `PortsSelected` say of the entries passed so far which are in force
and for which earlier one the others gave way; they need `KeysClaimed` (the keys in
`keyOwner` are those of the nodes kept, each claimed by its owner) and
`EndpointsReserved`. The result meets `IsConfig`, with positive counts and times: that
discharges what `NodeLifecycle` assumes of its snapshots, `NodePool` of its limits and
`ControlLink` of its heartbeats. Of any two snapshots, the removed and the added ports of
a diff turn the old listeners into the new ones, a removed node loses all its ports
and gains none, and a node that is neither pushed to nor disconnected misses nothing.

**Registry and reload** (`NodeLifecycleProofs`: `RegistrationsMatch`, `ListenersAreOnline`,
`UnaffectedStayOpen`). That registrations match handlers is not inductive: a
step is taken by a handler for the node it read earlier, so `Shapes` and
`JobsKnowTheirPort` tie the node of a handler and of its `StartPort` calls to its
position, and `Registration` adds the converse (a registered session is its handler's).
`OwnPortsOnly`, `NoReloadYet` and `ListenersAreServed` say who may insert into
`m.items` before a reload. For what a reload may touch, `WorkIsDue` ties the
loops of `applyReload` to the diff they came from, `SessionIsConcerned` the session
it looked up to the node it is about, and `ClosersDrained` says that whom a drainer
or the shutdown is going to close, it has drained.

Four more theorems rest on that invariant and on what each adds to it.

- `ListenersMatch` adds the converse to `ListenersAreOnline`: `PortsOnTheWay` says that
  from the welcome on each port of the node has its listener or a `StartPort` call that
  is still to come or under way; `OfConfig` that, with the one snapshot there was, no
  such call finds another node's listener in its way.
- `DrainsAreFinished`: `Closer` names who will close a session that drains, and
  `ExitIsLast` adds that the process is up as long as there is one.
- `InStepStaysInStep`: `CfgFollowsReload` says which snapshot is published in which
  phase, and `Current` what `applyReload` still has to do about a served session in each
  (`InHand`: drain, disconnect, push, or nothing because its config is the same) and
  what its client was sent until then; `LossIsForGood` keeps a session to which a
  message was lost out of the claim.
- `OutdatedAreEnded`: `Condemned` says that the work left in the loops of `applyReload`
  contains the node, or that the session has been looked up, or that it is no longer
  served; `SessionsOnlyEnd` that the last is for good.

**Listener** (`PortListenerProofs`: `ReportedStateIsTrue`, `StopReleasesWhatItSaw`,
`ForcedStopLeavesNone`).
`SocketFollowsRun` ties the socket, its publication and the reported flag to where
`run` is; `ItemIsWanted` and `CancelledFirst` say that what is in `m.items` is not
being stopped and that a stop cancels first. A stop that read the open socket then
reaches a state (`Released`) that `run` cannot leave. `VictimsAreCut` is inductive on top
of it: what a stop read from `pl.conns` is the listener's own, is not tracked again,
and is closed once the stop has returned; nothing is forwarded for a node without a
session. These are the two facts that a forward which was under way waits for.

**Forwarding** (`StreamForwardProofs`: `PayloadArrivesInOrder`,
`RefusedServiceIsUntouched`, `FinFollowsTheData`, `ConnectionIsTunnel`). Along each direction `InTransit` says that what was handed
over and what is under way are the consecutive pieces of the sender's frames, a
header or an ack at the front at most, an end at the back at most; `Complete`
that nothing is missing as long as the stream is open, so that the next frame
continues the rest. `HeaderFirst` and `AckFirst` say when the lead is still there,
`RefusalIsFinal` that a client that refused does not go on to copy. For the FIN, `FInv`
adds where each goroutine of the two copies can be (`Places`, `OkMeansCopies`) and, per
direction, what an end of data that is under way or was relayed stands for: the
sender has stopped and nothing is missing in front of it, or the connection was
disturbed (`EndUp`, `EndDown`). The refinement maps every step to one of `Tunnel` or to
a stutter; that a piece is the next one is `InTransit`, that an end is one `FInv`.

**Client session** (`ClientSessionProofs`: `SupervisorKeepsTarget`,
`SessionsAreSeparate`, `ByeComesAfterStreams`). `Counted` equates `activeStreams` with the
handlers that counted themselves; `Linked` keeps a channel's goroutine in
`serveChannel` as long as one of its handlers runs, and `Unsupervised` says that
`Stop` has waited for them; `Keyed` numbers the goroutines, so new keys are
fresh; `FlagHolds` keeps Shutdown's flag until a session resets it.

**Heartbeat** (`ControlLinkProofs`: `HealthyLinkIsKept`, `DeadLinkIsGivenUp`,
`CountersAgree`). `InTime` bounds the arrival of the next message (`ServerHears`,
`ClientHears`: by what is first under way, or by the ticker that will send) below
the deadline of each end, under `Moderate`. `Deadlines` says that behind the death of
the link what is left of a deadline plus the time since stays within the limit,
`OneHeartbeat` which limit that is without a reload. For the counters, `Settling`: they
agree for good, or the right count is under way or will be sent in time, where
`CountsGrow` keeps a later message from carrying less.

**Endpoints** (`EndpointsProofs`: `ServerIsNeverDeaf`, `NoServerIsStray`,
`EndpointsFollowTheSnapshot`, `OnlyAReloadHoldsShutdown`). `Distinct` and `Serving` are about the published servers and
the one about to be published: nobody closes or retires them before the shutdown.
`NoneForgotten` says that whatever else serves is being retired, `Placed` where each
endpoint is while a reload has done the one and not the other. `StoppedAreClosed` adds
that what shutdown stopped and what a retire goroutine released never serves again
(`NoneReborn`), so that what still serves at the end, without a reload that
overtakes, is about to be released.

Each of these modules also proves its type invariant (`TypeCorrect`). Every safety
property that a run checks is proved. Only model-checked is liveness, which is out of
the prover's reach (so are `ENABLED` and induction over what a recursive definition
computes); of `ForcedStopCutsTracked`, `ShutdownEnds`, `OnlineNodeHasItsPorts`,
`OutdatedSessionIsClosed` and `ServedNodeGetsConfig` the safe half is proved
(`ForcedStopLeavesNone`, `OnlyAReloadHoldsShutdown`, `ListenersMatch`,
`OutdatedAreEnded`, `InStepStaysInStep`). `SessionStaysCurrent` and
`SeenSocketStaysClosed` nest one `[]` in another but are safety properties, and proved.

## What is not modelled

- Rendering of status and metrics, flags, logging, scripts: nothing acts on them.
  Counters that are single atomic additions (`Saturated`, bytes, dials) are left out
  where nothing depends on their order.
- Of `config.Load`: YAML, the formats of durations and addresses, and the warnings.
- Several listeners on different ports in one `PortListener`, and the listener a
  `StartPort` overwrites: `NodeLifecycle` holds `m.items` only.
- Wire formats beyond what kinds of item there are and where a frame may be cut;
  the thin wrappers of `wsutil` around the WebSocket and smux libraries.
- Backoff durations: how long a wait is matters only in `ControlLink`.
- `ClientSession` takes the server as external and `NodeLifecycle` the client. What
  one relies on of the other is a dropped connection that is noticed; how fast is
  `ControlLink`.

## Plan

Done: the slot pool with its refinement, loading a configuration and its difference,
the lifecycle of nodes, listeners, forwarding with its refinement, the client session,
the heartbeat and the endpoints, each with its proofs. Left:

1. `NodeLifecycle` with `m.items` holding listener objects, to see the listener that two
   overlapping `StartPort` calls overwrite, and graceful stops followed by forced
   ones.
2. The properties listed under the disagreements, as runs of their own.
3. With reloads, what is true of listeners and sessions up to the step under way: the
   invariant behind `ListenersMatchSessions` stops at the first reload.
