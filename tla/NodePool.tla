------------------------------ MODULE NodePool ------------------------------
(***************************************************************************)
(* The slot pool of one NodeSession (src/internal/server/registry.go).     *)
(*                                                                         *)
(* A request is one call of OpenStream followed, when it succeeds, by one  *)
(* CloseStream: it reserves a slot on the least loaded data channel, or    *)
(* parks in the FIFO queue n.waiters until somebody who frees capacity     *)
(* hands a slot to it.  Every lock hold of n.chMu is one action; the       *)
(* instructions between two lock holds are joined with the hold before or  *)
(* after them only when no other goroutine can tell the difference.        *)
(*                                                                         *)
(* Around the requests run: the handler of each data channel (serveData),  *)
(* its Done watcher, the smux session that may die at any time (external), *)
(* the reload goroutine (SetConfig), the drainer (drainNode, waitDrained)  *)
(* and whoever closes the session.                                         *)
(***************************************************************************)
EXTENDS Integers, Sequences, FiniteSets

CONSTANTS
    Requests,   \* the calls of OpenStream, each made at most once
    Channels,   \* the ids NextChannelID hands out, each used at most once
    NoChannel,  \* a nil *DataChannel
    Limits,     \* the values max_streams_per_conn takes over the reloads
    InitLimit   \* max_streams_per_conn when the node comes online

\* config.Load replaces a max_streams_per_conn below one by its default.
ASSUME LimitAssumption == Limits \subseteq Nat \ {0} /\ InitLimit \in Limits
ASSUME NoChannelAssumption == NoChannel \notin Channels
ASSUME FiniteAssumption == IsFiniteSet(Requests) /\ IsFiniteSet(Channels)

VARIABLES
    pc,             \* where each request is in OpenStream
    timer,          \* each request's queue_timeout timer
    slot,           \* the channel a request owns a slot on (also while it
                    \* still sits in the waiter's ready channel: "handed")
    bad,            \* the channel a failed request is about to remove
    waiters,        \* n.waiters
    online,         \* the ids in n.channels
    active,         \* ch.active
    activeStreams,  \* n.activeStreams
    queueDepth,     \* n.queueDepth
    limit,          \* n.maxStreams
    reload,         \* progress of the one SetConfig under way
    handler,        \* progress of serveData for each channel
    health,         \* the smux session under each channel
    closing,        \* progress of NodeSession.Close
    toClose,        \* the channels Close took out of the map, still to close
    drain,          \* progress of drainNode/shutdown for this session
    cancelled       \* the server's baseCtx is done

requestVars == <<pc, timer, bad>>
poolVars    == <<slot, waiters, active, activeStreams>>
channelVars == <<online, handler, health>>
sessionVars == <<limit, reload, closing, toClose, drain, cancelled>>
vars == <<requestVars, poolVars, channelVars, sessionVars, queueDepth>>

\* A request that is inside OpenStream and has no slot to show for it yet.
Waiting == {"parked", "timedOut", "woken"}
InQueueRegion == Waiting \cup {"acquiring", "opening", "failing", "dropping"}

-----------------------------------------------------------------------------
\* Reservation (reserveLocked) and handoff (handoffLocked).

\* Mutant of Room: one slot too many.
RoomOffByOne(act, on) ==
    {c \in on : health[c] # "closed" /\ act[c] <= limit}

\* The channels in `on` with a free slot, when `act` slots are booked.
Room(act, on) ==
    {c \in on : health[c] # "closed" /\ act[c] < limit}

\* Where reserveLocked may book: map iteration breaks ties in any order.
LeastLoaded(act, on) ==
    {c \in Room(act, on) : \A d \in Room(act, on) : act[c] <= act[d]}

\* The bookings after the first i grants of g on top of `act`.
Booked(act, g, i) ==
    [c \in Channels |-> act[c] + Cardinality({j \in 1..i : g[j] = c})]

\* Mutant of Handoff: those who came last are granted.
HandoffToLast(owned, act, total, on) ==
    LET n == Len(waiters) IN
    \E k \in 0..n : \E g \in [1..k -> on] :
        /\ \A i \in 1..k : g[i] \in LeastLoaded(Booked(act, g, i - 1), on)
        /\ k = n \/ Room(Booked(act, g, k), on) = {}
        /\ waiters' = SubSeq(waiters, 1, n - k)
        /\ active' = Booked(act, g, k)
        /\ activeStreams' = total + k
        /\ slot' = [r \in Requests |->
                       IF \E i \in 1..k : waiters[n + 1 - i] = r
                       THEN g[CHOOSE i \in 1..k : waiters[n + 1 - i] = r]
                       ELSE owned[r]]

\* handoffLocked: the first k waiters are granted, in order, each on a least
\* loaded channel of that moment, until the queue or the room runs out.
\* `owned`, `act` and `total` are slot, active and activeStreams as the caller
\* left them before the loop.
Handoff(owned, act, total, on) ==
    \E k \in 0..Len(waiters) : \E g \in [1..k -> on] :
        /\ \A i \in 1..k : g[i] \in LeastLoaded(Booked(act, g, i - 1), on)
        /\ k = Len(waiters) \/ Room(Booked(act, g, k), on) = {}
        /\ waiters' = SubSeq(waiters, k + 1, Len(waiters))
        /\ active' = Booked(act, g, k)
        /\ activeStreams' = total + k
        /\ slot' = [r \in Requests |->
                       IF \E i \in 1..k : waiters[i] = r
                       THEN g[CHOOSE i \in 1..k : waiters[i] = r]
                       ELSE owned[r]]

\* Mutant of Release: the session's own count is forgotten.
ReleaseChannelOnly(r) ==
    Handoff([slot EXCEPT ![r] = NoChannel],
            [active EXCEPT ![slot[r]] = @ - 1],
            activeStreams, online)

\* release: give back r's slot and hand it on under the same lock hold.
Release(r) ==
    Handoff([slot EXCEPT ![r] = NoChannel],
            [active EXCEPT ![slot[r]] = @ - 1],
            activeStreams - 1, online)

\* abandon's removal of a waiter from wherever it stands in the queue.
Without(q, r) ==
    LET i == CHOOSE j \in 1..Len(q) : q[j] = r
    IN  SubSeq(q, 1, i - 1) \o SubSeq(q, i + 1, Len(q))

-----------------------------------------------------------------------------
\* OpenStream and CloseStream.

\* Entry: the one look at the draining flag, the timer, queueDepth.Add(1).
Arrive(r) ==
    /\ pc[r] = "idle"
    /\ IF drain # "serving"
       THEN /\ pc' = [pc EXCEPT ![r] = "returned"]
            /\ UNCHANGED <<timer, queueDepth>>
       ELSE /\ pc' = [pc EXCEPT ![r] = "acquiring"]
            /\ timer' = [timer EXCEPT ![r] = "armed"]
            /\ queueDepth' = queueDepth + 1
    /\ UNCHANGED <<bad, poolVars, channelVars, sessionVars>>

\* queue_timeout elapses; the tick stays in timer.C until somebody reads it.
TimerFires(r) ==
    /\ pc[r] \in InQueueRegion
    /\ timer[r] = "armed"
    /\ timer' = [timer EXCEPT ![r] = "fired"]
    /\ UNCHANGED <<pc, bad, poolVars, channelVars, sessionVars, queueDepth>>

\* acquire: reserve when nobody is parked and there is room, else park.
Acquire(r) ==
    /\ pc[r] = "acquiring"
    /\ IF waiters = <<>> /\ Room(active, online) # {}
       THEN \E c \in LeastLoaded(active, online) :
               /\ slot' = [slot EXCEPT ![r] = c]
               /\ active' = [active EXCEPT ![c] = @ + 1]
               /\ activeStreams' = activeStreams + 1
               /\ pc' = [pc EXCEPT ![r] = "opening"]
               /\ UNCHANGED waiters
       ELSE /\ waiters' = Append(waiters, r)
            /\ pc' = [pc EXCEPT ![r] = "parked"]
            /\ UNCHANGED <<slot, active, activeStreams>>
    /\ UNCHANGED <<timer, bad, channelVars, sessionVars, queueDepth>>

\* The select: a slot arrived on waiter.ready ...
TakeReady(r) ==
    /\ pc[r] = "parked"
    /\ slot[r] # NoChannel
    /\ pc' = [pc EXCEPT ![r] = "opening"]
    /\ UNCHANGED <<timer, bad, poolVars, channelVars, sessionVars, queueDepth>>

\* Mutant of TakeTimeout: only a node without a channel times a request out.
TakeTimeoutUnlessOnline(r) ==
    /\ pc[r] = "parked"
    /\ timer[r] = "fired"
    /\ online = {}
    /\ timer' = [timer EXCEPT ![r] = "consumed"]
    /\ pc' = [pc EXCEPT ![r] = "timedOut"]
    /\ UNCHANGED <<bad, poolVars, channelVars, sessionVars, queueDepth>>

\* ... or the timer's one tick ...
TakeTimeout(r) ==
    /\ pc[r] = "parked"
    /\ timer[r] = "fired"
    /\ timer' = [timer EXCEPT ![r] = "consumed"]
    /\ pc' = [pc EXCEPT ![r] = "timedOut"]
    /\ UNCHANGED <<bad, poolVars, channelVars, sessionVars, queueDepth>>

\* Mutant of TakeDone: the select misses the session's done channel.
TakeDoneServerOnly(r) ==
    /\ pc[r] = "parked"
    /\ cancelled
    /\ pc' = [pc EXCEPT ![r] = "woken"]
    /\ UNCHANGED <<timer, bad, poolVars, channelVars, sessionVars, queueDepth>>

\* ... or the session ended, or the server's context did.
TakeDone(r) ==
    /\ pc[r] = "parked"
    /\ closing # "no" \/ cancelled
    /\ pc' = [pc EXCEPT ![r] = "woken"]
    /\ UNCHANGED <<timer, bad, poolVars, channelVars, sessionVars, queueDepth>>

\* Mutant of Abandon: the waiter is left in the queue.
AbandonStaysQueued(r) ==
    /\ pc[r] \in {"timedOut", "woken"}
    /\ IF slot[r] # NoChannel
       THEN pc' = [pc EXCEPT ![r] = "opening"] /\ UNCHANGED queueDepth
       ELSE pc' = [pc EXCEPT ![r] = "returned"] /\ queueDepth' = queueDepth - 1
    /\ UNCHANGED <<timer, bad, poolVars, channelVars, sessionVars>>

\* abandon: keep a slot that was handed over meanwhile, otherwise leave the
\* queue and return an error (which of the errors, and the Saturated counter,
\* are not modelled).
Abandon(r) ==
    /\ pc[r] \in {"timedOut", "woken"}
    /\ IF slot[r] # NoChannel
       THEN /\ pc' = [pc EXCEPT ![r] = "opening"]
            /\ UNCHANGED <<waiters, queueDepth>>
       ELSE /\ waiters' = Without(waiters, r)
            /\ pc' = [pc EXCEPT ![r] = "returned"]
            /\ queueDepth' = queueDepth - 1
    /\ UNCHANGED <<timer, bad, slot, active, activeStreams, channelVars, sessionVars>>

\* ch.sess.OpenStream() succeeds: OpenStream returns with the slot.
OpenSucceeds(r) ==
    /\ pc[r] = "opening"
    /\ health[slot[r]] = "up"
    /\ pc' = [pc EXCEPT ![r] = "streaming"]
    /\ queueDepth' = queueDepth - 1
    /\ UNCHANGED <<timer, bad, poolVars, channelVars, sessionVars>>

\* ch.sess.OpenStream() fails and the slot is released ...
OpenFails(r) ==
    /\ pc[r] = "opening"
    /\ health[slot[r]] # "up"
    /\ pc' = [pc EXCEPT ![r] = "dropping"]
    /\ bad' = [bad EXCEPT ![r] = slot[r]]
    /\ Release(r)
    /\ UNCHANGED <<timer, channelVars, sessionVars, queueDepth>>

\* RemoveChannel: out of the map, then close the smux session.  A channel that
\* is removed is already broken, so nobody sees the time between the two.
RemoveChannel(c) ==
    /\ online' = online \ {c}
    /\ health' = [health EXCEPT ![c] = "closed"]

\* ... then the channel is dropped and the loop starts over at acquire.
DropChannel(r) ==
    /\ pc[r] = "dropping"
    /\ RemoveChannel(bad[r])
    /\ pc' = [pc EXCEPT ![r] = "acquiring"]
    /\ bad' = [bad EXCEPT ![r] = NoChannel]
    /\ UNCHANGED <<timer, poolVars, handler, sessionVars, queueDepth>>

\* The forward ends, for whatever reason, and calls CloseStream.
CloseStream(r) ==
    /\ pc[r] = "streaming"
    /\ pc' = [pc EXCEPT ![r] = "returned"]
    /\ Release(r)
    /\ UNCHANGED <<timer, bad, channelVars, sessionVars, queueDepth>>

-----------------------------------------------------------------------------
\* Data channels: serveData, its Done watcher, the smux session underneath.

\* serveData up to smux.Client: the session was looked up, the welcome sent.
Connect(c) ==
    /\ handler[c] = "absent"
    /\ handler' = [handler EXCEPT ![c] = "connected"]
    /\ health' = [health EXCEPT ![c] = "up"]
    /\ UNCHANGED <<requestVars, poolVars, online, sessionVars, queueDepth>>

\* Mutant of AddChannel: the parked are not told of the new channel.
AddChannelSilently(c) ==
    /\ handler[c] = "connected"
    /\ handler' = [handler EXCEPT ![c] = "serving"]
    /\ online' = online \cup {c}
    /\ UNCHANGED <<requestVars, poolVars, health, sessionVars, queueDepth>>

\* AddChannel, which may run after the session closed or the channel died.
AddChannel(c) ==
    /\ handler[c] = "connected"
    /\ handler' = [handler EXCEPT ![c] = "serving"]
    /\ online' = online \cup {c}
    /\ Handoff(slot, active, activeStreams, online')
    /\ UNCHANGED <<requestVars, health, sessionVars, queueDepth>>

\* The smux session dies: a read or write error ("broken": OpenStream fails,
\* IsClosed is still false) or its own keepalive closing it ("closed").
ChannelDies(c) ==
    /\ health[c] = "up"
    /\ \E h \in {"broken", "closed"} : health' = [health EXCEPT ![c] = h]
    /\ UNCHANGED <<requestVars, poolVars, online, handler, sessionVars, queueDepth>>

\* The goroutine that waits for sess.Done() and closes the channel.
WatchDone(c) ==
    /\ handler[c] = "serving"
    /\ closing # "no"
    /\ health[c] # "closed"
    /\ health' = [health EXCEPT ![c] = "closed"]
    /\ UNCHANGED <<requestVars, poolVars, online, handler, sessionVars, queueDepth>>

\* AcceptStream returned an error: the handler removes its channel.
ServeEnds(c) ==
    /\ handler[c] = "serving"
    /\ health[c] # "up"
    /\ handler' = [handler EXCEPT ![c] = "gone"]
    /\ RemoveChannel(c)
    /\ UNCHANGED <<requestVars, poolVars, sessionVars, queueDepth>>

-----------------------------------------------------------------------------
\* The session: SetConfig, drain, Close, the server's context.

\* SetConfig, first half: the new limit is stored outside chMu.
StoreLimit(l) ==
    /\ reload = "idle"
    /\ limit # l
    /\ limit' = l
    /\ reload' = "stored"
    /\ UNCHANGED <<requestVars, poolVars, channelVars, closing, toClose, drain,
                   cancelled, queueDepth>>

\* SetConfig, second half: hand the room a raised limit made to the parked.
HandoffAfterStore ==
    /\ reload = "stored"
    /\ reload' = "idle"
    /\ Handoff(slot, active, activeStreams, online)
    /\ UNCHANGED <<requestVars, channelVars, limit, closing, toClose, drain,
                   cancelled, queueDepth>>

\* drainNode or shutdown: SetDraining(true).
StartDrain ==
    /\ drain = "serving"
    /\ drain' = "draining"
    /\ UNCHANGED <<requestVars, poolVars, channelVars, limit, reload, closing,
                   toClose, cancelled, queueDepth>>

\* waitDrained reads ActiveStreams() == 0 and returns.  (Its other returns, the
\* deadline and Done, need no step: CloseBegins may happen at any time.)
SeeDrained ==
    /\ drain = "draining"
    /\ activeStreams = 0
    /\ drain' = "drained"
    /\ UNCHANGED <<requestVars, poolVars, channelVars, limit, reload, closing,
                   toClose, cancelled, queueDepth>>

\* Close, under closeOnce: close(n.done) ...
CloseBegins ==
    /\ closing = "no"
    /\ closing' = "done"
    /\ UNCHANGED <<requestVars, poolVars, channelVars, limit, reload, toClose,
                   drain, cancelled, queueDepth>>

\* ... take every channel out of the map ...
CloseTakesChannels ==
    /\ closing = "done"
    /\ closing' = "emptied"
    /\ toClose' = online
    /\ online' = {}
    /\ UNCHANGED <<requestVars, poolVars, handler, health, limit, reload, drain,
                   cancelled, queueDepth>>

\* ... and close them one by one, outside the lock.
CloseChannel(c) ==
    /\ c \in toClose
    /\ toClose' = toClose \ {c}
    /\ health' = [health EXCEPT ![c] = "closed"]
    /\ UNCHANGED <<requestVars, poolVars, online, handler, limit, reload, closing,
                   drain, cancelled, queueDepth>>

\* shutdown: baseCancel().
CancelBase ==
    /\ ~cancelled
    /\ cancelled' = TRUE
    /\ UNCHANGED <<requestVars, poolVars, channelVars, limit, reload, closing,
                   toClose, drain, queueDepth>>

-----------------------------------------------------------------------------
Init ==
    /\ pc = [r \in Requests |-> "idle"]
    /\ timer = [r \in Requests |-> "armed"]
    /\ slot = [r \in Requests |-> NoChannel]
    /\ bad = [r \in Requests |-> NoChannel]
    /\ waiters = <<>>
    /\ online = {}
    /\ active = [c \in Channels |-> 0]
    /\ activeStreams = 0
    /\ queueDepth = 0
    /\ limit = InitLimit
    /\ reload = "idle"
    /\ handler = [c \in Channels |-> "absent"]
    /\ health = [c \in Channels |-> "closed"]
    /\ closing = "no"
    /\ toClose = {}
    /\ drain = "serving"
    /\ cancelled = FALSE

RequestStep(r) ==
    \/ Arrive(r) \/ TimerFires(r) \/ Acquire(r)
    \/ TakeReady(r) \/ TakeTimeout(r) \/ TakeDone(r) \/ Abandon(r)
    \/ OpenSucceeds(r) \/ OpenFails(r) \/ DropChannel(r) \/ CloseStream(r)

ChannelStep(c) ==
    \/ Connect(c) \/ AddChannel(c) \/ ChannelDies(c)
    \/ WatchDone(c) \/ ServeEnds(c) \/ CloseChannel(c)

SessionStep ==
    \/ \E l \in Limits : StoreLimit(l)
    \/ HandoffAfterStore
    \/ StartDrain \/ SeeDrained
    \/ CloseBegins \/ CloseTakesChannels
    \/ CancelBase

Next ==
    \/ \E r \in Requests : RequestStep(r)
    \/ \E c \in Channels : ChannelStep(c)
    \/ SessionStep

Spec == Init /\ [][Next]_vars

-----------------------------------------------------------------------------
\* Fairness: every goroutine that can take its next instruction does, and a
\* timer that is armed fires.  Nobody is obliged to arrive, to end a stream
\* (not even on a dead channel: forward may wait for the external peer), to
\* connect, to reload, to drain or to close.
Fairness ==
    /\ \A r \in Requests :
        /\ WF_vars(TimerFires(r))
        /\ WF_vars(Acquire(r))
        /\ WF_vars(TakeReady(r) \/ TakeTimeout(r) \/ TakeDone(r))
        /\ WF_vars(Abandon(r))
        /\ WF_vars(OpenSucceeds(r) \/ OpenFails(r))
        /\ WF_vars(DropChannel(r))
    /\ \A c \in Channels :
        WF_vars(AddChannel(c) \/ WatchDone(c) \/ ServeEnds(c) \/ CloseChannel(c))
    /\ WF_vars(HandoffAfterStore)
    /\ WF_vars(CloseTakesChannels)

FairSpec == Spec /\ Fairness

-----------------------------------------------------------------------------
\* Properties.

TypeOK ==
    /\ pc \in [Requests -> {"idle", "streaming", "returned"} \cup InQueueRegion]
    /\ timer \in [Requests -> {"armed", "fired", "consumed"}]
    /\ slot \in [Requests -> Channels \cup {NoChannel}]
    /\ bad \in [Requests -> Channels \cup {NoChannel}]
    /\ waiters \in Seq(Requests)
    /\ online \subseteq Channels
    /\ active \in [Channels -> Int]
    /\ activeStreams \in Int
    /\ queueDepth \in Int
    /\ limit \in Limits
    /\ reload \in {"idle", "stored"}
    /\ handler \in [Channels -> {"absent", "connected", "serving", "gone"}]
    /\ health \in [Channels -> {"up", "broken", "closed"}]
    /\ closing \in {"no", "done", "emptied"}
    /\ toClose \subseteq Channels
    /\ drain \in {"serving", "draining", "drained"}
    /\ cancelled \in BOOLEAN

Owners(c) == {r \in Requests : slot[r] = c}
SlotOwners == {r \in Requests : slot[r] # NoChannel}

\* No slot is ever lost or given back twice, whichever of handoff, timeout,
\* session end and channel failure wins the race: each channel's count and the
\* session's count (what drain waits on) are exactly the slots requests own.
\* (acquire, abandon, release, handoffLocked; "dropping it on the floor would
\* lose the slot for good", registry.go:433.)
SlotAccounting ==
    /\ \A c \in Channels : active[c] = Cardinality(Owners(c))
    /\ activeStreams = Cardinality(SlotOwners)

\* A request owns a slot exactly from its grant to its release: never while it
\* is before acquire, after release or after it returned.
SlotOwnedByPhase ==
    \A r \in Requests :
        /\ pc[r] \in {"opening", "streaming"} => slot[r] # NoChannel
        /\ slot[r] # NoChannel => pc[r] \in Waiting \cup {"opening", "streaming"}
        /\ pc[r] = "dropping" <=> bad[r] # NoChannel

\* The queue holds exactly the requests that wait and were not handed a slot,
\* each once: no request waits forgotten, no one who left can be handed a slot
\* (the race of abandon against handoffLocked).
QueueExact ==
    /\ \A i, j \in 1..Len(waiters) : waiters[i] = waiters[j] => i = j
    /\ \A r \in Requests :
        (pc[r] \in Waiting /\ slot[r] = NoChannel)
            <=> \E i \in 1..Len(waiters) : waiters[i] = r

\* The queue serves first come, first served: newcomers never overtake the
\* parked and freed slots go to the head, in order (FifoService).
Fifo == INSTANCE FifoService WITH
    Clients <- Requests, queue <- waiters, served <- SlotOwners
FifoSpec == Fifo!Spec

\* Nobody is parked while a usable channel has a free slot, except between the
\* two halves of SetConfig: every event that makes room hands it on under the
\* lock hold that made it (registry.go:265, 310, 421).
WorkConserving ==
    reload = "idle" => waiters = <<>> \/ Room(active, online) = {}

\* The gauge queue_depth counts the requests inside OpenStream, the ones that
\* own a slot already and are opening a stream on it among them: it is lowered
\* behind ch.sess.OpenStream only (registry.go:407).
QueueDepthExact ==
    queueDepth = Cardinality({r \in Requests : pc[r] \in InQueueRegion})

\* Those who make demand, and those of them that both gauges count, from the
\* booking of their slot (registry.go:477-478) to the end of OpenStream.
Demanding == {r \in Requests : pc[r] \in InQueueRegion \cup {"streaming"}}
CountedTwice == {r \in SlotOwners : pc[r] \in InQueueRegion}

\* What observeDemand reports, activeStreams + queueDepth, is the number of the
\* requests that arrived and have not ended, plus those that are counted twice:
\* it is too high by exactly the slot owners whose stream is not open yet.
DemandExact ==
    activeStreams + queueDepth = Cardinality(Demanding) + Cardinality(CountedTwice)

\* What the code says of the same sum: "queued while it waits, active once it
\* holds a slot -- never both at once" (registry.go:363-364). It is false of
\* every request that gets a slot, and so in no run.
NeverCountedTwice == activeStreams + queueDepth = Cardinality(Demanding)

\* Between any two lock holds each counter has one meaning, whatever races: the
\* counts that drain, the limit and the handoff act on are the slots that are
\* owned, queue_depth is whoever is inside OpenStream, and the demand is off by
\* the overlap of the two and by nothing else (ch.active, n.activeStreams,
\* n.queueDepth, observeDemand).
CountersExact == SlotAccounting /\ QueueDepthExact /\ DemandExact

\* A step that books more slots on a channel leaves it within the limit in
\* force and books only on a channel that is in the map and not closed, even
\* right after a reload lowered the limit or while Close empties the map.
BookingsWithinLimit ==
    [][\A c \in Channels :
          active'[c] > active[c] =>
              active'[c] <= limit /\ c \in online' /\ health[c] # "closed"]_vars

\* A request waits at most queue_timeout: once its timer has been read, it is
\* not parked again for good ("queueing up to queue_timeout when every channel
\* is full", registry.go:351-352).
QueueTimeoutHonoured ==
    \A r \in Requests :
        [](timer[r] = "consumed" => <>[](pc[r] \notin Waiting))

\* As far as the timer of a request has not been read, it ends its wait.
ArmedTimerEndsWait ==
    \A r \in Requests :
        (pc[r] = "parked" /\ timer[r] # "consumed") ~> pc[r] # "parked"

\* A closed session lets everybody go who is inside OpenStream and keeps no
\* channel, not even one that is added after Close, or a waiter that is handed
\* a slot while it is woken (Close, acquire's Done case, the Done watcher).
ClosedSessionLetsGo ==
    [](closing # "no" =>
        <>[](/\ online = {}
             /\ waiters = <<>>
             /\ \A r \in Requests : pc[r] \notin InQueueRegion))
=============================================================================
