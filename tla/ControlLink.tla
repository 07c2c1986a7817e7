------------------------------ MODULE ControlLink ------------------------------
(***************************************************************************)
(* The two ends of an established control channel in discrete time: on the *)
(* server pingLoop and controlReadLoop (src/internal/server/server.go), on *)
(* the client controlLoop and statsLoop (src/internal/client/client.go),   *)
(* the reloads of the heartbeat that go from one to the other, and the     *)
(* counter of failed local dials, which reaches the server on two ways: in *)
(* the acks of the streams (listener.go, forward) and in the stats.        *)
(*                                                                         *)
(* A timer holds the time that is left.  Time passes only when nothing is  *)
(* due: the goroutines are prompt, and a message arrives, in order, within *)
(* MaxDelay, unless the link is dead.                                      *)
(***************************************************************************)
EXTENDS Integers, Sequences

CONSTANTS
    Heartbeats,    \* values settings.heartbeat may have, in units of time
    MaxDelay,      \* how long a message is under way at most
    MaxReloads,    \* bound: reloads of the heartbeat
    MaxFailures    \* bound: dials of local services that fail

ASSUME HeartbeatsAssumption ==
    /\ Heartbeats \subseteq Nat \ {0}
    /\ \E h \in Heartbeats : \A g \in Heartbeats : g <= h
ASSUME BoundsAssumption == {MaxDelay, MaxReloads, MaxFailures} \subseteq Nat

VARIABLES
    heartbeat,    \* server: what sess.Heartbeat() returns
    interval,     \* pingLoop: the interval its ticker runs with
    tick,         \* pingLoop: time to the next tick
    since,        \* time since LastSeen
    readLeft,     \* controlReadLoop: time left to the read
    known,        \* client: the heartbeat of its configuration
    statsEvery,   \* statsLoop: the interval its ticker runs with
    stats,        \* statsLoop: time to the next tick
    clientLeft,   \* controlLoop: time left to the read
    toClient,     \* messages to the client, and from it
    toServer,
    link,         \* the connection: "ok", "dead" without a sign, or "closed"
    ends,         \* the ends that have not given the connection up
    dead,         \* time since the link died
    reloads,      \* reloads so far
    failed,       \* client.localDialErrors
    acks,         \* acks dial_failed under way on the data channels
    counted,      \* NodeStats.LocalDialErrors
    quiet         \* time since a dial failed or an ack arrived, up to a period

serverTimers == <<interval, tick, since, readLeft>>
clientTimers == <<known, statsEvery, stats, clientLeft>>
wires == <<toClient, toServer>>
fate == <<link, ends, dead>>
counters == <<failed, acks, counted, quiet>>
vars == <<heartbeat, serverTimers, clientTimers, wires, fate, reloads, counters>>

MaxHeartbeat == CHOOSE h \in Heartbeats : \A g \in Heartbeats : g <= h

Period == MaxHeartbeat + MaxDelay

\* A message on a wire: what it says, the heartbeat or the count it carries, the
\* time it has left.
Message(type, n) == [type |-> type, value |-> n, left |-> MaxDelay]
Wired(q, type, n) == IF link = "ok" THEN Append(q, Message(type, n)) ELSE q

\* An end gives up; the other one is told, if the link still works.
GiveUp(end) ==
    /\ ends' = IF link = "ok" THEN {} ELSE ends \ {end}
    /\ link' = IF link = "ok" THEN "closed" ELSE link
    /\ UNCHANGED dead

-----------------------------------------------------------------------------
\* Server.

\* pushConfig: SetConfig, then the message.
Reload ==
    /\ "server" \in ends
    /\ reloads < MaxReloads
    /\ reloads' = reloads + 1
    /\ heartbeat' \in Heartbeats \ {heartbeat}
    /\ toClient' = Wired(toClient, "reload_config", heartbeat')
    /\ UNCHANGED <<serverTimers, clientTimers, toServer, fate, counters>>

\* A tick of pingLoop: the ticker is set to the current heartbeat, the silence
\* is measured against it, and a ping goes out.
Ping ==
    /\ "server" \in ends
    /\ tick = 0
    /\ interval' = heartbeat
    /\ tick' = interval'
    /\ IF since > 3 * interval'
       THEN GiveUp("server") /\ UNCHANGED toClient
       ELSE toClient' = Wired(toClient, "ping", 0) /\ UNCHANGED fate
    /\ UNCHANGED <<heartbeat, since, readLeft, clientTimers, toServer, reloads, counters>>

\* Mutant of ServerReads: the next read is given one heartbeat.
ServerReadsOnce ==
    /\ "server" \in ends
    /\ toServer # <<>>
    /\ toServer' = Tail(toServer)
    /\ since' = 0
    /\ readLeft' = heartbeat
    /\ counted' = IF Head(toServer).type = "stats" THEN Head(toServer).value ELSE counted
    /\ UNCHANGED <<heartbeat, interval, tick, clientTimers, toClient, fate, reloads, failed,
                   acks, quiet>>

\* Mutant of ServerReads: the count is taken for an increment.
ServerAdds ==
    /\ "server" \in ends
    /\ toServer # <<>>
    /\ toServer' = Tail(toServer)
    /\ since' = 0
    /\ readLeft' = 3 * heartbeat
    /\ counted' = IF Head(toServer).type = "stats" THEN counted + Head(toServer).value
                  ELSE counted
    /\ UNCHANGED <<heartbeat, interval, tick, clientTimers, toClient, fate, reloads, failed,
                   acks, quiet>>

\* controlReadLoop reads a pong or stats: Touch, the count is stored, and the next
\* read is given three heartbeats.
ServerReads ==
    /\ "server" \in ends
    /\ toServer # <<>>
    /\ toServer' = Tail(toServer)
    /\ since' = 0
    /\ readLeft' = 3 * heartbeat
    /\ counted' = IF Head(toServer).type = "stats" THEN Head(toServer).value ELSE counted
    /\ UNCHANGED <<heartbeat, interval, tick, clientTimers, toClient, fate, reloads, failed,
                   acks, quiet>>

\* forward reads the ack dial_failed, or has waited for it in vain.
AckArrives ==
    /\ acks > 0
    /\ acks' = acks - 1
    /\ \/ counted' = counted + 1 /\ quiet' = 0
       \/ UNCHANGED <<counted, quiet>>
    /\ UNCHANGED <<heartbeat, serverTimers, clientTimers, wires, fate, reloads, failed>>

\* Mutant of ServerTimesOut: the read has no deadline of its own.
ServerWaits ==
    /\ "server" \in ends
    /\ readLeft = 0
    /\ readLeft' = 3 * heartbeat
    /\ UNCHANGED <<heartbeat, interval, tick, since, clientTimers, wires, fate, reloads, counters>>

ServerTimesOut ==
    /\ "server" \in ends
    /\ readLeft = 0
    /\ GiveUp("server")
    /\ UNCHANGED <<heartbeat, serverTimers, clientTimers, wires, reloads, counters>>

-----------------------------------------------------------------------------
\* Client.

\* controlLoop reads a ping, which it answers, or a new configuration; the next
\* read is given three heartbeats.
ClientReads ==
    /\ "client" \in ends
    /\ toClient # <<>>
    /\ LET m == Head(toClient) IN
       /\ toClient' = Tail(toClient)
       /\ known' = IF m.type = "reload_config" THEN m.value ELSE known
       /\ toServer' = IF m.type = "ping" THEN Wired(toServer, "pong", 0) ELSE toServer
    /\ clientLeft' = 3 * known'
    /\ UNCHANGED <<heartbeat, serverTimers, statsEvery, stats, fate, reloads, counters>>

ClientTimesOut ==
    /\ "client" \in ends
    /\ clientLeft = 0
    /\ GiveUp("client")
    /\ UNCHANGED <<heartbeat, serverTimers, clientTimers, wires, reloads, counters>>

\* handleStream: the local service does not answer.
DialFails ==
    /\ "client" \in ends
    /\ failed < MaxFailures
    /\ failed' = failed + 1
    /\ acks' = acks + 1
    /\ quiet' = 0
    /\ UNCHANGED <<heartbeat, serverTimers, clientTimers, wires, fate, reloads, counted>>

\* A tick of statsLoop.
Stats ==
    /\ "client" \in ends
    /\ stats = 0
    /\ statsEvery' = known
    /\ stats' = statsEvery'
    /\ toServer' = Wired(toServer, "stats", failed)
    /\ UNCHANGED <<heartbeat, serverTimers, known, clientLeft, toClient, fate, reloads, counters>>

-----------------------------------------------------------------------------
\* Network and time.

\* A host or the path between them is gone: nothing arrives any more.
Die ==
    /\ link = "ok"
    /\ link' = "dead"
    /\ toClient' = <<>> /\ toServer' = <<>>
    /\ UNCHANGED <<heartbeat, serverTimers, clientTimers, ends, dead, reloads, counters>>

Aged(q) == [i \in DOMAIN q |-> [q[i] EXCEPT !.left = @ - 1]]

\* Nothing that is due is left undone.
Tick ==
    /\ \A m \in {toClient[i] : i \in DOMAIN toClient} \cup {toServer[i] : i \in DOMAIN toServer} :
           m.left > 0
    /\ "server" \in ends => tick > 0 /\ readLeft > 0
    /\ "client" \in ends => stats > 0 /\ clientLeft > 0
    /\ ends # {}
    /\ IF "server" \in ends
       THEN tick' = tick - 1 /\ readLeft' = readLeft - 1 /\ since' = since + 1
       ELSE UNCHANGED <<tick, readLeft, since>>
    /\ IF "client" \in ends
       THEN stats' = stats - 1 /\ clientLeft' = clientLeft - 1
       ELSE UNCHANGED <<stats, clientLeft>>
    /\ toClient' = Aged(toClient) /\ toServer' = Aged(toServer)
    /\ quiet' = IF quiet <= Period THEN quiet + 1 ELSE quiet
    /\ dead' = IF link = "dead" THEN dead + 1 ELSE dead
    /\ UNCHANGED <<heartbeat, interval, known, statsEvery, link, ends, reloads, failed, acks, counted>>

-----------------------------------------------------------------------------
\* The server has sent the welcome and the client has read it.
Init ==
    /\ heartbeat \in Heartbeats
    /\ interval = heartbeat /\ tick = heartbeat
    /\ since = 0 /\ readLeft = 3 * heartbeat
    /\ known = heartbeat /\ statsEvery = heartbeat /\ stats = heartbeat
    /\ clientLeft = 3 * heartbeat
    /\ toClient = <<>> /\ toServer = <<>>
    /\ link = "ok" /\ ends = {"server", "client"} /\ dead = 0
    /\ reloads = 0
    /\ failed = 0 /\ acks = 0 /\ counted = 0 /\ quiet = 0

Next ==
    \/ Reload \/ Ping \/ ServerReads \/ ServerTimesOut
    \/ ClientReads \/ ClientTimesOut \/ Stats \/ DialFails \/ AckArrives
    \/ Die \/ Tick

Spec == Init /\ [][Next]_vars

-----------------------------------------------------------------------------
\* Properties.

ServerSays ==
    [type : {"ping", "reload_config"}, value : Heartbeats \cup {0}, left : 0..MaxDelay]
ClientSays ==
    [type : {"pong", "stats"}, value : 0..MaxFailures, left : 0..MaxDelay]

TypeOK ==
    /\ {heartbeat, interval, known, statsEvery} \subseteq Heartbeats
    /\ {tick, stats} \subseteq 0..MaxHeartbeat
    /\ {since, readLeft, clientLeft} \subseteq 0 .. 3 * MaxHeartbeat
    /\ toClient \in Seq(ServerSays) /\ toServer \in Seq(ClientSays)
    /\ link \in {"ok", "dead", "closed"}
    /\ ends \subseteq {"server", "client"}
    /\ dead \in Nat
    /\ reloads \in 0..MaxReloads
    /\ {failed, acks} \subseteq 0..MaxFailures
    /\ counted \in 0 .. 2 * MaxFailures
    /\ quiet \in 0 .. Period + 1

\* No change of the heartbeat is to a third or less, the delay included.
Moderate == \A g, h \in Heartbeats : h + MaxDelay < 3 * g

\* While every message arrives neither end gives the connection up, whenever the
\* heartbeat is changed and whichever of the timers is still the old one
\* (server.go:352, 401 and 407, client.go:168), provided the changes are moderate.
HealthyLinkStaysUp == Moderate => link # "closed"

\* "the client applies it in place, no reconnect is needed"
\* (ws-tunnel-server-client-design.md:156, in Chinese), whatever the heartbeats.
ReloadInPlace == link # "closed"

\* "control channel is dead after heartbeat x 3" (server.go:407): an end does not
\* hold on to a dead connection for longer than three times the longest heartbeat
\* that was in force.
DeadLinkIsNoticed ==
    link = "dead" /\ ends # {} =>
        /\ dead <= 3 * MaxHeartbeat
        /\ reloads = 0 => dead <= 3 * heartbeat

\* forward adds a failed dial that the stats may already hold, and the next stats
\* overwrite what was added (listener.go:356, server.go:374): once nothing has
\* happened for the longest period between two stats, both counters agree.
CountersSettle ==
    link = "ok" /\ quiet > Period => counted = failed
=============================================================================
