---------------------------- MODULE PortListener ----------------------------
(***************************************************************************)
(* One reverse port of one node over time: the portListener objects that   *)
(* follow each other in m.items, each with its run/accept goroutine, the   *)
(* stop calls that end it and the external connections it accepted         *)
(* (src/internal/server/listener.go).                                      *)
(*                                                                         *)
(* Each lock hold of pl.mu and each system call is one action.  The kernel *)
(* is external: one socket at a time may be bound to the port, another     *)
(* process (`foreign`) may hold it, and a connection is accepted on any    *)
(* socket that is open.                                                    *)
(***************************************************************************)
EXTENDS FiniteSets

CONSTANTS
    Listeners,   \* the portListener objects, each started at most once
    Conns,       \* the external connections, each made at most once
    NoListener,
    Graceful     \* whether a graceful stop may happen: a subset of {TRUE}

ASSUME ListenerAssumption == NoListener \notin Listeners
ASSUME GracefulAssumption == Graceful \subseteq {TRUE}

VARIABLES
    node,        \* the node's control channel: "down", "up", or "leaving"
                 \* (StopNode was called, Unregister not yet)
    item,        \* m.items[port]
    run,         \* progress of pl.run and pl.accept
    cancelled,   \* pl.ctx is done
    sock,        \* the socket pl.run bound last
    published,   \* pl.ln is that socket
    listening,   \* pl.listening
    stop,        \* progress of pl.stop
    graceful,    \* its argument
    sawSock,     \* the ln it read is the socket pl.run bound last
    victims,     \* the connections it read from pl.conns and has to close
    conn,        \* each external connection, from Accept to untrack
    shut,        \* the connections that a stop has closed
    owner,       \* the listener that accepted it
    foreign      \* another process holds the port

runVars  == <<run, sock, published, listening>>
stopVars == <<cancelled, stop, graceful, sawSock, victims>>
connVars == <<conn, shut, owner>>
vars == <<node, item, runVars, stopVars, connVars, foreign>>

\* The states inside pl.conns.  A forward whose stream died with its channel or
\* its session is orphaned: it has relayed a FIN, if it was past the ack, and
\* waits at <-upDone for the connection to end.
Tracked == {"tracked", "forwarding", "orphaned"}

-----------------------------------------------------------------------------
\* The callers: serveControl, applyReload, drainNode, shutdown.

StartPort ==
    \E pl \in Listeners :
        /\ run[pl] = "none"
        /\ item' = pl
        /\ run' = [run EXCEPT ![pl] = "top"]

\* StopPort, StopNode or StopAll take the listener out of m.items and call stop.
CallStop(g) ==
    /\ item' = NoListener
    /\ stop' = [stop EXCEPT ![item] = "called"]
    /\ graceful' = [graceful EXCEPT ![item] = g]

\* The node registers and StartNode starts its port.
NodeComesUp ==
    /\ node = "down"
    /\ node' = "up"
    /\ StartPort
    /\ UNCHANGED <<sock, published, listening, stopVars, connVars, foreign>>

\* The control channel ended: StopNode(name, false) stops what m.items has ...
NodeLeaves ==
    /\ node = "up"
    /\ node' = "leaving"
    /\ IF item = NoListener THEN UNCHANGED <<item, stop, graceful>> ELSE CallStop(FALSE)
    /\ UNCHANGED <<runVars, cancelled, sawSock, victims, connVars, foreign>>

\* ... and when stop has returned, the session is unregistered and closed, and
\* with it every stream of the node.
NodeIsGone ==
    /\ node = "leaving"
    /\ \A pl \in Listeners : graceful[pl] \/ stop[pl] \in {"no", "done"}
    /\ node' = "down"
    /\ conn' = [c \in Conns |-> IF conn[c] = "forwarding" THEN "orphaned" ELSE conn[c]]
    /\ UNCHANGED <<item, runVars, stopVars, shut, owner, foreign>>

\* A reload removes the port, or a drain stops the node's ports gracefully.
GracefulStop ==
    /\ node = "up"
    /\ item # NoListener
    /\ \E g \in Graceful : CallStop(g)
    /\ UNCHANGED <<node, runVars, cancelled, sawSock, victims, connVars, foreign>>

\* A reload adds the port of a node that is online.
PortIsAdded ==
    /\ node = "up"
    /\ item = NoListener
    /\ StartPort
    /\ UNCHANGED <<node, sock, published, listening, stopVars, connVars, foreign>>

-----------------------------------------------------------------------------
\* pl.stop.

StopCancels(pl) ==
    /\ stop[pl] = "called"
    /\ stop' = [stop EXCEPT ![pl] = "cancelled"]
    /\ cancelled' = [cancelled EXCEPT ![pl] = TRUE]
    /\ UNCHANGED <<node, item, runVars, graceful, sawSock, victims, connVars, foreign>>

\* Under pl.mu: read pl.ln and, unless graceful, the tracked connections.
StopReads(pl) ==
    /\ stop[pl] = "cancelled"
    /\ stop' = [stop EXCEPT ![pl] = "read"]
    /\ sawSock' = [sawSock EXCEPT ![pl] = published[pl]]
    /\ victims' = [victims EXCEPT ![pl] =
         IF graceful[pl] THEN {} ELSE {c \in Conns : owner[c] = pl /\ conn[c] \in Tracked}]
    /\ listening' = [listening EXCEPT ![pl] = FALSE]
    /\ UNCHANGED <<node, item, run, sock, published, cancelled, graceful, connVars, foreign>>

\* Mutant of StopCloses: the socket is left open.
StopClosesConnsOnly(pl) ==
    /\ stop[pl] = "read"
    /\ stop' = [stop EXCEPT ![pl] = "done"]
    /\ shut' = shut \cup victims[pl]
    /\ UNCHANGED <<node, item, runVars, cancelled, graceful, sawSock, victims, conn, owner,
                   foreign>>

\* Mutant of StopCloses: the connections are left open.
StopClosesSocketOnly(pl) ==
    /\ stop[pl] = "read"
    /\ stop' = [stop EXCEPT ![pl] = "done"]
    /\ sock' = IF sawSock[pl] THEN [sock EXCEPT ![pl] = "closed"] ELSE sock
    /\ UNCHANGED <<node, item, run, published, listening, cancelled, graceful, sawSock,
                   victims, connVars, foreign>>

\* Close what was read.  For one that is gone Close does nothing.
StopCloses(pl) ==
    /\ stop[pl] = "read"
    /\ stop' = [stop EXCEPT ![pl] = "done"]
    /\ sock' = IF sawSock[pl] THEN [sock EXCEPT ![pl] = "closed"] ELSE sock
    /\ shut' = shut \cup victims[pl]
    /\ UNCHANGED <<node, item, run, published, listening, cancelled, graceful, sawSock,
                   victims, conn, owner, foreign>>

-----------------------------------------------------------------------------
\* pl.run and pl.accept.

\* The head of the loop looks at the context.
RunChecks(pl) ==
    /\ run[pl] = "top"
    /\ run' = [run EXCEPT ![pl] = IF cancelled[pl] THEN "exited" ELSE "binding"]
    /\ UNCHANGED <<node, item, sock, published, listening, stopVars, connVars, foreign>>

PortFree == ~foreign /\ \A pl \in Listeners : sock[pl] # "open"

\* lc.Listen succeeds, whether or not the context was cancelled meanwhile ...
BindSucceeds(pl) ==
    /\ run[pl] = "binding"
    /\ PortFree
    /\ run' = [run EXCEPT ![pl] = "bound"]
    /\ sock' = [sock EXCEPT ![pl] = "open"]
    /\ published' = [published EXCEPT ![pl] = FALSE]
    /\ sawSock' = [sawSock EXCEPT ![pl] = FALSE]
    /\ UNCHANGED <<node, item, listening, cancelled, stop, graceful, victims, connVars,
                   foreign>>

\* ... and the socket is published under pl.mu.
RunPublishes(pl) ==
    /\ run[pl] = "bound"
    /\ run' = [run EXCEPT ![pl] = "accepting"]
    /\ published' = [published EXCEPT ![pl] = TRUE]
    /\ listening' = [listening EXCEPT ![pl] = TRUE]
    /\ UNCHANGED <<node, item, sock, stopVars, connVars, foreign>>

\* Mutant of BindFails: no second attempt.
BindFailsForGood(pl) ==
    /\ run[pl] = "binding"
    /\ ~PortFree
    /\ run' = [run EXCEPT ![pl] = "exited"]
    /\ listening' = [listening EXCEPT ![pl] = FALSE]
    /\ UNCHANGED <<node, item, sock, published, stopVars, connVars, foreign>>

\* The port is taken: record it and back off.
BindFails(pl) ==
    /\ run[pl] = "binding"
    /\ ~PortFree
    /\ run' = [run EXCEPT ![pl] = "backoff"]
    /\ listening' = [listening EXCEPT ![pl] = FALSE]
    /\ UNCHANGED <<node, item, sock, published, stopVars, connVars, foreign>>

\* The backoff ends: by the timer, or at once when the context is done.
BackoffEnds(pl) ==
    /\ run[pl] = "backoff"
    /\ run' = [run EXCEPT ![pl] = IF cancelled[pl] THEN "exited" ELSE "top"]
    /\ UNCHANGED <<node, item, sock, published, listening, stopVars, connVars, foreign>>

\* ln.Accept returns a connection.
Accept(pl, c) ==
    /\ run[pl] = "accepting"
    /\ sock[pl] = "open"
    /\ conn[c] = "new"
    /\ conn' = [conn EXCEPT ![c] = "accepted"]
    /\ owner' = [owner EXCEPT ![c] = pl]
    /\ run' = [run EXCEPT ![pl] = "tracking"]
    /\ UNCHANGED <<node, item, sock, published, listening, stopVars, shut, foreign>>

\* pl.track, then its forward goroutine starts.
Track(pl, c) ==
    /\ run[pl] = "tracking"
    /\ conn[c] = "accepted"
    /\ owner[c] = pl
    /\ conn' = [conn EXCEPT ![c] = "tracked"]
    /\ run' = [run EXCEPT ![pl] = "accepting"]
    /\ UNCHANGED <<node, item, sock, published, listening, stopVars, shut, owner, foreign>>

\* ln.Accept fails: the socket was closed, or an error of the kernel.  The
\* deferred Close closes it in any case.
AcceptFails(pl) ==
    /\ run[pl] = "accepting"
    /\ run' = [run EXCEPT ![pl] = "ended"]
    /\ sock' = [sock EXCEPT ![pl] = "closed"]
    /\ UNCHANGED <<node, item, published, listening, stopVars, connVars, foreign>>

\* Mutant of RunEnds: the flag is left set.
RunEndsStillListening(pl) ==
    /\ run[pl] = "ended"
    /\ run' = [run EXCEPT ![pl] = IF cancelled[pl] THEN "exited" ELSE "top"]
    /\ UNCHANGED <<node, item, sock, published, listening, stopVars, connVars, foreign>>

\* Back in run: no longer listening; leave, or start over.
RunEnds(pl) ==
    /\ run[pl] = "ended"
    /\ run' = [run EXCEPT ![pl] = IF cancelled[pl] THEN "exited" ELSE "top"]
    /\ listening' = [listening EXCEPT ![pl] = FALSE]
    /\ UNCHANGED <<node, item, sock, published, stopVars, connVars, foreign>>

-----------------------------------------------------------------------------
\* forward, as far as the listener sees it.

\* registry.Get: without a session the connection is dropped.
ForwardBegins(c) ==
    /\ conn[c] = "tracked"
    /\ conn' = [conn EXCEPT ![c] = IF node = "down" THEN "gone" ELSE "forwarding"]
    /\ UNCHANGED <<node, item, runVars, stopVars, shut, owner, foreign>>

\* The stream could not be opened, was refused, or both directions have ended:
\* forward returns, which untracks and closes.  Nobody is obliged to end one.
ForwardEnds(c) ==
    /\ conn[c] \in {"forwarding", "orphaned"}
    /\ conn' = [conn EXCEPT ![c] = "gone"]
    /\ UNCHANGED <<node, item, runVars, stopVars, shut, owner, foreign>>

\* The data channel dies under the stream.
StreamDies(c) ==
    /\ conn[c] = "forwarding"
    /\ conn' = [conn EXCEPT ![c] = "orphaned"]
    /\ UNCHANGED <<node, item, runVars, stopVars, shut, owner, foreign>>

\* The upstream copy of a connection that stop closed fails.  That ends the
\* forward if its stream is dead; otherwise it stays in st.Read until the client
\* sends or ends.
ForwardCut(c) ==
    /\ conn[c] = "orphaned"
    /\ c \in shut
    /\ conn' = [conn EXCEPT ![c] = "gone"]
    /\ UNCHANGED <<node, item, runVars, stopVars, shut, owner, foreign>>

\* Another process takes or gives up the port.
ForeignProcess ==
    /\ foreign \/ PortFree
    /\ foreign' = ~foreign
    /\ UNCHANGED <<node, item, runVars, stopVars, connVars>>

-----------------------------------------------------------------------------
Init ==
    /\ node = "down"
    /\ item = NoListener
    /\ run = [pl \in Listeners |-> "none"]
    /\ cancelled = [pl \in Listeners |-> FALSE]
    /\ sock = [pl \in Listeners |-> "closed"]
    /\ published = [pl \in Listeners |-> FALSE]
    /\ listening = [pl \in Listeners |-> FALSE]
    /\ stop = [pl \in Listeners |-> "no"]
    /\ graceful = [pl \in Listeners |-> FALSE]
    /\ sawSock = [pl \in Listeners |-> FALSE]
    /\ victims = [pl \in Listeners |-> {}]
    /\ conn = [c \in Conns |-> "new"]
    /\ shut = {}
    /\ owner = [c \in Conns |-> NoListener]
    /\ foreign = FALSE

RunStep(pl) ==
    \/ RunChecks(pl) \/ BindSucceeds(pl) \/ BindFails(pl) \/ BackoffEnds(pl)
    \/ RunPublishes(pl) \/ RunEnds(pl)
    \/ \E c \in Conns : Track(pl, c)

StopStep(pl) == StopCancels(pl) \/ StopReads(pl) \/ StopCloses(pl)

ForwardStep(c) == ForwardBegins(c) \/ ForwardEnds(c) \/ StreamDies(c) \/ ForwardCut(c)

CallerStep == NodeComesUp \/ NodeLeaves \/ NodeIsGone \/ GracefulStop \/ PortIsAdded

Next ==
    \/ CallerStep
    \/ \E pl \in Listeners : RunStep(pl) \/ StopStep(pl) \/ AcceptFails(pl)
    \/ \E pl \in Listeners, c \in Conns : Accept(pl, c)
    \/ \E c \in Conns : ForwardStep(c)
    \/ ForeignProcess

Spec == Init /\ [][Next]_vars

\* Fairness: goroutines run, a closed socket makes Accept fail, a forward ends
\* whose stream is dead and whose connection is closed, a teardown is completed.
\* Connections need not arrive, peers and services need not send or close,
\* channels need not die, the kernel need not fail.
Fairness ==
    /\ WF_vars(NodeIsGone)
    /\ \A pl \in Listeners :
        /\ WF_vars(RunStep(pl))
        /\ WF_vars(StopStep(pl))
        /\ WF_vars(sock[pl] = "closed" /\ AcceptFails(pl))
    /\ \A c \in Conns : WF_vars(ForwardBegins(c) \/ ForwardCut(c))

FairSpec == Spec /\ Fairness

-----------------------------------------------------------------------------
\* Properties.

TypeOK ==
    /\ node \in {"down", "up", "leaving"}
    /\ item \in Listeners \cup {NoListener}
    /\ run \in [Listeners -> {"none", "top", "binding", "bound", "accepting", "tracking",
                              "ended", "backoff", "exited"}]
    /\ cancelled \in [Listeners -> BOOLEAN]
    /\ sock \in [Listeners -> {"open", "closed"}]
    /\ published \in [Listeners -> BOOLEAN]
    /\ listening \in [Listeners -> BOOLEAN]
    /\ stop \in [Listeners -> {"no", "called", "cancelled", "read", "done"}]
    /\ graceful \in [Listeners -> BOOLEAN]
    /\ sawSock \in [Listeners -> BOOLEAN]
    /\ victims \in [Listeners -> SUBSET Conns]
    /\ conn \in [Conns -> {"new", "accepted", "gone"} \cup Tracked]
    /\ shut \subseteq Conns
    /\ owner \in [Conns -> Listeners \cup {NoListener}]
    /\ \A c \in Conns : conn[c] # "new" => owner[c] \in Listeners
    /\ foreign \in BOOLEAN

\* /status never shows listening:true for a port in m.items that cannot be
\* connected to, but for the moment between a failed Accept and the next lock
\* hold, however stop and run interleave (Snapshot, run, stop).
ListeningIsTrue ==
    item # NoListener /\ listening[item] => sock[item] = "open" \/ run[item] = "ended"

\* A stop that has read the open socket leaves none behind, whatever run does next:
\* it has cancelled the context before, so once it has closed that socket the
\* goroutine binds no other one (listener.go:196-200, 276-295).
SeenSocketStaysClosed ==
    \A pl \in Listeners :
        [](stop[pl] = "read" /\ sawSock[pl] /\ sock[pl] = "open" =>
             [](stop[pl] = "done" => sock[pl] = "closed"))

\* A listener that is wanted and whose port nobody else holds gets it, after
\* any number of failed binds ("retried with backoff", listener.go:191-193).
WantedPortIsBound ==
    \A pl \in Listeners :
        LET Clear == /\ item = pl /\ ~foreign
                     /\ \A other \in Listeners \ {pl} : sock[other] = "closed"
        IN  [](Clear => <>(~Clear \/ run[pl] \in {"accepting", "tracking"}))

\* A forward that is under way when its node leaves and that the forced stop read
\* from pl.conns returns: stop closes its connection, which ends the upstream copy
\* but not st.Read, and the teardown then closes the session, which ends st.Read
\* but not the wait at <-upDone.  It takes both, in any order with the death of
\* the channel (listener.go:365-375, server.go:344-346).  A connection that is
\* tracked but not forwarded yet may find the node's next session.
ForcedStopCutsTracked ==
    \A pl \in Listeners : \A c \in Conns :
        [](stop[pl] = "read" /\ c \in victims[pl] /\ conn[c] # "tracked" =>
             <>(conn[c] = "gone"))

\* "non-graceful also tears them down (node went offline)" (listener.go:96-98), the
\* design document's line 313: all of its forwarded connections are closed.  False,
\* and so in no run, of one that was accepted but not tracked when the forced stop
\* read pl.conns, and of one whose listener a graceful stop had already taken out
\* of m.items: its peer may keep it open for ever.
OfflineNodeHasNoConnections ==
    \A c \in Conns :
        [](node = "down" /\ conn[c] = "orphaned" => <>(conn[c] = "gone"))

\* "Control channel gone => port closed and released at once" (design doc line
\* 291; the log line "reverse port released", listener.go:294): a listener that
\* was stopped holds no socket in the end.
StoppedPortIsReleased ==
    \A pl \in Listeners : [](stop[pl] = "done" => <>(sock[pl] = "closed"))
=============================================================================
