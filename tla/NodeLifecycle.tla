--------------------------- MODULE NodeLifecycle ----------------------------
(***************************************************************************)
(* Who is online and which reverse ports exist: the Registry, the          *)
(* listenerManager, the control-channel handlers (serveControl), the one   *)
(* reload goroutine (applyReload), the drainers it leaves behind and the   *)
(* shutdown (src/internal/server/{server,registry,listener}.go).           *)
(*                                                                         *)
(* Every lock hold of Registry.mu, listenerManager.mu and cfgMu is one     *)
(* action; what a goroutine read before it gave the lock back is in its    *)
(* own variables.  A listener is only its entry in m.items here; what one  *)
(* portListener does is module PortListener, what a session does with its  *)
(* streams is NodePool.  Clients are external: a handler may start at any  *)
(* time with any key, and its control channel may end at any time.         *)
(***************************************************************************)
EXTENDS ConfigDiff

CONSTANTS
    Handlers,      \* the control connections, each used once
    Configs,       \* the snapshots a reload may load
    InitConfig,    \* the snapshot the server starts with
    MaxReloads,    \* bound: how many reloads happen
    Reloader,      \* the reload goroutine, as a caller of StartPort
    NoSession, NoNode

ASSUME InitAssumption == InitConfig \in Configs /\ MaxReloads \in Nat
ASSUME ConfigAssumption == \A c \in Configs : IsConfig(c)
ASSUME NamesAssumption ==
    NoSession \notin Handlers /\ NoNode \notin Nodes /\ Reloader \notin Handlers

VARIABLES
    cfg,        \* s.cfg
    live,       \* r.live: the registered session of each node
    items,      \* m.items: the node that owns the listener of each port
    at,         \* progress of each handler through handleWS and serveControl
    spec,       \* the name in the NodeSpec authenticate returned to it
    sent,       \* the node config its welcome carries, then that of the last
                \* reload_config that was written
    lost,       \* a reload_config for its client failed, or came before the welcome
    closed,     \* sess.done
    draining,   \* sess.draining
    job,        \* the StartPort calls a handler or the reloader still has to make
    reload,     \* progress of applyReload
    drainers,   \* the goroutines drainNode started
    shutdown    \* progress of shutdown

handlerVars == <<at, spec, sent, lost>>
sessionVars == <<closed, draining>>
vars == <<cfg, live, items, handlerVars, sessionVars, job, reload, drainers, shutdown>>

Callers == Handlers \cup {Reloader}

\* A session is registered in these phases of its handler.
Registered == {"registered", "starting", "serving", "stopping", "unregistering"}

NodeOf(h) == spec[h]

\* A process that exited takes no more steps.
Up == shutdown.at # "exited"
In(h, phase) == Up /\ at[h] = phase

-----------------------------------------------------------------------------
\* Registry.Register and Unregister, StopNode, StopPort.

Unregister(h) ==
    live' = IF live[NodeOf(h)] = h THEN [live EXCEPT ![NodeOf(h)] = NoSession] ELSE live

StopNode(n) == items' = [p \in Ports |-> IF items[p] = n THEN NoNode ELSE items[p]]
StopPort(p) == items' = [items EXCEPT ![p] = NoNode]

-----------------------------------------------------------------------------
\* StartPort, called by a handler (StartNode) or by the reloader, one port at a
\* time: job[c].todo are the ports left, with the node their PortSpec names.

NoJob == [todo |-> {}, port |-> NoNode, node |-> NoNode, step |-> "idle"]
JobFor(ports, c) ==
    [NoJob EXCEPT !.todo = {<<p, c.ports[p].node>> : p \in ports}]

\* The node must be online: checked outside m.mu.
StartPortChecks(c) ==
    /\ Up
    /\ job[c].step = "idle"
    /\ \E s \in job[c].todo :
        job' = [job EXCEPT ![c] =
                  IF live[s[2]] = NoSession
                  THEN [job[c] EXCEPT !.todo = @ \ {s}]
                  ELSE [todo |-> job[c].todo \ {s}, port |-> s[1], node |-> s[2],
                        step |-> "insert"]]
    /\ UNCHANGED <<cfg, live, items, handlerVars, sessionVars, reload, drainers, shutdown>>

\* Under m.mu: insert, or leave alone what is there for the same node, or go
\* and stop what is there for another one.
StartPortInserts(c) ==
    /\ Up
    /\ job[c].step = "insert"
    /\ IF items[job[c].port] \in {NoNode, job[c].node}
       THEN /\ items' = [items EXCEPT ![job[c].port] = job[c].node]
            /\ job' = [job EXCEPT ![c] = [NoJob EXCEPT !.todo = job[c].todo]]
       ELSE /\ job' = [job EXCEPT ![c].step = "evict"]
            /\ UNCHANGED items
    /\ UNCHANGED <<cfg, live, handlerVars, sessionVars, reload, drainers, shutdown>>

\* The lock was given up: StopPort takes it again by itself ...
StartPortEvicts(c) ==
    /\ Up
    /\ job[c].step = "evict"
    /\ StopPort(job[c].port)
    /\ job' = [job EXCEPT ![c].step = "overwrite"]
    /\ UNCHANGED <<cfg, live, handlerVars, sessionVars, reload, drainers, shutdown>>

\* ... and the insertion after it does not look again.
StartPortOverwrites(c) ==
    /\ Up
    /\ job[c].step = "overwrite"
    /\ items' = [items EXCEPT ![job[c].port] = job[c].node]
    /\ job' = [job EXCEPT ![c] = [NoJob EXCEPT !.todo = job[c].todo]]
    /\ UNCHANGED <<cfg, live, handlerVars, sessionVars, reload, drainers, shutdown>>

StartPort(c) ==
    \/ StartPortChecks(c) \/ StartPortInserts(c)
    \/ StartPortEvicts(c) \/ StartPortOverwrites(c)

Started(c) == job[c] = NoJob

-----------------------------------------------------------------------------
\* A control connection: handleWS, authenticate, serveControl.

\* authenticate against the snapshot of this moment; a wrong key or an unknown
\* node is refused without a trace.
Authenticate(h) ==
    /\ In(h, "idle")
    /\ \E n \in DOMAIN cfg.nodes : spec' = [spec EXCEPT ![h] = n]
    /\ at' = [at EXCEPT ![h] = "authenticated"]
    /\ UNCHANGED <<cfg, live, items, sent, lost, sessionVars, job, reload, drainers, shutdown>>

\* serveControl reads the snapshot again and builds the session from it.
BuildSession(h) ==
    /\ In(h, "authenticated")
    /\ sent' = [sent EXCEPT ![h] = NodeConfig(cfg, NodeOf(h))]
    /\ at' = [at EXCEPT ![h] = IF NodeOf(h) \in DOMAIN cfg.nodes THEN "built" ELSE "gone"]
    /\ UNCHANGED <<cfg, live, items, spec, lost, sessionVars, job, reload, drainers, shutdown>>

\* Mutant of Register: the newcomer takes the place of a live session.
RegisterTakesOver(h) ==
    /\ In(h, "built")
    /\ at' = [at EXCEPT ![h] = "registered"]
    /\ live' = [live EXCEPT ![NodeOf(h)] = h]
    /\ UNCHANGED <<cfg, items, spec, sent, lost, sessionVars, job, reload, drainers, shutdown>>

\* Registry.Register: the newcomer is refused while a session is live.
Register(h) ==
    /\ In(h, "built")
    /\ IF live[NodeOf(h)] # NoSession
       THEN /\ at' = [at EXCEPT ![h] = "gone"]
            /\ UNCHANGED live
       ELSE /\ at' = [at EXCEPT ![h] = "registered"]
            /\ live' = [live EXCEPT ![NodeOf(h)] = h]
    /\ UNCHANGED <<cfg, items, spec, sent, lost, sessionVars, job, reload, drainers, shutdown>>

\* The welcome could not be written: Unregister and Close follow, no StopNode.
WelcomeFails(h) ==
    /\ In(h, "registered")
    /\ at' = [at EXCEPT ![h] = "unregistering"]
    /\ UNCHANGED <<cfg, live, items, spec, sent, lost, sessionVars, job, reload, drainers, shutdown>>

\* The welcome is out, with the config BuildSession read: a reload may have published
\* another one meanwhile and may have closed the session, and the write succeeds all
\* the same.  StartNode reads the ports of the snapshot of this moment.
Welcome(h) ==
    /\ In(h, "registered")
    /\ at' = [at EXCEPT ![h] = "starting"]
    /\ job' = [job EXCEPT ![h] = JobFor(PortsOf(cfg, NodeOf(h)), cfg)]
    /\ UNCHANGED <<cfg, live, items, spec, sent, lost, sessionVars, reload, drainers, shutdown>>

\* StartNode returned: ping and read loops run.
Serve(h) ==
    /\ In(h, "starting")
    /\ Started(h)
    /\ at' = [at EXCEPT ![h] = "serving"]
    /\ UNCHANGED <<cfg, live, items, spec, sent, lost, sessionVars, job, reload, drainers, shutdown>>

\* pingLoop closes the session: no sign of life for three heartbeats, or the
\* ping could not be written.
PingFails(h) ==
    /\ In(h, "serving")
    /\ ~closed[h]
    /\ closed' = [closed EXCEPT ![h] = TRUE]
    /\ UNCHANGED <<cfg, live, items, handlerVars, draining, job, reload, drainers, shutdown>>

\* controlReadLoop returns: the client left, said bye, fell silent ...
ControlEnds(h) ==
    /\ In(h, "serving")
    /\ at' = [at EXCEPT ![h] = "stopping"]
    /\ UNCHANGED <<cfg, live, items, spec, sent, lost, sessionVars, job, reload, drainers, shutdown>>

\* A client that lost a message is gone: it left at a first message that was no
\* welcome, or the connection broke, and the read fails or times out.
SeeLost(h) == lost[h] /\ ControlEnds(h)

\* Mutant of SeeClosed: only a drained session has a Done watcher.
SeeClosedIfDrained(h) == closed[h] /\ draining[h] /\ ControlEnds(h)

\* ... or the session was closed under it and the Done watcher cancelled it.
SeeClosed(h) == closed[h] /\ ControlEnds(h)

\* Mutant of TeardownPorts: the listeners are left behind.
TeardownPortsForgotten(h) ==
    /\ In(h, "stopping")
    /\ at' = [at EXCEPT ![h] = "unregistering"]
    /\ UNCHANGED <<cfg, live, items, spec, sent, lost, sessionVars, job, reload, drainers, shutdown>>

\* The teardown, in this order: the node's ports, the registration, the session.
TeardownPorts(h) ==
    /\ In(h, "stopping")
    /\ StopNode(NodeOf(h))
    /\ at' = [at EXCEPT ![h] = "unregistering"]
    /\ UNCHANGED <<cfg, live, spec, sent, lost, sessionVars, job, reload, drainers, shutdown>>

TeardownRegistration(h) ==
    /\ In(h, "unregistering")
    /\ Unregister(h)
    /\ at' = [at EXCEPT ![h] = "closing"]
    /\ UNCHANGED <<cfg, items, spec, sent, lost, sessionVars, job, reload, drainers, shutdown>>

\* Mutant of TeardownSession: the node's ports are stopped here, too late.
TeardownSessionStopsPorts(h) ==
    /\ In(h, "closing")
    /\ closed' = [closed EXCEPT ![h] = TRUE]
    /\ at' = [at EXCEPT ![h] = "gone"]
    /\ StopNode(NodeOf(h))
    /\ UNCHANGED <<cfg, live, spec, sent, lost, draining, job, reload, drainers, shutdown>>

TeardownSession(h) ==
    /\ In(h, "closing")
    /\ closed' = [closed EXCEPT ![h] = TRUE]
    /\ at' = [at EXCEPT ![h] = "gone"]
    /\ UNCHANGED <<cfg, live, items, spec, sent, lost, draining, job, reload, drainers, shutdown>>

-----------------------------------------------------------------------------
NoReload == [at |-> "idle", old |-> InitConfig, next |-> InitConfig, work |-> {}, node |-> NoNode,
             sess |-> NoSession, count |-> 0]

\* applyReload, one goroutine.  reload.next is newCfg, reload.old the snapshot
\* it is compared with, reload.work what the current loop has left.

Busy(phase) == reload.at = phase /\ reload.sess = NoSession

\* A new snapshot was loaded (one that differs: otherwise nothing happens).
ReloadBegins ==
    /\ Up
    /\ reload.at = "idle"
    /\ reload.count < MaxReloads
    /\ \E next \in Configs \ {cfg} :
        reload' = [at |-> "removeNodes", old |-> cfg, next |-> next,
                   work |-> RemovedNodes(cfg, next), node |-> NoNode,
                   sess |-> NoSession, count |-> reload.count + 1]
    /\ UNCHANGED <<cfg, live, items, handlerVars, sessionVars, job, drainers, shutdown>>

\* drainNode up to the drain message: Get, SetDraining.
DrainMarks ==
    /\ Busy("removeNodes")
    /\ \E n \in reload.work :
        /\ reload' = [reload EXCEPT !.work = @ \ {n}, !.node = n, !.sess = live[n]]
        /\ draining' = [h \in Handlers |-> draining[h] \/ h = live[n]]
    /\ UNCHANGED <<cfg, live, items, handlerVars, closed, job, drainers, shutdown>>

\* drainNode after it: stop accepting on the node's ports, start the drainer.
DrainStops ==
    /\ reload.at = "removeNodes"
    /\ reload.sess # NoSession
    /\ StopNode(reload.node)
    /\ drainers' = drainers \cup
         {[node |-> reload.node, sess |-> reload.sess, reload |-> reload.count,
           step |-> "waiting"]}
    /\ reload' = [reload EXCEPT !.sess = NoSession]
    /\ UNCHANGED <<cfg, live, handlerVars, sessionVars, job, shutdown>>

RemoveNodesDone ==
    /\ Busy("removeNodes")
    /\ reload.work = {}
    /\ reload' = [reload EXCEPT !.at = "changeKeys",
                                !.work = KeyChangedNodes(reload.old, reload.next)]
    /\ UNCHANGED <<cfg, live, items, handlerVars, sessionVars, job, drainers, shutdown>>

\* A changed key: Get ...
KeyLookup ==
    /\ Busy("changeKeys")
    /\ \E n \in reload.work :
        reload' = [reload EXCEPT !.work = @ \ {n}, !.node = n, !.sess = live[n]]
    /\ UNCHANGED <<cfg, live, items, handlerVars, sessionVars, job, drainers, shutdown>>

\* ... StopNode, by name ...
KeyStopsPorts ==
    /\ reload.at = "changeKeys"
    /\ reload.sess # NoSession
    /\ StopNode(reload.node)
    /\ reload' = [reload EXCEPT !.at = "disconnect"]
    /\ UNCHANGED <<cfg, live, handlerVars, sessionVars, job, drainers, shutdown>>

\* Mutant of KeyCloses: the session is left to find out by itself.
KeyForgetsSession ==
    /\ reload.at = "disconnect"
    /\ reload' = [reload EXCEPT !.at = "changeKeys", !.sess = NoSession]
    /\ UNCHANGED <<cfg, live, items, handlerVars, sessionVars, job, drainers, shutdown>>

\* ... and Close of the session that was looked up, whoever is registered by now.
KeyCloses ==
    /\ reload.at = "disconnect"
    /\ closed' = [closed EXCEPT ![reload.sess] = TRUE]
    /\ reload' = [reload EXCEPT !.at = "changeKeys", !.sess = NoSession]
    /\ UNCHANGED <<cfg, live, items, handlerVars, draining, job, drainers, shutdown>>

ChangeKeysDone ==
    /\ Busy("changeKeys")
    /\ reload.work = {}
    /\ reload' = [reload EXCEPT !.at = "removePorts",
                                !.work = RemovedPorts(reload.old, reload.next)]
    /\ UNCHANGED <<cfg, live, items, handlerVars, sessionVars, job, drainers, shutdown>>

RemovePort ==
    /\ Busy("removePorts")
    /\ \E p \in reload.work :
        /\ StopPort(p)
        /\ reload' = [reload EXCEPT !.work = @ \ {p}]
    /\ UNCHANGED <<cfg, live, handlerVars, sessionVars, job, drainers, shutdown>>

\* setConfig publishes the snapshot; the added ports are started from it.
Publish ==
    /\ Busy("removePorts")
    /\ reload.work = {}
    /\ cfg' = reload.next
    /\ job' = [job EXCEPT ![Reloader] =
                 JobFor(AddedPorts(reload.old, reload.next), reload.next)]
    /\ reload' = [reload EXCEPT !.at = "addPorts"]
    /\ UNCHANGED <<live, items, handlerVars, sessionVars, drainers, shutdown>>

AddPortsDone ==
    /\ Busy("addPorts")
    /\ Started(Reloader)
    /\ reload' = [reload EXCEPT !.at = "push",
                                !.work = ChangedNodes(reload.old, reload.next)]
    /\ UNCHANGED <<cfg, live, items, handlerVars, sessionVars, job, drainers, shutdown>>

\* pushConfig: Get and SendControl of a reload_config, none for a node that
\* registry.List() named and the reload removes.  The write may fail, which is only
\* logged; and one that goes out before the welcome is no reply to the client's hello:
\* the client does not take it and leaves.
PushConfig ==
    /\ reload.at \in {"push", "pushAll"}
    /\ \E n \in reload.work :
        /\ reload' = [reload EXCEPT !.work = @ \ {n}]
        /\ \/ /\ live[n] = NoSession \/ n \notin DOMAIN reload.next.nodes
              /\ UNCHANGED <<sent, lost>>
           \/ /\ live[n] # NoSession /\ n \in DOMAIN reload.next.nodes
              /\ ~lost[live[n]] /\ at[live[n]] # "registered"
              /\ sent' = [sent EXCEPT ![live[n]] = NodeConfig(reload.next, n)]
              /\ UNCHANGED lost
           \/ /\ live[n] # NoSession /\ n \in DOMAIN reload.next.nodes
              /\ lost' = [lost EXCEPT ![live[n]] = TRUE]
              /\ UNCHANGED sent
    /\ UNCHANGED <<cfg, live, items, at, spec, sessionVars, job, drainers, shutdown>>

\* A settings change is pushed to every session registered at this moment that
\* was not pushed to before.
PushDone ==
    /\ reload.at = "push"
    /\ reload.work = {}
    /\ reload' = [reload EXCEPT
         !.at = "pushAll",
         !.work = IF SettingsChanged(reload.old, reload.next)
                  THEN {n \in Nodes : live[n] # NoSession}
                         \ ChangedNodes(reload.old, reload.next)
                  ELSE {}]
    /\ UNCHANGED <<cfg, live, items, handlerVars, sessionVars, job, drainers, shutdown>>

ReloadEnds ==
    /\ reload.at = "pushAll"
    /\ reload.work = {}
    /\ reload' = [NoReload EXCEPT !.count = reload.count]
    /\ UNCHANGED <<cfg, live, items, handlerVars, sessionVars, job, drainers, shutdown>>

-----------------------------------------------------------------------------
\* The goroutine drainNode leaves behind.

\* waitDrained returned: no stream is active, or the deadline passed, or the
\* session is done already.  The bye is sent.
DrainerWaited(d) ==
    /\ d.step = "waiting"
    /\ drainers' = (drainers \ {d}) \cup {[d EXCEPT !.step = "stopping"]}
    /\ UNCHANGED <<cfg, live, items, handlerVars, sessionVars, job, reload, shutdown>>

\* StopNode(name, false): by name, whoever owns the node by now.
DrainerStopsNode(d) ==
    /\ d.step = "stopping"
    /\ StopNode(d.node)
    /\ drainers' = (drainers \ {d}) \cup {[d EXCEPT !.step = "closing"]}
    /\ UNCHANGED <<cfg, live, handlerVars, sessionVars, job, reload, shutdown>>

\* Mutant of DrainerCloses: it closes whoever is registered by now.
DrainerClosesByName(d) ==
    /\ d.step = "closing"
    /\ closed' = [h \in Handlers |-> closed[h] \/ h = live[d.node]]
    /\ drainers' = drainers \ {d}
    /\ UNCHANGED <<cfg, live, items, handlerVars, draining, job, reload, shutdown>>

DrainerCloses(d) ==
    /\ d.step = "closing"
    /\ closed' = [closed EXCEPT ![d.sess] = TRUE]
    /\ drainers' = drainers \ {d}
    /\ UNCHANGED <<cfg, live, items, handlerVars, draining, job, reload, shutdown>>

-----------------------------------------------------------------------------
\* shutdown.

\* Step 1: StopAll(true).
ShutdownBegins ==
    /\ shutdown.at = "no"
    /\ shutdown' = [shutdown EXCEPT !.at = "stopped"]
    /\ items' = [p \in Ports |-> NoNode]
    /\ UNCHANGED <<cfg, live, handlerVars, sessionVars, job, reload, drainers>>

\* Step 2: registry.List(), then drain every session it named.
ShutdownDrains ==
    /\ shutdown.at = "stopped"
    /\ LET named == {live[n] : n \in Nodes} \ {NoSession}
       IN  /\ shutdown' = [at |-> "draining", sessions |-> named]
           /\ draining' = [h \in Handlers |-> draining[h] \/ h \in named]
    /\ UNCHANGED <<cfg, live, items, handlerVars, closed, job, reload, drainers>>

\* Steps 3 and 4: wait for their streams (or the deadline), say bye, close.
ShutdownCloses ==
    /\ shutdown.at = "draining"
    /\ shutdown' = [shutdown EXCEPT !.at = "closed"]
    /\ closed' = [h \in Handlers |-> closed[h] \/ h \in shutdown.sessions]
    /\ UNCHANGED <<cfg, live, items, handlerVars, draining, job, reload, drainers>>

\* Mutant of ShutdownExits: it does not wait for the goroutines of the server.
ShutdownExitsAtOnce ==
    /\ shutdown.at = "closed"
    /\ shutdown' = [shutdown EXCEPT !.at = "exited"]
    /\ items' = [p \in Ports |-> NoNode]
    /\ UNCHANGED <<cfg, live, handlerVars, sessionVars, job, reload, drainers>>

\* StopAll(false), the endpoints, baseCancel; wg.Wait lets the reload goroutine
\* and the drainers finish.  Run returns and the process exits.
ShutdownExits ==
    /\ shutdown.at = "closed"
    /\ reload.at = "idle" /\ drainers = {}
    /\ shutdown' = [shutdown EXCEPT !.at = "exited"]
    /\ items' = [p \in Ports |-> NoNode]
    /\ UNCHANGED <<cfg, live, handlerVars, sessionVars, job, reload, drainers>>

-----------------------------------------------------------------------------
Init ==
    /\ cfg = InitConfig
    /\ live = [n \in Nodes |-> NoSession]
    /\ items = [p \in Ports |-> NoNode]
    /\ at = [h \in Handlers |-> "idle"]
    /\ spec = [h \in Handlers |-> NoNode]
    /\ sent = [h \in Handlers |-> NoConfig]
    /\ lost = [h \in Handlers |-> FALSE]
    /\ closed = [h \in Handlers |-> FALSE]
    /\ draining = [h \in Handlers |-> FALSE]
    /\ job = [c \in Callers |-> NoJob]
    /\ reload = NoReload
    /\ drainers = {}
    /\ shutdown = [at |-> "no", sessions |-> {}]

HandlerStep(h) ==
    \/ Authenticate(h) \/ BuildSession(h) \/ Register(h)
    \/ WelcomeFails(h) \/ Welcome(h) \/ StartPort(h) \/ Serve(h)
    \/ PingFails(h) \/ ControlEnds(h)
    \/ TeardownPorts(h) \/ TeardownRegistration(h) \/ TeardownSession(h)

ReloadStep ==
    \/ DrainMarks \/ DrainStops \/ RemoveNodesDone
    \/ KeyLookup \/ KeyStopsPorts \/ KeyCloses \/ ChangeKeysDone
    \/ RemovePort \/ Publish \/ StartPort(Reloader) \/ AddPortsDone
    \/ PushConfig \/ PushDone \/ ReloadEnds

DrainerStep(d) == DrainerWaited(d) \/ DrainerStopsNode(d) \/ DrainerCloses(d)

ShutdownStep == ShutdownBegins \/ ShutdownDrains \/ ShutdownCloses \/ ShutdownExits

Next ==
    \/ \E h \in Handlers : HandlerStep(h)
    \/ ReloadBegins
    \/ ReloadStep
    \/ \E d \in drainers : DrainerStep(d)
    \/ ShutdownStep

Spec == Init /\ [][Next]_vars

\* Fairness: a handler that was let in runs to its end once its session is
\* closed or its client gone, but need not end before; reload, drainers and a started shutdown
\* make progress.  No client is obliged to connect or to leave.
Fairness ==
    /\ \A h \in Handlers :
        WF_vars(\/ BuildSession(h) \/ Register(h) \/ Welcome(h) \/ WelcomeFails(h)
                \/ StartPort(h) \/ Serve(h) \/ SeeClosed(h) \/ SeeLost(h)
                \/ TeardownPorts(h) \/ TeardownRegistration(h) \/ TeardownSession(h))
    /\ WF_vars(ReloadStep)
    /\ WF_vars(\E d \in drainers : DrainerStep(d))
    /\ WF_vars(ShutdownDrains \/ ShutdownCloses \/ ShutdownExits)

FairSpec == Spec /\ Fairness

-----------------------------------------------------------------------------
\* Properties.

Phases == {"idle", "authenticated", "built", "closing", "gone"} \cup Registered

TypeOK ==
    /\ cfg \in Configs
    /\ live \in [Nodes -> Handlers \cup {NoSession}]
    /\ items \in [Ports -> Nodes \cup {NoNode}]
    /\ at \in [Handlers -> Phases]
    /\ \A h \in Handlers : at[h] # "idle" => NodeOf(h) \in Nodes
    /\ lost \in [Handlers -> BOOLEAN]
    /\ closed \in [Handlers -> BOOLEAN]
    /\ draining \in [Handlers -> BOOLEAN]
    /\ \A c \in Callers : job[c].todo \subseteq Ports \X Nodes
    /\ reload.count \in 0..MaxReloads
    /\ \A d \in drainers : d.node \in Nodes /\ d.sess \in Handlers

\* The handlers between Register and Unregister are exactly the registered
\* sessions: a node has one at most, the teardown of one never unregisters
\* another, and a handler that stops a node's listeners is still the one the
\* node is registered to (Registry.Register, Unregister, serveControl:340-346).
RegistrationMatchesHandlers ==
    \A h \in Handlers : at[h] \in Registered <=> \E n \in Nodes : live[n] = h

\* A reload does not touch the connections it does not concern (design doc line
\* 333): a session is closed by its own handler, or because it is draining, or
\* because its node's key changes; a session is made to drain because its node
\* is removed or the server shuts down.  Drainers of an earlier reload and
\* sessions that replaced one another meanwhile included.
UnaffectedSessionStaysOpen ==
    [][\A h \in Handlers :
        /\ ~closed[h] /\ closed'[h] =>
             \/ PingFails(h) \/ TeardownSession(h)
             \/ draining[h]
             \/ /\ reload.at = "disconnect"
                /\ NodeOf(h) \in KeyChangedNodes(reload.old, reload.next)
        /\ ~draining[h] /\ draining'[h] =>
             \/ shutdown.at = "stopped"
             \/ /\ reload.at = "removeNodes"
                /\ NodeOf(h) \in RemovedNodes(reload.old, reload.next)]_vars

\* No session survives its handler, and a session that is closed makes room for
\* the client's next control channel: nobody is refused with node_busy for good
\* (serveControl's teardown, the Done watcher, design doc section 4).
ClosedSessionMakesRoom ==
    \A h \in Handlers :
        [](closed[h] => <>(at[h] = "gone" \/ ~Up))

\* Whoever was told to drain and is still open has somebody who will close it:
\* the reload between the two halves of drainNode, a drainer, or the shutdown
\* that drained it, although reload and shutdown may drain the same session and
\* a reload may overlap with the drainers of earlier ones; and the process does
\* not exit before (drainNode's s.wg, shutdown steps 2 to 4).
DrainHasCloser ==
    \A h \in Handlers : draining[h] /\ ~closed[h] =>
        /\ Up
        /\ \/ reload.at = "removeNodes" /\ reload.sess = h
           \/ \E d \in drainers : d.sess = h
           \/ shutdown.at = "draining" /\ h \in shutdown.sessions

\* "A listener exists only while its node has a live control channel"
\* (listener.go:28-29), at every moment before the first reload: StopNode comes
\* before Unregister and StartNode after Register, for every session of a node.
\* What a reload does to it is said by OfflineNodeReleasesPorts.
ListenerOnlyWhileOnline ==
    reload.count = 0 =>
        \A p \in Ports : items[p] # NoNode => live[items[p]] # NoSession

\* And the other way round (design doc line 291): while the server neither reloads
\* nor shuts down, a node whose handler is behind StartNode has each of its
\* listeners, whatever the teardown of its former sessions did before.
ServedPortsListen ==
    reload.count = 0 /\ shutdown.at = "no" =>
        \A h \in Handlers : at[h] = "serving" =>
            \A p \in PortsOf(cfg, NodeOf(h)) : items[p] = NodeOf(h)

ListenersMatchSessions == ListenerOnlyWhileOnline /\ ServedPortsListen

\* The first with reloads, up to the steps of a teardown or a reload under way:
\* a port of a node that stays offline is released in the end.
OfflineNodeReleasesPorts ==
    \A p \in Ports : \A n \in Nodes :
        [](items[p] = n /\ live[n] = NoSession =>
             <>(items[p] # n \/ live[n] # NoSession \/ ~Up))

\* "Control channel up, port up" (design doc line 291): while no reload happens
\* and a node's session is registered and stays so, each of its ports has a listener
\* in the end, whatever the teardown of the node's former sessions still does.
OnlineNodeHasItsPorts ==
    \A p \in Ports : \A h \in Handlers :
        LET Due == /\ at[h] \in {"registered", "starting", "serving"} /\ ~closed[h]
                   /\ p \in PortsOf(cfg, NodeOf(h))
                   /\ reload.count = 0 /\ shutdown.at = "no"
        IN  [](Due => <>(~Due \/ items[p] = NodeOf(h)))

\* A session that is registered, is not ending and was not told to.
Served(h) == at[h] \in {"registered", "starting", "serving"} /\ ~closed[h] /\ ~draining[h]

\* A reload begins that removes the node of a served session or changes its key.
Outdated(h) ==
    /\ reload.at = "removeNodes" /\ reload.sess = NoSession
    /\ reload.work = RemovedNodes(reload.old, reload.next)
    /\ Served(h)
    /\ NodeOf(h) \in RemovedNodes(reload.old, reload.next)
                       \cup KeyChangedNodes(reload.old, reload.next)

\* A removed node is disconnected and so is one whose key changed (design doc
\* lines 347-348): every session that is served when the reload begins is closed
\* in the end, and so is every session that was told to drain, by a drainer or by
\* the shutdown.  (A handler that authenticated before and registers later
\* escapes.)
OutdatedSessionIsClosed ==
    \A h \in Handlers :
        [](Outdated(h) \/ draining[h] => <>(closed[h] \/ ~Up))

\* What was written to the client of h is what the snapshot says of its node: the
\* client has it, or gets it unless its connection ends before.
InStep(h) ==
    /\ NodeOf(h) \in DOMAIN cfg.nodes
    /\ sent[h] = NodeConfig(cfg, NodeOf(h))

\* "heartbeat/max_streams_per_conn are global; everyone gets them"
\* (server.go:576), and so does a node whose ports or channels changed: a session
\* that is served and in step before the new snapshot is published is brought in step
\* with it or ends.  In particular it ends if pushConfig could not write, which
\* nobody repeats (server.go:662-665), or wrote before the welcome.  (One that
\* registers later, or with what an earlier snapshot said, may stay as it is.)
ServedNodeGetsConfig ==
    \A h \in Handlers :
        LET Waits == /\ reload.at = "removePorts" /\ Served(h) /\ InStep(h)
                     /\ NodeOf(h) \in DOMAIN reload.next.nodes
        IN  [](Waits =>
             <>(\/ ~Served(h) \/ ~Up
                \/ reload.at = "idle" /\ InStep(h)))

\* A served session whose client takes what is sent to it.
Reached(h) == Served(h) /\ ~lost[h]

\* No reload leaves a session behind that it reaches: one that is in step at a moment
\* without a reload is in step at every later one for as long as it is served and no
\* message to it is lost, whatever was removed, rekeyed, moved or resettled meanwhile,
\* whether it was pushed to or not (applyReload pushes to the nodes that changed and
\* to nobody else when the settings are the same, server.go:571-581).
SessionStaysCurrent ==
    \A h \in Handlers :
        [](reload.at = "idle" /\ Reached(h) /\ InStep(h) =>
             [](reload.at = "idle" /\ Reached(h) => InStep(h)))

\* And none is spared: when a reload has ended, every session that was served when it
\* began and whose node was removed or got another key has been closed or told to
\* drain (server.go:542-551).
ReloadSparesNoOutdated ==
    \A h \in Handlers :
        [](Outdated(h) => [](reload.at = "idle" => ~Served(h)))
=============================================================================
