------------------------ MODULE NodeLifecycleProofs -------------------------
(***************************************************************************)
(* Proofs about NodeLifecycle: registrations match handlers, listeners     *)
(* match sessions, a reload closes only what it concerns, spares nobody    *)
(* and leaves nobody behind, and whoever drains will be closed, for any    *)
(* nodes, ports, handlers, snapshots and reloads.                          *)
(***************************************************************************)
EXTENDS NodeLifecycle, TLAPS

-----------------------------------------------------------------------------
\* The inductive invariant.

ReloadPhases ==
    {"idle", "removeNodes", "changeKeys", "disconnect", "removePorts", "addPorts", "push",
     "pushAll"}

Jobs == [todo : SUBSET (Ports \X Nodes), port : Ports \cup {NoNode},
         node : Nodes \cup {NoNode}, step : {"idle", "insert", "evict", "overwrite"}]

Reloads ==
    [at : ReloadPhases, old : Configs, next : Configs, work : SUBSET (Nodes \cup Ports),
     node : Nodes \cup {NoNode}, sess : Handlers \cup {NoSession}, count : 0..MaxReloads]

Drainers ==
    [node : Nodes, sess : Handlers, reload : 0..MaxReloads,
     step : {"waiting", "stopping", "closing"}]

Shutdowns ==
    [at : {"no", "stopped", "draining", "closed", "exited"}, sessions : SUBSET Handlers]

\* What TypeOK leaves out.
Shapes ==
    /\ spec \in [Handlers -> Nodes \cup {NoNode}]
    /\ job \in [Callers -> Jobs]
    /\ reload \in Reloads
    /\ drainers \in SUBSET Drainers
    /\ shutdown \in Shutdowns

\* A StartPort call that is under way knows its port and its node.
JobsKnowTheirPort ==
    \A c \in Callers : job[c].step # "idle" => job[c].port \in Ports /\ job[c].node \in Nodes

\* What the loops of applyReload have left is part of what they are about.
WorkIsDue ==
    /\ reload.at = "removeNodes" => reload.work \subseteq RemovedNodes(reload.old, reload.next)
    /\ reload.at \in {"changeKeys", "disconnect"} =>
          reload.work \subseteq KeyChangedNodes(reload.old, reload.next)
    /\ reload.at = "removePorts" => reload.work \subseteq Ports
    /\ reload.at \in {"push", "pushAll"} => reload.work \subseteq Nodes
    /\ reload.sess # NoSession => reload.at \in {"removeNodes", "changeKeys", "disconnect"}

\* The session a reload is about to disconnect or to drain is one of the node it
\* is about.
SessionIsConcerned ==
    reload.sess # NoSession =>
        /\ reload.node \in Nodes
        /\ at[reload.sess] # "idle"
        /\ NodeOf(reload.sess) = reload.node
        /\ reload.at = "removeNodes" => draining[reload.sess]
        /\ reload.at \in {"changeKeys", "disconnect"} =>
              reload.node \in KeyChangedNodes(reload.old, reload.next)

\* Whom a drainer or the shutdown is going to close, it has drained.
ClosersDrained ==
    /\ \A d \in drainers : draining[d.sess]
    /\ shutdown.at = "draining" => \A h \in shutdown.sessions : draining[h]

\* Sessions and handlers, in both directions.
Registration ==
    /\ \A h \in Handlers : at[h] \in Registered => live[NodeOf(h)] = h
    /\ \A n \in Nodes : live[n] # NoSession =>
           at[live[n]] \in Registered /\ NodeOf(live[n]) = n

\* Only a handler that is starting its ports has StartPort calls to make, and
\* they are for its own node.
OwnPortsOnly ==
    \A h \in Handlers :
        /\ at[h] # "starting" => job[h].todo = {} /\ job[h].step = "idle"
        /\ \A s \in job[h].todo : s[2] = NodeOf(h)
        /\ job[h].step # "idle" => job[h].node = NodeOf(h)

\* Before the first reload the reloader and its drainers do nothing.
NoReloadYet ==
    reload.count = 0 =>
        /\ reload.at = "idle" /\ drainers = {}
        /\ job[Reloader].todo = {} /\ job[Reloader].step = "idle"

\* Before the first reload a listener belongs to a node whose handler has
\* started its ports and has not stopped them.
ListenersAreServed ==
    reload.count = 0 =>
        \A p \in Ports : items[p] # NoNode =>
            /\ live[items[p]] # NoSession
            /\ at[live[items[p]]] \in {"starting", "serving", "stopping"}

LInv ==
    /\ TypeOK
    /\ Shapes
    /\ JobsKnowTheirPort
    /\ WorkIsDue
    /\ SessionIsConcerned
    /\ ClosersDrained
    /\ Registration
    /\ OwnPortsOnly
    /\ NoReloadYet
    /\ ListenersAreServed

-----------------------------------------------------------------------------
\* Snapshots and the work they give.

\* What Load guarantees of a snapshot, in the form the proofs use it.
LEMMA ConfigTypes ==
    ASSUME NEW c \in Configs
    PROVE  /\ DOMAIN c.nodes \subseteq Nodes
           /\ DOMAIN c.ports \subseteq Ports
           /\ \A p \in DOMAIN c.ports : c.ports[p].node \in Nodes
<1>1. IsConfig(c)
  BY ConfigAssumption
<1> QED
  BY <1>1 DEF IsConfig

\* Every list of a Diff is about configured nodes and ports.
LEMMA DiffTypes ==
    ASSUME NEW old \in Configs, NEW cur \in Configs
    PROVE  /\ RemovedNodes(old, cur) \subseteq Nodes
           /\ KeyChangedNodes(old, cur) \subseteq Nodes
           /\ ChangedNodes(old, cur) \subseteq Nodes
           /\ RemovedPorts(old, cur) \subseteq Ports
           /\ AddedPorts(old, cur) \subseteq DOMAIN cur.ports
<1>1. DOMAIN old.nodes \subseteq Nodes /\ DOMAIN old.ports \subseteq Ports
  BY ConfigTypes
<1>2. Survivors(old, cur) \subseteq Nodes
  BY <1>1 DEF Survivors
<1>3. /\ RemovedNodes(old, cur) \subseteq Nodes
      /\ RemovedPorts(old, cur) \subseteq Ports
  BY <1>1 DEF RemovedNodes, RemovedPorts
<1>4. AddedPorts(old, cur) \subseteq DOMAIN cur.ports
  BY DEF AddedPorts
<1> QED
  BY <1>2, <1>3, <1>4 DEF KeyChangedNodes, ChangedNodes

\* The calls that StartNode or a reload has to make are for ports of the snapshot
\* and the nodes they belong to.
LEMMA JobForTypes ==
    ASSUME NEW c \in Configs, NEW ports \in SUBSET DOMAIN c.ports
    PROVE  /\ JobFor(ports, c) \in Jobs
           /\ JobFor(ports, c).step = "idle"
           /\ \A s \in JobFor(ports, c).todo : s[1] \in ports /\ s[2] = c.ports[s[1]].node
<1> DEFINE todo == {<<p, c.ports[p].node>> : p \in ports}
<1>1. todo \subseteq Ports \X Nodes
  BY ConfigTypes
<1>2. JobFor(ports, c) = [todo |-> todo, port |-> NoNode, node |-> NoNode, step |-> "idle"]
  BY DEF JobFor, NoJob
<1>3. \A s \in todo : s[1] \in ports /\ s[2] = c.ports[s[1]].node
  OBVIOUS
<1> HIDE DEF todo
<1> QED
  BY <1>1, <1>2, <1>3 DEF Jobs

\* The ports of a node are ports of the snapshot that name it.
LEMMA PortsOfTypes ==
    ASSUME NEW c \in Configs, NEW n
    PROVE  PortsOf(c, n) \in SUBSET DOMAIN c.ports
           /\ \A p \in PortsOf(c, n) : c.ports[p].node = n
BY DEF PortsOf

\* StopNode removes the named node's listeners and touches no other.
LEMMA StopKeepsTypes ==
    ASSUME items \in [Ports -> Nodes \cup {NoNode}],
           NEW n, StopNode(n)
    PROVE  /\ items' \in [Ports -> Nodes \cup {NoNode}]
           /\ \A p \in Ports : items'[p] # NoNode => items'[p] = items[p] /\ items[p] # n
BY DEF StopNode

-----------------------------------------------------------------------------
\* The invariant is preserved: StartPort.

\* StartPort, whoever calls it: no more than the listener of one port changes, and
\* that one becomes free or its caller's.
LEMMA StartPortInv ==
    ASSUME LInv, NEW c \in Callers, StartPort(c)
    PROVE  LInv'
<1> DEFINE j == job[c]
           Advances(k) ==
             /\ job' = [job EXCEPT ![c] = k]
             /\ k.todo \subseteq j.todo
             /\ k.step # "idle" =>
                   /\ k.port \in Ports /\ k.node \in Nodes
                   /\ \/ j.step # "idle" /\ k.node = j.node
                      \/ \E s \in j.todo : k.node = s[2]
<1>1. /\ UNCHANGED <<cfg, live, handlerVars, sessionVars, reload, drainers, shutdown>>
      /\ job \in [Callers -> Jobs]
      /\ items \in [Ports -> Nodes \cup {NoNode}]
  BY DEF LInv, TypeOK, Shapes, StartPort, StartPortChecks, StartPortInserts,
         StartPortEvicts, StartPortOverwrites
<1>2. j \in Jobs
  BY <1>1
<1>3. \E k \in Jobs : Advances(k)
  <2>1. CASE StartPortChecks(c)
    <3>1. PICK s \in j.todo :
            job' = [job EXCEPT ![c] =
                      IF live[s[2]] = NoSession
                      THEN [j EXCEPT !.todo = @ \ {s}]
                      ELSE [todo |-> j.todo \ {s}, port |-> s[1], node |-> s[2],
                            step |-> "insert"]]
      BY <2>1 DEF StartPortChecks
    <3>2. s[1] \in Ports /\ s[2] \in Nodes /\ j.step = "idle"
      BY <1>2, <2>1 DEF Jobs, StartPortChecks
    <3> DEFINE k1 == [j EXCEPT !.todo = @ \ {s}]
               k2 == [todo |-> j.todo \ {s}, port |-> s[1], node |-> s[2], step |-> "insert"]
    <3>3. k1 \in Jobs /\ k1.todo \subseteq j.todo /\ k1.step = "idle"
      BY <1>2, <3>2 DEF Jobs
    <3>4. /\ k2 \in Jobs /\ k2.todo \subseteq j.todo
          /\ k2.port \in Ports /\ k2.node \in Nodes /\ k2.node = s[2]
      BY <1>2, <3>2 DEF Jobs
    <3>5. job' = [job EXCEPT ![c] = k1] \/ job' = [job EXCEPT ![c] = k2]
      BY <3>1
    <3> HIDE DEF k1, k2, j
    <3> QED
      BY <3>3, <3>4, <3>5
  <2> DEFINE done == [NoJob EXCEPT !.todo = j.todo]
  <2>a. done \in Jobs /\ done.todo = j.todo /\ done.step = "idle"
    BY <1>2 DEF Jobs, NoJob
  <2>2. ASSUME NEW step \in {"evict", "overwrite"}, j.step # "idle",
               job' = [job EXCEPT ![c].step = step]
        PROVE  \E k \in Jobs : Advances(k)
    <3> DEFINE k == [j EXCEPT !.step = step]
    <3>1. /\ k \in Jobs /\ k.todo = j.todo /\ k.port = j.port /\ k.node = j.node
          /\ job' = [job EXCEPT ![c] = k]
      BY <1>2, <2>2 DEF Jobs
    <3>2. j.port \in Ports /\ j.node \in Nodes
      BY <2>2 DEF LInv, JobsKnowTheirPort
    <3> HIDE DEF k, j
    <3> QED
      BY <2>2, <3>1, <3>2
  <2>3. CASE StartPortInserts(c)
    <3>1. CASE job' = [job EXCEPT ![c] = done]
      <4> HIDE DEF done, j
      <4> QED
        BY <3>1, <2>a
    <3>2. CASE job' = [job EXCEPT ![c].step = "evict"]
      BY <3>2, <2>2, <2>3 DEF StartPortInserts
    <3> QED
      BY <2>3, <3>1, <3>2 DEF StartPortInserts
  <2>4. CASE StartPortEvicts(c)
    BY <2>4, <2>2 DEF StartPortEvicts
  <2>5. CASE StartPortOverwrites(c)
    <3>1. job' = [job EXCEPT ![c] = done]
      BY <2>5 DEF StartPortOverwrites
    <3> HIDE DEF done, j
    <3> QED
      BY <3>1, <2>a
  <2> QED
    BY <2>1, <2>3, <2>4, <2>5 DEF StartPort
<1>4. PICK k \in Jobs : Advances(k)
  BY <1>3
<1>5. /\ job' \in [Callers -> Jobs]
      /\ job'[c] = k
      /\ \A d \in Callers : d # c => job'[d] = job[d]
  BY <1>1, <1>4
<1>6. /\ items' \in [Ports -> Nodes \cup {NoNode}]
      /\ \A p \in Ports : items'[p] \in {items[p], NoNode, j.node}
      /\ j.step = "idle" => items' = items
  <2>1. CASE j.step = "idle"
    BY <1>1, <2>1 DEF StartPort, StartPortChecks, StartPortInserts, StartPortEvicts,
                      StartPortOverwrites
  <2>2. CASE j.step # "idle"
    <3>1. j.port \in Ports /\ j.node \in Nodes
      BY <2>2 DEF LInv, JobsKnowTheirPort
    <3>2. \/ items' = items
          \/ items' = [items EXCEPT ![j.port] = j.node]
          \/ items' = [items EXCEPT ![j.port] = NoNode]
      BY <2>2 DEF StartPort, StartPortChecks, StartPortInserts, StartPortEvicts,
                  StartPortOverwrites, StopPort
    <3> HIDE DEF j
    <3> QED
      BY <1>1, <2>2, <3>1, <3>2
  <2> QED
    BY <2>1, <2>2
<1> HIDE DEF j
<1>7. TypeOK' /\ Shapes'
  <2>1. \A d \in Callers : job'[d].todo \subseteq Ports \X Nodes
    BY <1>5 DEF Jobs
  <2> QED
    BY <1>1, <1>5, <1>6, <2>1 DEF LInv, TypeOK, Shapes, handlerVars, sessionVars, NodeOf
<1>8. JobsKnowTheirPort'
  BY <1>4, <1>5 DEF LInv, JobsKnowTheirPort
<1>9. /\ WorkIsDue' /\ SessionIsConcerned' /\ ClosersDrained' /\ Registration'
  BY <1>1 DEF LInv, WorkIsDue, SessionIsConcerned, ClosersDrained, Registration, NodeOf,
              handlerVars, sessionVars
<1>10. OwnPortsOnly'
  <2> SUFFICES ASSUME NEW h \in Handlers
               PROVE  /\ at[h] # "starting" => job'[h].todo = {} /\ job'[h].step = "idle"
                      /\ \A s \in job'[h].todo : s[2] = NodeOf(h)
                      /\ job'[h].step # "idle" => job'[h].node = NodeOf(h)
    BY <1>1 DEF OwnPortsOnly, NodeOf, handlerVars
  <2>1. /\ at[h] # "starting" => job[h].todo = {} /\ job[h].step = "idle"
        /\ \A s \in job[h].todo : s[2] = NodeOf(h)
        /\ job[h].step # "idle" => job[h].node = NodeOf(h)
    BY DEF LInv, OwnPortsOnly
  <2>2. CASE h = c
    BY <1>4, <1>5, <2>1, <2>2 DEF j
  <2>3. CASE h # c
    BY <1>5, <2>1, <2>3 DEF Callers
  <2> QED
    BY <2>2, <2>3
<1>11. NoReloadYet'
  <2> SUFFICES ASSUME reload.count = 0
               PROVE  job'[Reloader].todo = {} /\ job'[Reloader].step = "idle"
    BY <1>1 DEF LInv, NoReloadYet
  <2>1. job[Reloader].todo = {} /\ job[Reloader].step = "idle" /\ Reloader \in Callers
    BY DEF LInv, NoReloadYet, Callers
  <2> QED
    BY <1>4, <1>5, <2>1 DEF j
<1>12. ListenersAreServed'
  <2> SUFFICES ASSUME reload.count = 0, NEW p \in Ports, items'[p] # NoNode
               PROVE  /\ live[items'[p]] # NoSession
                      /\ at[live[items'[p]]] \in {"starting", "serving", "stopping"}
    BY <1>1 DEF ListenersAreServed, handlerVars
  <2>1. CASE items'[p] = items[p]
    BY <2>1 DEF LInv, ListenersAreServed
  <2>2. CASE items'[p] # items[p]
    <3>1. items'[p] = j.node /\ j.step # "idle"
      BY <1>6, <2>2
    <3>2. c \in Handlers /\ at[c] = "starting" /\ j.node = NodeOf(c)
      BY <3>1 DEF LInv, NoReloadYet, OwnPortsOnly, Callers, j
    <3>3. live[NodeOf(c)] = c
      BY <3>2 DEF LInv, Registration, Registered
    <3> QED
      BY <3>1, <3>2, <3>3, NamesAssumption
  <2> QED
    BY <2>1, <2>2
<1> QED
  BY <1>7, <1>8, <1>9, <1>10, <1>11, <1>12 DEF LInv

-----------------------------------------------------------------------------
\* The steps of a handler that change nothing but where it stands.

\* A handler moves on without touching its session, its registration, its
\* listeners or its StartPort calls.
Moves(h, from, to) ==
    /\ at[h] \in from
    /\ at' = [at EXCEPT ![h] = to]
    /\ UNCHANGED <<cfg, live, items, spec, lost, sessionVars, job, reload, drainers, shutdown>>

\* A handler that only moves on keeps the invariant.
LEMMA MoveInv ==
    ASSUME LInv, NEW h \in Handlers, NEW from, NEW to,
           Moves(h, from, to),
           \/ from = {"authenticated"} /\ to \in {"built", "gone"}
           \/ from = {"built"} /\ to = "gone"
           \/ from = {"registered"} /\ to = "unregistering"
           \/ from = {"starting"} /\ to = "serving" /\ job[h].todo = {} /\ job[h].step = "idle"
           \/ from = {"serving"} /\ to = "stopping"
    PROVE  LInv'
<1>1. /\ UNCHANGED <<cfg, live, items, spec, lost, sessionVars, job, reload, drainers, shutdown>>
      /\ at \in [Handlers -> Phases]
      /\ at' \in [Handlers -> Phases]
      /\ at'[h] = to /\ at[h] \in from /\ to # "idle" /\ at[h] # "idle"
      /\ \A g \in Handlers : g # h => at'[g] = at[g]
  BY DEF LInv, TypeOK, Moves, Phases, Registered
<1>2. TypeOK' /\ Shapes'
  <2>1. \A g \in Handlers : at'[g] # "idle" => spec'[g] \in Nodes
    BY <1>1 DEF LInv, TypeOK, NodeOf
  <2> QED
    BY <1>1, <2>1 DEF LInv, TypeOK, Shapes, sessionVars, NodeOf
<1>3. /\ JobsKnowTheirPort' /\ WorkIsDue' /\ ClosersDrained' /\ NoReloadYet'
  BY <1>1 DEF LInv, JobsKnowTheirPort, WorkIsDue, ClosersDrained, NoReloadYet, sessionVars
<1>4. SessionIsConcerned'
  <2>1. reload.sess # NoSession => reload.sess \in Handlers
    BY DEF LInv, Shapes, Reloads
  <2> QED
    BY <1>1, <2>1 DEF LInv, SessionIsConcerned, sessionVars, NodeOf
<1>5. Registration'
  <2>1. at[h] \in Registered <=> to \in Registered
    BY <1>1 DEF Registered
  <2>2. \A g \in Handlers : at'[g] \in Registered <=> at[g] \in Registered
    BY <1>1, <2>1
  <2>3. \A n \in Nodes : live[n] # NoSession => live[n] \in Handlers
    BY DEF LInv, TypeOK
  <2> QED
    BY <1>1, <2>2, <2>3 DEF LInv, Registration, NodeOf
<1>6. OwnPortsOnly'
  BY <1>1 DEF LInv, OwnPortsOnly, NodeOf
<1>7. ListenersAreServed'
  <2> SUFFICES ASSUME reload.count = 0, NEW p \in Ports, items[p] # NoNode
               PROVE  /\ live[items[p]] # NoSession
                      /\ at'[live[items[p]]] \in {"starting", "serving", "stopping"}
    BY <1>1 DEF ListenersAreServed
  <2>1. /\ live[items[p]] # NoSession
        /\ at[live[items[p]]] \in {"starting", "serving", "stopping"}
        /\ live[items[p]] \in Handlers
    BY DEF LInv, ListenersAreServed, TypeOK
  <2> QED
    BY <1>1, <2>1
<1> QED
  BY <1>2, <1>3, <1>4, <1>5, <1>6, <1>7 DEF LInv

\* The steps of serveControl that are such moves; a refused Register is one.
LEMMA QuietHandlerInv ==
    ASSUME LInv, NEW h \in Handlers,
           \/ BuildSession(h) \/ WelcomeFails(h) \/ Serve(h) \/ ControlEnds(h)
           \/ Register(h) /\ live' = live
    PROVE  LInv'
<1>1. CASE BuildSession(h)
  <2>1. \E to \in {"built", "gone"} : Moves(h, {"authenticated"}, to)
    BY <1>1 DEF BuildSession, Moves, In
  <2> QED
    BY <2>1, MoveInv
<1>2. CASE WelcomeFails(h)
  <2>1. Moves(h, {"registered"}, "unregistering")
    BY <1>2 DEF WelcomeFails, Moves, In
  <2> QED
    BY <2>1, MoveInv
<1>3. CASE Serve(h)
  <2>1. Moves(h, {"starting"}, "serving")
    BY <1>3 DEF Serve, Moves, In
  <2>2. job[h].todo = {} /\ job[h].step = "idle"
    BY <1>3 DEF Serve, Started, NoJob
  <2> QED
    BY <2>1, <2>2, MoveInv
<1>4. CASE ControlEnds(h)
  <2>1. Moves(h, {"serving"}, "stopping")
    BY <1>4 DEF ControlEnds, Moves, In
  <2> QED
    BY <2>1, MoveInv
<1>5. CASE Register(h) /\ live' = live
  <2>1. live[NodeOf(h)] # NoSession
    <3>1. live \in [Nodes -> Handlers \cup {NoSession}] /\ NodeOf(h) \in Nodes
      BY <1>5 DEF LInv, TypeOK, Register, In
    <3> QED
      BY <1>5, <3>1, NamesAssumption DEF Register
  <2>2. Moves(h, {"built"}, "gone")
    BY <1>5, <2>1 DEF Register, Moves, In
  <2> QED
    BY <2>2, MoveInv
<1> QED
  BY <1>1, <1>2, <1>3, <1>4, <1>5

-----------------------------------------------------------------------------
\* The other steps of a handler.

\* authenticate names the node of a handler that was nobody until now.
LEMMA AuthenticateInv ==
    ASSUME LInv, NEW h \in Handlers, Authenticate(h)
    PROVE  LInv'
<1>1. PICK n \in DOMAIN cfg.nodes : spec' = [spec EXCEPT ![h] = n]
  BY DEF Authenticate
<1>2. n \in Nodes
  BY ConfigTypes DEF LInv, TypeOK
<1>3. /\ UNCHANGED <<cfg, live, items, sent, lost, sessionVars, job, reload, drainers, shutdown>>
      /\ at[h] = "idle" /\ at'[h] = "authenticated" /\ at' \in [Handlers -> Phases]
      /\ spec' \in [Handlers -> Nodes \cup {NoNode}] /\ spec'[h] = n
      /\ \A g \in Handlers : g # h => at'[g] = at[g] /\ spec'[g] = spec[g]
  BY <1>1, <1>2 DEF LInv, TypeOK, Shapes, Authenticate, In, Phases
<1>4. at[h] \notin Registered /\ at'[h] \notin Registered
  BY <1>3 DEF Registered
<1>5. TypeOK' /\ Shapes'
  <2>1. \A g \in Handlers : at'[g] # "idle" => spec'[g] \in Nodes
    BY <1>2, <1>3 DEF LInv, TypeOK, NodeOf
  <2> QED
    BY <1>3, <2>1 DEF LInv, TypeOK, Shapes, sessionVars, NodeOf
<1>6. JobsKnowTheirPort' /\ WorkIsDue' /\ ClosersDrained' /\ NoReloadYet'
  BY <1>3 DEF LInv, JobsKnowTheirPort, WorkIsDue, ClosersDrained, NoReloadYet, sessionVars
<1>7. SessionIsConcerned'
  <2>1. reload.sess # NoSession => reload.sess \in Handlers /\ reload.sess # h
    BY <1>3 DEF LInv, Shapes, Reloads, SessionIsConcerned
  <2> QED
    BY <1>3, <2>1 DEF LInv, SessionIsConcerned, sessionVars, NodeOf
<1>8. \A m \in Nodes : live[m] # NoSession => live[m] \in Handlers /\ live[m] # h
  BY <1>4 DEF LInv, TypeOK, Registration
<1>9. Registration'
  BY <1>3, <1>4, <1>8 DEF LInv, Registration, NodeOf
<1>10. OwnPortsOnly'
  <2>1. job[h].todo = {} /\ job[h].step = "idle"
    BY <1>3 DEF LInv, OwnPortsOnly
  <2> QED
    BY <1>3, <2>1 DEF LInv, OwnPortsOnly, NodeOf
<1>11. ListenersAreServed'
  <2>1. \A p \in Ports : items[p] # NoNode => items[p] \in Nodes
    BY DEF LInv, TypeOK
  <2> QED
    BY <1>3, <1>8, <2>1 DEF LInv, ListenersAreServed
<1> QED
  BY <1>5, <1>6, <1>7, <1>9, <1>10, <1>11 DEF LInv

\* Register makes the handler the session of a node that had none.
LEMMA RegisterInv ==
    ASSUME LInv, NEW h \in Handlers, Register(h), live' # live
    PROVE  LInv'
<1>1. /\ UNCHANGED <<cfg, items, spec, sent, lost, sessionVars, job, reload, drainers, shutdown>>
      /\ at[h] = "built" /\ live[NodeOf(h)] = NoSession
      /\ at' = [at EXCEPT ![h] = "registered"]
      /\ live' = [live EXCEPT ![NodeOf(h)] = h]
  BY DEF Register, In
<1>2. /\ NodeOf(h) \in Nodes /\ h # NoSession
      /\ at'[h] = "registered" /\ at' \in [Handlers -> Phases]
      /\ \A g \in Handlers : g # h => at'[g] = at[g]
      /\ live \in [Nodes -> Handlers \cup {NoSession}]
      /\ live' \in [Nodes -> Handlers \cup {NoSession}]
      /\ live'[NodeOf(h)] = h
      /\ \A n \in Nodes : n # NodeOf(h) => live'[n] = live[n]
  BY <1>1, NamesAssumption DEF LInv, TypeOK, Phases, Registered
<1>3. at[h] \notin Registered /\ at'[h] \in Registered
  BY <1>1, <1>2 DEF Registered
<1>4. TypeOK' /\ Shapes'
  <2>1. \A g \in Handlers : at'[g] # "idle" => spec'[g] \in Nodes
    BY <1>1, <1>2 DEF LInv, TypeOK, NodeOf
  <2> QED
    BY <1>1, <1>2, <2>1 DEF LInv, TypeOK, Shapes, sessionVars, NodeOf
<1>5. JobsKnowTheirPort' /\ WorkIsDue' /\ ClosersDrained' /\ NoReloadYet'
  BY <1>1 DEF LInv, JobsKnowTheirPort, WorkIsDue, ClosersDrained, NoReloadYet, sessionVars
<1>6. SessionIsConcerned'
  <2>1. reload.sess # NoSession => reload.sess \in Handlers
    BY DEF LInv, Shapes, Reloads
  <2> QED
    BY <1>1, <1>2, <2>1 DEF LInv, SessionIsConcerned, sessionVars, NodeOf
<1>7. Registration'
  <2>1. ASSUME NEW g \in Handlers, at'[g] \in Registered
        PROVE  live'[NodeOf(g)] = g
    <3>1. CASE g = h
      BY <1>2, <3>1
    <3>2. CASE g # h
      <4>1. live[NodeOf(g)] = g /\ NodeOf(g) \in Nodes /\ g # NoSession
        <5>1. at[g] \in Registered
          BY <1>2, <2>1, <3>2
        <5> QED
          BY <5>1, NamesAssumption DEF LInv, Registration, TypeOK, Registered
      <4> QED
        BY <1>1, <1>2, <4>1
    <3> QED
      BY <3>1, <3>2
  <2>2. ASSUME NEW n \in Nodes, live'[n] # NoSession
        PROVE  at'[live'[n]] \in Registered /\ NodeOf(live'[n]) = n
    <3>1. CASE n = NodeOf(h)
      BY <1>2, <1>3, <3>1
    <3>2. CASE n # NodeOf(h)
      <4>1. live'[n] = live[n] /\ live[n] \in Handlers
        BY <1>2, <2>2, <3>2
      <4>2. at[live[n]] \in Registered /\ NodeOf(live[n]) = n
        BY <2>2, <4>1 DEF LInv, Registration
      <4> QED
        BY <1>2, <1>3, <4>1, <4>2
    <3> QED
      BY <3>1, <3>2
  <2> QED
    BY <1>1, <2>1, <2>2 DEF Registration, NodeOf
<1>8. OwnPortsOnly'
  BY <1>1, <1>2 DEF LInv, OwnPortsOnly, NodeOf
<1>9. ListenersAreServed'
  <2> SUFFICES ASSUME reload.count = 0, NEW p \in Ports, items[p] # NoNode
               PROVE  /\ live'[items[p]] # NoSession
                      /\ at'[live'[items[p]]] \in {"starting", "serving", "stopping"}
    BY <1>1 DEF ListenersAreServed
  <2>1. /\ live[items[p]] # NoSession /\ items[p] \in Nodes
        /\ at[live[items[p]]] \in {"starting", "serving", "stopping"}
        /\ live[items[p]] \in Handlers
    BY DEF LInv, ListenersAreServed, TypeOK
  <2> QED
    BY <1>1, <1>2, <2>1
<1> QED
  BY <1>4, <1>5, <1>6, <1>7, <1>8, <1>9 DEF LInv

\* The welcome gives the handler its own node's ports to start.
LEMMA WelcomeInv ==
    ASSUME LInv, NEW h \in Handlers, Welcome(h)
    PROVE  LInv'
<1> DEFINE ports == PortsOf(cfg, NodeOf(h))
           k == JobFor(ports, cfg)
<1>1. /\ UNCHANGED <<cfg, live, items, spec, sent, lost, sessionVars, reload, drainers, shutdown>>
      /\ at[h] = "registered" /\ at' = [at EXCEPT ![h] = "starting"]
      /\ job' = [job EXCEPT ![h] = k]
  BY DEF Welcome, In
<1>2. cfg \in Configs /\ NodeOf(h) \in Nodes
  BY <1>1 DEF LInv, TypeOK
<1>3. /\ k \in Jobs /\ k.step = "idle"
      /\ \A s \in k.todo : s[2] = NodeOf(h)
  <2>1. /\ ports \in SUBSET DOMAIN cfg.ports
        /\ \A p \in ports : cfg.ports[p].node = NodeOf(h)
    BY <1>2, PortsOfTypes
  <2> HIDE DEF ports
  <2>2. /\ k \in Jobs /\ k.step = "idle"
        /\ \A s \in k.todo : s[1] \in ports /\ s[2] = cfg.ports[s[1]].node
    BY <1>2, <2>1, JobForTypes
  <2> QED
    BY <2>1, <2>2
<1> HIDE DEF k
<1>4. /\ h \in Callers /\ h # Reloader
      /\ job' \in [Callers -> Jobs] /\ job'[h] = k
      /\ \A c \in Callers : c # h => job'[c] = job[c]
      /\ at'[h] = "starting" /\ at' \in [Handlers -> Phases]
      /\ \A g \in Handlers : g # h => at'[g] = at[g]
  BY <1>1, <1>3, NamesAssumption DEF LInv, TypeOK, Shapes, Callers, Phases, Registered
<1>5. TypeOK' /\ Shapes'
  <2>1. \A g \in Handlers : at'[g] # "idle" => spec'[g] \in Nodes
    BY <1>1, <1>4 DEF LInv, TypeOK, NodeOf
  <2>2. \A c \in Callers : job'[c].todo \subseteq Ports \X Nodes
    BY <1>4 DEF Jobs
  <2> QED
    BY <1>1, <1>4, <2>1, <2>2 DEF LInv, TypeOK, Shapes, sessionVars, NodeOf
<1>6. JobsKnowTheirPort'
  BY <1>3, <1>4 DEF LInv, JobsKnowTheirPort
<1>7. WorkIsDue' /\ ClosersDrained'
  BY <1>1 DEF LInv, WorkIsDue, ClosersDrained, sessionVars
<1>8. SessionIsConcerned'
  <2>1. reload.sess # NoSession => reload.sess \in Handlers
    BY DEF LInv, Shapes, Reloads
  <2> QED
    BY <1>1, <1>4, <2>1 DEF LInv, SessionIsConcerned, sessionVars, NodeOf
<1>9. Registration'
  <2>1. \A g \in Handlers : at'[g] \in Registered <=> at[g] \in Registered
    BY <1>1, <1>4 DEF Registered
  <2>2. \A n \in Nodes : live[n] # NoSession => live[n] \in Handlers
    BY DEF LInv, TypeOK
  <2> QED
    BY <1>1, <2>1, <2>2 DEF LInv, Registration, NodeOf
<1>10. OwnPortsOnly'
  <2> SUFFICES ASSUME NEW g \in Handlers
               PROVE  /\ at'[g] # "starting" => job'[g].todo = {} /\ job'[g].step = "idle"
                      /\ \A s \in job'[g].todo : s[2] = NodeOf(g)
                      /\ job'[g].step # "idle" => job'[g].node = NodeOf(g)
    BY <1>1 DEF OwnPortsOnly, NodeOf
  <2>1. CASE g = h
    BY <1>3, <1>4, <2>1
  <2>2. CASE g # h
    BY <1>4, <2>2 DEF LInv, OwnPortsOnly, Callers
  <2> QED
    BY <2>1, <2>2
<1>11. NoReloadYet'
  BY <1>1, <1>4 DEF LInv, NoReloadYet, Callers
<1>12. ListenersAreServed'
  <2> SUFFICES ASSUME reload.count = 0, NEW p \in Ports, items[p] # NoNode
               PROVE  /\ live[items[p]] # NoSession
                      /\ at'[live[items[p]]] \in {"starting", "serving", "stopping"}
    BY <1>1 DEF ListenersAreServed
  <2>1. /\ live[items[p]] # NoSession /\ items[p] \in Nodes
        /\ at[live[items[p]]] \in {"starting", "serving", "stopping"}
        /\ live[items[p]] \in Handlers
    BY DEF LInv, ListenersAreServed, TypeOK
  <2> QED
    BY <1>4, <2>1
<1> QED
  BY <1>5, <1>6, <1>7, <1>8, <1>9, <1>10, <1>11, <1>12 DEF LInv

\* Only sessions are closed.
LEMMA CloseInv ==
    ASSUME LInv, closed' \in [Handlers -> BOOLEAN],
           UNCHANGED <<cfg, live, items, handlerVars, draining, job, reload, drainers>>,
           shutdown' \in Shutdowns,
           shutdown'.at = "draining" => shutdown' = shutdown
    PROVE  LInv'
<1>1. TypeOK' /\ Shapes'
  BY DEF LInv, TypeOK, Shapes, handlerVars, NodeOf
<1>2. /\ JobsKnowTheirPort' /\ WorkIsDue' /\ NoReloadYet' /\ SessionIsConcerned'
      /\ Registration' /\ OwnPortsOnly' /\ ListenersAreServed'
  BY DEF LInv, JobsKnowTheirPort, WorkIsDue, NoReloadYet, SessionIsConcerned, Registration,
         OwnPortsOnly, ListenersAreServed, handlerVars, NodeOf
<1>3. ClosersDrained'
  BY DEF LInv, ClosersDrained
<1> QED
  BY <1>1, <1>2, <1>3 DEF LInv

\* pingLoop closes the session and nothing else.
LEMMA PingInv ==
    ASSUME LInv, NEW h \in Handlers, PingFails(h)
    PROVE  LInv'
<1>1. closed' \in [Handlers -> BOOLEAN] /\ shutdown' \in Shutdowns
  BY DEF LInv, TypeOK, Shapes, PingFails
<1> QED
  BY <1>1, CloseInv DEF PingFails

\* Listeners are stopped, nothing else.
LEMMA StopsInv ==
    ASSUME LInv, items' \in [Ports -> Nodes \cup {NoNode}],
           \A p \in Ports : items'[p] # NoNode => items'[p] = items[p],
           UNCHANGED <<cfg, live, handlerVars, sessionVars, job, reload, drainers>>,
           shutdown' \in Shutdowns,
           shutdown'.at = "draining" => shutdown' = shutdown
    PROVE  LInv'
<1>1. TypeOK' /\ Shapes'
  BY DEF LInv, TypeOK, Shapes, handlerVars, sessionVars, NodeOf
<1>2. /\ JobsKnowTheirPort' /\ WorkIsDue' /\ NoReloadYet' /\ SessionIsConcerned'
      /\ Registration' /\ OwnPortsOnly' /\ ClosersDrained'
  BY DEF LInv, JobsKnowTheirPort, WorkIsDue, NoReloadYet, SessionIsConcerned, Registration,
         OwnPortsOnly, ClosersDrained, handlerVars, sessionVars, NodeOf
<1>3. ListenersAreServed'
  BY DEF LInv, ListenersAreServed, handlerVars
<1> QED
  BY <1>1, <1>2, <1>3 DEF LInv

\* The teardown's StopNode leaves no listener of the node.
LEMMA TeardownPortsInv ==
    ASSUME LInv, NEW h \in Handlers, TeardownPorts(h)
    PROVE  LInv'
<1>1. /\ UNCHANGED <<cfg, live, spec, sent, lost, sessionVars, job, reload, drainers, shutdown>>
      /\ at[h] = "stopping" /\ at' = [at EXCEPT ![h] = "unregistering"]
      /\ StopNode(NodeOf(h))
  BY DEF TeardownPorts, In
<1>2. /\ items' \in [Ports -> Nodes \cup {NoNode}]
      /\ \A p \in Ports : items'[p] # NoNode => items'[p] = items[p] /\ items[p] # NodeOf(h)
  BY <1>1, StopKeepsTypes DEF LInv, TypeOK
<1>3. /\ at'[h] = "unregistering" /\ at' \in [Handlers -> Phases]
      /\ \A g \in Handlers : g # h => at'[g] = at[g]
  BY <1>1 DEF LInv, TypeOK, Phases, Registered
<1>4. TypeOK' /\ Shapes'
  <2>1. \A g \in Handlers : at'[g] # "idle" => spec'[g] \in Nodes
    BY <1>1, <1>3 DEF LInv, TypeOK, NodeOf
  <2> QED
    BY <1>1, <1>2, <1>3, <2>1 DEF LInv, TypeOK, Shapes, sessionVars, NodeOf
<1>5. JobsKnowTheirPort' /\ WorkIsDue' /\ ClosersDrained' /\ NoReloadYet'
  BY <1>1 DEF LInv, JobsKnowTheirPort, WorkIsDue, ClosersDrained, NoReloadYet, sessionVars
<1>6. SessionIsConcerned'
  <2>1. reload.sess # NoSession => reload.sess \in Handlers
    BY DEF LInv, Shapes, Reloads
  <2> QED
    BY <1>1, <1>3, <2>1 DEF LInv, SessionIsConcerned, sessionVars, NodeOf
<1>7. Registration'
  <2>1. \A g \in Handlers : at'[g] \in Registered <=> at[g] \in Registered
    BY <1>1, <1>3 DEF Registered
  <2>2. \A n \in Nodes : live[n] # NoSession => live[n] \in Handlers
    BY DEF LInv, TypeOK
  <2> QED
    BY <1>1, <2>1, <2>2 DEF LInv, Registration, NodeOf
<1>8. OwnPortsOnly'
  BY <1>1, <1>3 DEF LInv, OwnPortsOnly, NodeOf
<1>9. ListenersAreServed'
  <2> SUFFICES ASSUME reload.count = 0, NEW p \in Ports, items'[p] # NoNode
               PROVE  /\ live[items'[p]] # NoSession
                      /\ at'[live[items'[p]]] \in {"starting", "serving", "stopping"}
    BY <1>1 DEF ListenersAreServed
  <2>1. items'[p] = items[p] /\ items[p] # NodeOf(h) /\ items[p] \in Nodes
    BY <1>2 DEF LInv, TypeOK
  <2>2. /\ live[items[p]] # NoSession /\ live[items[p]] \in Handlers
        /\ at[live[items[p]]] \in {"starting", "serving", "stopping"}
    BY <2>1 DEF LInv, ListenersAreServed, TypeOK
  <2>3. live[items[p]] # h
    BY <2>1, <2>2 DEF LInv, Registration
  <2> QED
    BY <1>3, <2>1, <2>2, <2>3
<1> QED
  BY <1>4, <1>5, <1>6, <1>7, <1>8, <1>9 DEF LInv

\* Unregister frees a node that has no listener left.
LEMMA TeardownRegistrationInv ==
    ASSUME LInv, NEW h \in Handlers, TeardownRegistration(h)
    PROVE  LInv'
<1>1. /\ UNCHANGED <<cfg, items, spec, sent, lost, sessionVars, job, reload, drainers, shutdown>>
      /\ at[h] = "unregistering" /\ at' = [at EXCEPT ![h] = "closing"]
      /\ NodeOf(h) \in Nodes /\ live[NodeOf(h)] = h
  BY DEF LInv, TypeOK, Registration, Registered, TeardownRegistration, In
<1>2. live' = [live EXCEPT ![NodeOf(h)] = NoSession]
  BY <1>1 DEF TeardownRegistration, Unregister
<1>3. /\ at'[h] = "closing" /\ at' \in [Handlers -> Phases]
      /\ \A g \in Handlers : g # h => at'[g] = at[g]
      /\ live \in [Nodes -> Handlers \cup {NoSession}]
      /\ live' \in [Nodes -> Handlers \cup {NoSession}]
      /\ live'[NodeOf(h)] = NoSession
      /\ \A n \in Nodes : n # NodeOf(h) => live'[n] = live[n]
  BY <1>1, <1>2 DEF LInv, TypeOK, Phases, Registered
<1>4. at'[h] \notin Registered
  BY <1>3 DEF Registered
<1>5. TypeOK' /\ Shapes'
  <2>1. \A g \in Handlers : at'[g] # "idle" => spec'[g] \in Nodes
    BY <1>1, <1>3 DEF LInv, TypeOK, NodeOf
  <2> QED
    BY <1>1, <1>3, <2>1 DEF LInv, TypeOK, Shapes, sessionVars, NodeOf
<1>6. JobsKnowTheirPort' /\ WorkIsDue' /\ ClosersDrained' /\ NoReloadYet'
  BY <1>1 DEF LInv, JobsKnowTheirPort, WorkIsDue, ClosersDrained, NoReloadYet, sessionVars
<1>7. SessionIsConcerned'
  <2>1. reload.sess # NoSession => reload.sess \in Handlers
    BY DEF LInv, Shapes, Reloads
  <2> QED
    BY <1>1, <1>3, <2>1 DEF LInv, SessionIsConcerned, sessionVars, NodeOf
<1>8. Registration'
  <2>1. ASSUME NEW g \in Handlers, at'[g] \in Registered
        PROVE  live'[NodeOf(g)] = g
    <3>1. g # h /\ at[g] \in Registered
      BY <1>3, <1>4, <2>1
    <3>2. live[NodeOf(g)] = g /\ NodeOf(g) \in Nodes
      BY <3>1 DEF LInv, Registration, TypeOK, Registered
    <3> QED
      BY <1>1, <1>3, <3>1, <3>2
  <2>2. ASSUME NEW n \in Nodes, live'[n] # NoSession
        PROVE  at'[live'[n]] \in Registered /\ NodeOf(live'[n]) = n
    <3>1. n # NodeOf(h) /\ live'[n] = live[n] /\ live[n] \in Handlers
      BY <1>3, <2>2
    <3>2. at[live[n]] \in Registered /\ NodeOf(live[n]) = n
      BY <2>2, <3>1 DEF LInv, Registration
    <3> QED
      BY <1>3, <3>1, <3>2
  <2> QED
    BY <1>1, <2>1, <2>2 DEF Registration, NodeOf
<1>9. OwnPortsOnly'
  BY <1>1, <1>3 DEF LInv, OwnPortsOnly, NodeOf
<1>10. ListenersAreServed'
  <2> SUFFICES ASSUME reload.count = 0, NEW p \in Ports, items[p] # NoNode
               PROVE  /\ live'[items[p]] # NoSession
                      /\ at'[live'[items[p]]] \in {"starting", "serving", "stopping"}
    BY <1>1 DEF ListenersAreServed
  <2>1. /\ live[items[p]] # NoSession /\ live[items[p]] \in Handlers /\ items[p] \in Nodes
        /\ at[live[items[p]]] \in {"starting", "serving", "stopping"}
    BY DEF LInv, ListenersAreServed, TypeOK
  <2>2. live[items[p]] # h /\ items[p] # NodeOf(h)
    BY <1>1, <2>1
  <2> QED
    BY <1>3, <2>1, <2>2
<1> QED
  BY <1>5, <1>6, <1>7, <1>8, <1>9, <1>10 DEF LInv

\* Close comes last, when the handler is registered no more.
LEMMA TeardownSessionInv ==
    ASSUME LInv, NEW h \in Handlers, TeardownSession(h)
    PROVE  LInv'
<1>1. /\ UNCHANGED <<cfg, live, items, spec, sent, lost, draining, job, reload, drainers, shutdown>>
      /\ at[h] = "closing" /\ at' = [at EXCEPT ![h] = "gone"]
      /\ closed' = [closed EXCEPT ![h] = TRUE]
  BY DEF TeardownSession, In
<1>2. /\ at'[h] = "gone" /\ at' \in [Handlers -> Phases] /\ closed' \in [Handlers -> BOOLEAN]
      /\ \A g \in Handlers : g # h => at'[g] = at[g]
  BY <1>1 DEF LInv, TypeOK, Phases
<1>3. at[h] \notin Registered /\ at'[h] \notin Registered
  BY <1>1, <1>2 DEF Registered
<1>4. TypeOK' /\ Shapes'
  <2>1. \A g \in Handlers : at'[g] # "idle" => spec'[g] \in Nodes
    BY <1>1, <1>2 DEF LInv, TypeOK, NodeOf
  <2> QED
    BY <1>1, <1>2, <2>1 DEF LInv, TypeOK, Shapes, NodeOf
<1>5. JobsKnowTheirPort' /\ WorkIsDue' /\ ClosersDrained' /\ NoReloadYet'
  BY <1>1 DEF LInv, JobsKnowTheirPort, WorkIsDue, ClosersDrained, NoReloadYet
<1>6. SessionIsConcerned'
  <2>1. reload.sess # NoSession => reload.sess \in Handlers
    BY DEF LInv, Shapes, Reloads
  <2> QED
    BY <1>1, <1>2, <2>1 DEF LInv, SessionIsConcerned, NodeOf
<1>7. \A n \in Nodes : live[n] # NoSession => live[n] \in Handlers /\ live[n] # h
  BY <1>3 DEF LInv, TypeOK, Registration
<1>8. Registration'
  BY <1>1, <1>2, <1>3, <1>7 DEF LInv, Registration, NodeOf
<1>9. OwnPortsOnly'
  BY <1>1, <1>2 DEF LInv, OwnPortsOnly, NodeOf
<1>10. ListenersAreServed'
  <2>1. \A p \in Ports : items[p] # NoNode => items[p] \in Nodes
    BY DEF LInv, TypeOK
  <2> QED
    BY <1>1, <1>2, <1>7, <2>1 DEF LInv, ListenersAreServed
<1> QED
  BY <1>4, <1>5, <1>6, <1>8, <1>9, <1>10 DEF LInv

-----------------------------------------------------------------------------
\* The reload.

\* What the reloader does to its own state, to the snapshot it publishes, to the
\* drained and to its StartPort calls; no handler, registration or listener.
LEMMA ReloaderInv ==
    ASSUME LInv, UNCHANGED <<live, items, at, spec, closed, shutdown>>,
           cfg' \in Configs, draining' \in [Handlers -> BOOLEAN],
           lost' \in [Handlers -> BOOLEAN],
           \A h \in Handlers : draining[h] => draining'[h],
           job' = job \/ (\E k \in Jobs : /\ job' = [job EXCEPT ![Reloader] = k]
                                          /\ k.step = "idle"),
           \A d \in drainers' : d \in Drainers /\ draining'[d.sess],
           reload' \in Reloads, reload'.count > 0 \/ reload' = reload,
           reload.count > 0 \/ (drainers' = drainers /\ job' = job),
           WorkIsDue', SessionIsConcerned'
    PROVE  LInv'
<1>1. /\ job' \in [Callers -> Jobs]
      /\ \A h \in Handlers : job'[h] = job[h]
      /\ \A c \in Callers : job'[c].step # "idle" => job'[c] = job[c]
  <2>1. job \in [Callers -> Jobs] /\ Reloader \in Callers /\ Reloader \notin Handlers
    BY NamesAssumption DEF LInv, Shapes, Callers
  <2> QED
    BY <2>1 DEF Callers
<1>2. TypeOK' /\ Shapes'
  <2>1. \A c \in Callers : job'[c].todo \subseteq Ports \X Nodes
    BY <1>1 DEF Jobs
  <2>2. reload'.count \in 0..MaxReloads
    BY DEF Reloads
  <2> QED
    BY <1>1, <2>1, <2>2 DEF LInv, TypeOK, Shapes, NodeOf, Drainers
<1>3. JobsKnowTheirPort'
  BY <1>1 DEF LInv, JobsKnowTheirPort
<1>4. ClosersDrained'
  <2>1. shutdown.sessions \subseteq Handlers
    BY DEF LInv, Shapes, Shutdowns
  <2> QED
    BY <2>1 DEF LInv, ClosersDrained
<1>5. Registration'
  BY DEF LInv, Registration, NodeOf
<1>6. OwnPortsOnly'
  BY <1>1 DEF LInv, OwnPortsOnly, NodeOf
<1>7. NoReloadYet' /\ ListenersAreServed'
  <2>1. CASE reload'.count > 0
    BY <2>1 DEF NoReloadYet, ListenersAreServed
  <2>2. CASE reload' = reload /\ reload.count > 0
    BY <2>2 DEF NoReloadYet, ListenersAreServed
  <2>3. CASE reload' = reload /\ drainers' = drainers /\ job' = job
    BY <2>3 DEF LInv, NoReloadYet, ListenersAreServed
  <2> QED
    BY <2>1, <2>2, <2>3
<1> QED
  BY <1>2, <1>3, <1>4, <1>5, <1>6, <1>7 DEF LInv

\* A reload that is under way has been counted.
LEMMA ReloadIsCounted ==
    ASSUME LInv
    PROVE  /\ reload.at # "idle" => reload.count \in 1..MaxReloads
           /\ reload.count \in 0..MaxReloads
BY InitAssumption DEF LInv, Shapes, Reloads, NoReloadYet

\* A reload begins with the nodes that were removed.
LEMMA ReloadBeginsInv ==
    ASSUME LInv, ReloadBegins
    PROVE  LInv'
<1>1. PICK next \in Configs :
        reload' = [at |-> "removeNodes", old |-> cfg, next |-> next,
                   work |-> RemovedNodes(cfg, next), node |-> NoNode,
                   sess |-> NoSession, count |-> reload.count + 1]
  BY DEF ReloadBegins
<1>2. cfg \in Configs /\ reload.count \in 0..MaxReloads /\ reload.count < MaxReloads
  BY ReloadIsCounted DEF LInv, TypeOK, ReloadBegins
<1>3. RemovedNodes(cfg, next) \subseteq Nodes
  BY <1>2, DiffTypes
<1>4. reload.count + 1 \in 0..MaxReloads /\ reload.count + 1 > 0
  BY <1>2, InitAssumption
<1>5. /\ reload' \in Reloads /\ reload'.count > 0
      /\ reload'.at = "removeNodes" /\ reload'.sess = NoSession
      /\ reload'.work = RemovedNodes(reload'.old, reload'.next)
  BY <1>1, <1>2, <1>3, <1>4 DEF Reloads, ReloadPhases
<1>6. WorkIsDue' /\ SessionIsConcerned'
  BY <1>5 DEF WorkIsDue, SessionIsConcerned
<1>7. UNCHANGED <<cfg, live, items, handlerVars, sessionVars, job, drainers, shutdown>>
  BY DEF ReloadBegins
<1>8. \A d \in drainers : d \in Drainers /\ draining[d.sess]
  BY DEF LInv, TypeOK, Shapes, ClosersDrained
<1>9. draining \in [Handlers -> BOOLEAN] /\ lost \in [Handlers -> BOOLEAN]
  BY DEF LInv, TypeOK
<1> QED
  BY <1>2, <1>5, <1>6, <1>7, <1>8, <1>9, ReloaderInv DEF handlerVars, sessionVars

\* The steps of applyReload that look sessions up.
LEMMA LookupInv ==
    ASSUME LInv, NEW n \in reload.work, reload.at \in {"removeNodes", "changeKeys"},
           reload' = [reload EXCEPT !.work = @ \ {n}, !.node = n, !.sess = live[n]],
           draining' \in [Handlers -> BOOLEAN],
           \A h \in Handlers : draining[h] => draining'[h],
           reload.at = "removeNodes" /\ live[n] # NoSession => draining'[live[n]],
           UNCHANGED <<cfg, live, items, handlerVars, closed, job, drainers, shutdown>>
    PROVE  LInv'
<1>1. reload \in Reloads /\ reload.count \in 1..MaxReloads
  BY ReloadIsCounted DEF LInv, Shapes
<1>2. /\ n \in Nodes
      /\ reload.at = "changeKeys" => n \in KeyChangedNodes(reload.old, reload.next)
  <2>1. reload.old \in Configs /\ reload.next \in Configs
    BY <1>1 DEF Reloads
  <2> QED
    BY <2>1, DiffTypes DEF LInv, WorkIsDue
<1>3. live[n] \in Handlers \cup {NoSession}
  BY <1>2 DEF LInv, TypeOK
<1>4. /\ reload' \in Reloads /\ reload'.work \subseteq reload.work /\ reload'.at = reload.at
      /\ reload'.old = reload.old /\ reload'.next = reload.next /\ reload'.count = reload.count
      /\ reload'.node = n /\ reload'.sess = live[n]
  BY <1>1, <1>2, <1>3 DEF Reloads
<1>5. WorkIsDue'
  BY <1>4 DEF LInv, WorkIsDue
<1>6. SessionIsConcerned'
  <2>1. live[n] # NoSession => NodeOf(live[n]) = n /\ at[live[n]] # "idle"
    BY <1>2 DEF LInv, Registration, Registered
  <2> QED
    BY <1>2, <1>4, <2>1 DEF SessionIsConcerned, NodeOf, handlerVars
<1>7. reload'.count > 0
  BY <1>1, <1>4
<1>8. \A d \in drainers : d \in Drainers /\ draining'[d.sess]
  BY DEF LInv, TypeOK, Shapes, ClosersDrained
<1>9. cfg \in Configs /\ lost \in [Handlers -> BOOLEAN]
  BY DEF LInv, TypeOK
<1> QED
  BY <1>4, <1>5, <1>6, <1>7, <1>8, <1>9, ReloaderInv DEF handlerVars

\* drainNode marks the session it looks up.
LEMMA DrainMarksInv ==
    ASSUME LInv, DrainMarks
    PROVE  LInv'
<1>1. PICK n \in reload.work :
        /\ reload' = [reload EXCEPT !.work = @ \ {n}, !.node = n, !.sess = live[n]]
        /\ draining' = [h \in Handlers |-> draining[h] \/ h = live[n]]
  BY DEF DrainMarks
<1>2. /\ draining' \in [Handlers -> BOOLEAN]
      /\ \A h \in Handlers : draining[h] => draining'[h]
  BY <1>1 DEF LInv, TypeOK
<1>3. n \in Nodes
  <2>1. reload.old \in Configs /\ reload.next \in Configs
    BY DEF LInv, Shapes, Reloads
  <2> QED
    BY <2>1, DiffTypes DEF LInv, WorkIsDue, DrainMarks, Busy
<1>4. live[n] # NoSession => draining'[live[n]]
  BY <1>1, <1>3 DEF LInv, TypeOK
<1> QED
  BY <1>1, <1>2, <1>4, LookupInv DEF DrainMarks, Busy

\* A changed key: the session is looked up.
LEMMA KeyLookupInv ==
    ASSUME LInv, KeyLookup
    PROVE  LInv'
<1>1. draining \in [Handlers -> BOOLEAN]
  BY DEF LInv, TypeOK
<1> QED
  BY <1>1, LookupInv DEF KeyLookup, Busy, sessionVars

\* The steps of applyReload that stop listeners.
LEMMA ReloadStopsInv ==
    ASSUME LInv, reload.at # "idle",
           items' \in [Ports -> Nodes \cup {NoNode}],
           UNCHANGED <<cfg, live, handlerVars, draining, job, shutdown>>,
           closed' \in [Handlers -> BOOLEAN],
           \A d \in drainers' : d \in Drainers /\ draining[d.sess],
           reload' \in Reloads, reload'.count = reload.count,
           reload'.old = reload.old, reload'.next = reload.next,
           reload'.work \subseteq reload.work,
           WorkIsDue', SessionIsConcerned'
    PROVE  LInv'
<1>1. reload.count > 0
  BY ReloadIsCounted
<1>2. TypeOK' /\ Shapes'
  <2>1. reload'.count \in 0..MaxReloads
    BY DEF Reloads
  <2> QED
    BY <2>1 DEF LInv, TypeOK, Shapes, handlerVars, NodeOf, Drainers
<1>3. JobsKnowTheirPort' /\ Registration' /\ OwnPortsOnly'
  BY DEF LInv, JobsKnowTheirPort, Registration, OwnPortsOnly, handlerVars, NodeOf
<1>4. ClosersDrained'
  BY DEF LInv, ClosersDrained
<1>5. NoReloadYet' /\ ListenersAreServed'
  BY <1>1 DEF NoReloadYet, ListenersAreServed
<1> QED
  BY <1>2, <1>3, <1>4, <1>5 DEF LInv

\* The steps of applyReload that stop listeners are such steps.
LEMMA ReloadListenersInv ==
    ASSUME LInv, DrainStops \/ KeyStopsPorts \/ KeyCloses \/ RemovePort
    PROVE  LInv'
<1>1. /\ reload \in Reloads /\ items \in [Ports -> Nodes \cup {NoNode}]
      /\ closed \in [Handlers -> BOOLEAN]
      /\ \A d \in drainers : d \in Drainers /\ draining[d.sess]
  BY DEF LInv, TypeOK, Shapes, ClosersDrained
<1> DEFINE done == [reload EXCEPT !.sess = NoSession]
<1>2. /\ done \in Reloads /\ done.count = reload.count /\ done.at = reload.at
      /\ done.old = reload.old /\ done.next = reload.next /\ done.work = reload.work
      /\ done.sess = NoSession
  BY <1>1 DEF Reloads
<1>3. reload.sess # NoSession =>
        /\ reload.sess \in Handlers /\ reload.node \in Nodes
        /\ reload.at = "removeNodes" => draining[reload.sess]
  BY <1>1 DEF LInv, SessionIsConcerned, Reloads
<1>4. CASE DrainStops
  <2> DEFINE d == [node |-> reload.node, sess |-> reload.sess, reload |-> reload.count,
                   step |-> "waiting"]
  <2>1. /\ reload.at = "removeNodes" /\ reload.sess # NoSession /\ StopNode(reload.node)
        /\ drainers' = drainers \cup {d}
        /\ reload' = done
        /\ UNCHANGED <<cfg, live, handlerVars, sessionVars, job, shutdown>>
    BY <1>4 DEF DrainStops
  <2>2. d \in Drainers /\ draining[d.sess]
    BY <1>1, <1>3, <2>1, ReloadIsCounted DEF Drainers
  <2> HIDE DEF d, done
  <2>3. \A e \in drainers' : e \in Drainers /\ draining[e.sess]
    BY <1>1, <2>1, <2>2
  <2>4. items' \in [Ports -> Nodes \cup {NoNode}]
    BY <1>1, <2>1, StopKeepsTypes
  <2>5. WorkIsDue' /\ SessionIsConcerned'
    BY <1>2, <2>1 DEF LInv, WorkIsDue, SessionIsConcerned
  <2> QED
    BY <1>1, <1>2, <2>1, <2>3, <2>4, <2>5, ReloadStopsInv DEF sessionVars
<1>5. CASE KeyStopsPorts
  <2>1. /\ reload.at = "changeKeys" /\ StopNode(reload.node) /\ reload.sess # NoSession
        /\ reload' = [reload EXCEPT !.at = "disconnect"]
        /\ UNCHANGED <<cfg, live, handlerVars, sessionVars, job, drainers, shutdown>>
    BY <1>5 DEF KeyStopsPorts
  <2>2. /\ reload' \in Reloads /\ reload'.count = reload.count /\ reload'.at = "disconnect"
        /\ reload'.old = reload.old /\ reload'.next = reload.next
        /\ reload'.work = reload.work /\ reload'.sess = reload.sess
        /\ reload'.node = reload.node
    BY <1>1, <2>1 DEF Reloads, ReloadPhases
  <2>3. items' \in [Ports -> Nodes \cup {NoNode}]
    BY <1>1, <1>3, <2>1, StopKeepsTypes
  <2>4. WorkIsDue'
    BY <2>1, <2>2 DEF LInv, WorkIsDue
  <2>5. SessionIsConcerned'
    BY <2>1, <2>2 DEF LInv, SessionIsConcerned, NodeOf, handlerVars
  <2> QED
    BY <1>1, <2>1, <2>2, <2>3, <2>4, <2>5, ReloadStopsInv DEF sessionVars
<1>6. CASE KeyCloses
  <2>1. /\ reload.at = "disconnect"
        /\ closed' = [closed EXCEPT ![reload.sess] = TRUE]
        /\ reload' = [reload EXCEPT !.at = "changeKeys", !.sess = NoSession]
        /\ UNCHANGED <<cfg, live, items, handlerVars, draining, job, drainers, shutdown>>
    BY <1>6 DEF KeyCloses
  <2>2. /\ reload' \in Reloads /\ reload'.count = reload.count /\ reload'.at = "changeKeys"
        /\ reload'.old = reload.old /\ reload'.next = reload.next
        /\ reload'.work = reload.work /\ reload'.sess = NoSession
    BY <1>1, <2>1 DEF Reloads, ReloadPhases
  <2>3. closed' \in [Handlers -> BOOLEAN]
    BY <1>1, <2>1
  <2>4. WorkIsDue' /\ SessionIsConcerned'
    BY <2>1, <2>2 DEF LInv, WorkIsDue, SessionIsConcerned
  <2> QED
    BY <1>1, <2>1, <2>2, <2>3, <2>4, ReloadStopsInv
<1>7. CASE RemovePort
  <2>1. PICK p \in reload.work :
          StopPort(p) /\ reload' = [reload EXCEPT !.work = @ \ {p}]
    BY <1>7 DEF RemovePort
  <2>2. /\ reload.at = "removePorts" /\ reload.sess = NoSession
        /\ UNCHANGED <<cfg, live, handlerVars, sessionVars, job, drainers, shutdown>>
    BY <1>7 DEF RemovePort, Busy
  <2>3. /\ reload' \in Reloads /\ reload'.count = reload.count /\ reload'.at = reload.at
        /\ reload'.old = reload.old /\ reload'.next = reload.next
        /\ reload'.work \subseteq reload.work /\ reload'.sess = NoSession
    BY <1>1, <2>1, <2>2 DEF Reloads
  <2>4. items' \in [Ports -> Nodes \cup {NoNode}]
    BY <1>1, <2>1 DEF StopPort
  <2>5. WorkIsDue' /\ SessionIsConcerned'
    BY <2>2, <2>3 DEF LInv, WorkIsDue, SessionIsConcerned
  <2> QED
    BY <1>1, <2>2, <2>3, <2>4, <2>5, ReloadStopsInv DEF sessionVars
<1> QED
  BY <1>4, <1>5, <1>6, <1>7

\* applyReload's steps from loop to loop, its publishing and its pushes.
LEMMA ReloaderStepInv ==
    ASSUME LInv,
           \/ RemoveNodesDone \/ ChangeKeysDone \/ Publish \/ AddPortsDone
           \/ PushConfig \/ PushDone \/ ReloadEnds
    PROVE  LInv'
<1>1. /\ reload \in Reloads /\ cfg \in Configs /\ draining \in [Handlers -> BOOLEAN]
      /\ reload.old \in Configs /\ reload.next \in Configs /\ reload.work \subseteq Nodes \cup Ports
      /\ \A d \in drainers : d \in Drainers /\ draining[d.sess]
  BY DEF LInv, TypeOK, Shapes, ClosersDrained, Reloads
<1>2. /\ RemovedNodes(reload.old, reload.next) \subseteq Nodes
      /\ KeyChangedNodes(reload.old, reload.next) \subseteq Nodes
      /\ ChangedNodes(reload.old, reload.next) \subseteq Nodes
      /\ RemovedPorts(reload.old, reload.next) \subseteq Ports
      /\ AddedPorts(reload.old, reload.next) \in SUBSET DOMAIN reload.next.ports
  BY <1>1, DiffTypes
<1>3. /\ reload.at # "idle"
      /\ UNCHANGED <<live, items, at, spec, closed, draining, drainers, shutdown>>
  BY DEF RemoveNodesDone, ChangeKeysDone, Publish, AddPortsDone, PushConfig, PushDone,
         ReloadEnds, Busy, handlerVars, sessionVars
<1>4. reload.count > 0 /\ lost' \in [Handlers -> BOOLEAN]
  <2>1. lost \in [Handlers -> BOOLEAN]
    BY DEF LInv, TypeOK
  <2>2. lost' \in [Handlers -> BOOLEAN]
    BY <2>1 DEF RemoveNodesDone, ChangeKeysDone, Publish, AddPortsDone, PushConfig, PushDone,
         ReloadEnds, handlerVars
  <2> QED
    BY <1>3, <2>2, ReloadIsCounted
<1>5. ASSUME cfg' \in Configs,
             job' = job \/ (\E k \in Jobs : /\ job' = [job EXCEPT ![Reloader] = k]
                                            /\ k.step = "idle"),
             reload' \in Reloads, reload'.count = reload.count,
             WorkIsDue', reload'.sess = NoSession
      PROVE  LInv'
  <2>1. SessionIsConcerned'
    BY <1>5 DEF SessionIsConcerned
  <2>2. \A d \in drainers' : d \in Drainers /\ draining'[d.sess]
    BY <1>1, <1>3
  <2>3. reload'.count > 0
    BY <1>4, <1>5
  <2> QED
    BY <1>1, <1>3, <1>4, <1>5, <2>1, <2>2, <2>3, ReloaderInv
<1>6. CASE RemoveNodesDone
  <2> DEFINE next == [reload EXCEPT !.at = "changeKeys",
                                    !.work = KeyChangedNodes(reload.old, reload.next)]
  <2>1. /\ reload' = next /\ reload.sess = NoSession /\ cfg' = cfg /\ job' = job
    BY <1>6 DEF RemoveNodesDone, Busy
  <2>2. /\ reload' \in Reloads /\ reload'.count = reload.count /\ reload'.sess = NoSession
        /\ reload'.at = "changeKeys"
        /\ reload'.work = KeyChangedNodes(reload'.old, reload'.next)
    BY <1>1, <1>2, <2>1 DEF Reloads, ReloadPhases
  <2>3. WorkIsDue'
    BY <2>2 DEF WorkIsDue
  <2> QED
    BY <1>1, <1>5, <2>1, <2>2, <2>3
<1>7. CASE ChangeKeysDone
  <2> DEFINE next == [reload EXCEPT !.at = "removePorts",
                                    !.work = RemovedPorts(reload.old, reload.next)]
  <2>1. /\ reload' = next /\ reload.sess = NoSession /\ cfg' = cfg /\ job' = job
    BY <1>7 DEF ChangeKeysDone, Busy
  <2>2. /\ reload' \in Reloads /\ reload'.count = reload.count /\ reload'.sess = NoSession
        /\ reload'.at = "removePorts" /\ reload'.work \subseteq Ports
    BY <1>1, <1>2, <2>1 DEF Reloads, ReloadPhases
  <2>3. WorkIsDue'
    BY <2>2 DEF WorkIsDue
  <2> QED
    BY <1>1, <1>5, <2>1, <2>2, <2>3
<1>8. CASE Publish
  <2> DEFINE next == [reload EXCEPT !.at = "addPorts"]
             k == JobFor(AddedPorts(reload.old, reload.next), reload.next)
  <2>1. /\ reload' = next /\ reload.sess = NoSession /\ cfg' = reload.next
        /\ job' = [job EXCEPT ![Reloader] = k]
    BY <1>8 DEF Publish, Busy
  <2>2. k \in Jobs /\ k.step = "idle"
    BY <1>1, <1>2, JobForTypes
  <2>3. /\ reload' \in Reloads /\ reload'.count = reload.count /\ reload'.sess = NoSession
        /\ reload'.at = "addPorts"
    BY <1>1, <2>1 DEF Reloads, ReloadPhases
  <2>4. WorkIsDue'
    BY <2>3 DEF WorkIsDue
  <2> HIDE DEF k
  <2> QED
    BY <1>1, <1>5, <2>1, <2>2, <2>3, <2>4
<1>9. CASE AddPortsDone
  <2> DEFINE next == [reload EXCEPT !.at = "push",
                                    !.work = ChangedNodes(reload.old, reload.next)]
  <2>1. /\ reload' = next /\ reload.sess = NoSession /\ cfg' = cfg /\ job' = job
    BY <1>9 DEF AddPortsDone, Busy
  <2>2. /\ reload' \in Reloads /\ reload'.count = reload.count /\ reload'.sess = NoSession
        /\ reload'.at = "push" /\ reload'.work \subseteq Nodes
    BY <1>1, <1>2, <2>1 DEF Reloads, ReloadPhases
  <2>3. WorkIsDue'
    BY <2>2 DEF WorkIsDue
  <2> QED
    BY <1>1, <1>5, <2>1, <2>2, <2>3
<1>10. ASSUME reload.at \in {"push", "pushAll"}
       PROVE  reload.sess = NoSession /\ reload.work \subseteq Nodes
  BY <1>10 DEF LInv, WorkIsDue
<1>11. CASE PushConfig
  <2>1. PICK n \in reload.work : reload' = [reload EXCEPT !.work = @ \ {n}]
    BY <1>11 DEF PushConfig
  <2>2. reload.at \in {"push", "pushAll"} /\ cfg' = cfg /\ job' = job
    BY <1>11 DEF PushConfig
  <2>3. /\ reload' \in Reloads /\ reload'.count = reload.count /\ reload'.sess = NoSession
        /\ reload'.at \in {"push", "pushAll"} /\ reload'.work \subseteq Nodes
    BY <1>1, <1>10, <2>1, <2>2 DEF Reloads
  <2>4. WorkIsDue'
    BY <2>3 DEF WorkIsDue
  <2> QED
    BY <1>1, <1>5, <2>2, <2>3, <2>4
<1>12. CASE PushDone
  <2>1. PICK w \in SUBSET Nodes : reload' = [reload EXCEPT !.at = "pushAll", !.work = w]
    <3> DEFINE w1 == {n \in Nodes : live[n] # NoSession} \ ChangedNodes(reload.old, reload.next)
    <3>1. reload' = [reload EXCEPT !.at = "pushAll", !.work = w1]
            \/ reload' = [reload EXCEPT !.at = "pushAll", !.work = {}]
      BY <1>12 DEF PushDone
    <3>2. w1 \in SUBSET Nodes /\ {} \in SUBSET Nodes
      OBVIOUS
    <3> HIDE DEF w1
    <3> QED
      BY <3>1, <3>2
  <2>2. reload.at = "push" /\ cfg' = cfg /\ job' = job
    BY <1>12 DEF PushDone
  <2>3. /\ reload' \in Reloads /\ reload'.count = reload.count /\ reload'.sess = NoSession
        /\ reload'.at = "pushAll" /\ reload'.work \subseteq Nodes
    BY <1>1, <1>10, <2>1, <2>2 DEF Reloads, ReloadPhases
  <2>4. WorkIsDue'
    BY <2>3 DEF WorkIsDue
  <2> QED
    BY <1>1, <1>5, <2>2, <2>3, <2>4
<1>13. CASE ReloadEnds
  <2>1. reload' = [NoReload EXCEPT !.count = reload.count] /\ cfg' = cfg /\ job' = job
    BY <1>13 DEF ReloadEnds
  <2>2. reload.count \in 0..MaxReloads
    BY ReloadIsCounted
  <2>3. reload' = [at |-> "idle", old |-> InitConfig, next |-> InitConfig, work |-> {},
                   node |-> NoNode, sess |-> NoSession, count |-> reload.count]
    BY <2>1 DEF NoReload
  <2>4. /\ reload' \in Reloads /\ reload'.count = reload.count /\ reload'.sess = NoSession
        /\ reload'.at = "idle"
    BY <2>2, <2>3, InitAssumption DEF Reloads, ReloadPhases
  <2>5. WorkIsDue'
    BY <2>4 DEF WorkIsDue
  <2> QED
    BY <1>1, <1>5, <2>1, <2>4, <2>5
<1> QED
  BY <1>6, <1>7, <1>8, <1>9, <1>11, <1>12, <1>13

-----------------------------------------------------------------------------
\* Drainers and the shutdown.

\* A drainer moves on, or goes, and may stop listeners or close its session.
LEMMA DrainerInv ==
    ASSUME LInv, NEW d \in drainers, DrainerStep(d)
    PROVE  LInv'
<1>1. /\ UNCHANGED <<cfg, live, handlerVars, draining, job, reload, shutdown>>
      /\ d \in Drainers /\ draining[d.sess] /\ drainers \in SUBSET Drainers
      /\ items \in [Ports -> Nodes \cup {NoNode}] /\ closed \in [Handlers -> BOOLEAN]
      /\ \A e \in drainers : draining[e.sess]
  BY DEF LInv, TypeOK, Shapes, ClosersDrained, DrainerStep, DrainerWaited, DrainerStopsNode,
         DrainerCloses, sessionVars
<1>2. drainers' \in SUBSET Drainers /\ \A e \in drainers' : draining[e.sess]
  <2> DEFINE moved(step) == [d EXCEPT !.step = step]
  <2>1. \A step \in {"stopping", "closing"} :
          moved(step) \in Drainers /\ moved(step).sess = d.sess
    BY <1>1 DEF Drainers
  <2>2. \/ drainers' = (drainers \ {d}) \cup {moved("stopping")}
        \/ drainers' = (drainers \ {d}) \cup {moved("closing")}
        \/ drainers' = drainers \ {d}
    BY DEF DrainerStep, DrainerWaited, DrainerStopsNode, DrainerCloses
  <2> HIDE DEF moved
  <2> QED
    BY <1>1, <2>1, <2>2
<1>3. /\ items' \in [Ports -> Nodes \cup {NoNode}]
      /\ closed' \in [Handlers -> BOOLEAN]
  <2>1. CASE StopNode(d.node) /\ closed' = closed
    BY <1>1, <2>1, StopKeepsTypes
  <2>2. CASE items' = items /\ closed' = [closed EXCEPT ![d.sess] = TRUE]
    BY <1>1, <2>2
  <2>3. CASE items' = items /\ closed' = closed
    BY <1>1, <2>3
  <2> QED
    BY <2>1, <2>2, <2>3 DEF DrainerStep, DrainerWaited, DrainerStopsNode, DrainerCloses,
                            sessionVars
<1>4. reload.count > 0
  <2>1. reload.count # 0
    BY DEF LInv, NoReloadYet
  <2> QED
    BY <2>1, ReloadIsCounted
<1>5. TypeOK' /\ Shapes'
  BY <1>1, <1>2, <1>3 DEF LInv, TypeOK, Shapes, handlerVars, NodeOf, Drainers
<1>6. /\ JobsKnowTheirPort' /\ WorkIsDue' /\ SessionIsConcerned' /\ Registration'
      /\ OwnPortsOnly'
  BY <1>1 DEF LInv, JobsKnowTheirPort, WorkIsDue, SessionIsConcerned, Registration,
              OwnPortsOnly, handlerVars, NodeOf
<1>7. ClosersDrained'
  BY <1>1, <1>2 DEF LInv, ClosersDrained
<1>8. NoReloadYet' /\ ListenersAreServed'
  BY <1>1, <1>4 DEF NoReloadYet, ListenersAreServed
<1> QED
  BY <1>5, <1>6, <1>7, <1>8 DEF LInv

\* Every step of the shutdown keeps the invariant.
LEMMA ShutdownInv ==
    ASSUME LInv, ShutdownStep
    PROVE  LInv'
<1>1. /\ shutdown \in Shutdowns /\ shutdown.sessions \subseteq Handlers
      /\ items \in [Ports -> Nodes \cup {NoNode}]
      /\ live \in [Nodes -> Handlers \cup {NoSession}]
      /\ closed \in [Handlers -> BOOLEAN] /\ draining \in [Handlers -> BOOLEAN]
  BY DEF LInv, TypeOK, Shapes, Shutdowns
<1>2. ASSUME NEW to \in {"stopped", "closed", "exited"},
             shutdown' = [shutdown EXCEPT !.at = to]
      PROVE  shutdown' \in Shutdowns /\ shutdown'.at # "draining"
  BY <1>1, <1>2 DEF Shutdowns
<1>3. CASE ShutdownBegins \/ ShutdownExits
  <2>1. shutdown' \in Shutdowns /\ shutdown'.at # "draining"
    BY <1>2, <1>3 DEF ShutdownBegins, ShutdownExits
  <2>2. /\ items' = [p \in Ports |-> NoNode]
        /\ UNCHANGED <<cfg, live, handlerVars, sessionVars, job, reload, drainers>>
    BY <1>3 DEF ShutdownBegins, ShutdownExits
  <2>3. items' \in [Ports -> Nodes \cup {NoNode}]
        /\ \A p \in Ports : items'[p] # NoNode => items'[p] = items[p]
    BY <2>2
  <2> QED
    BY <2>1, <2>2, <2>3, StopsInv
<1>4. CASE ShutdownCloses
  <2>1. shutdown' \in Shutdowns /\ shutdown'.at # "draining"
    BY <1>2, <1>4 DEF ShutdownCloses
  <2>2. closed' \in [Handlers -> BOOLEAN]
    BY <1>1, <1>4 DEF ShutdownCloses
  <2> QED
    BY <1>4, <2>1, <2>2, CloseInv DEF ShutdownCloses
<1>5. CASE ShutdownDrains
  <2> DEFINE named == {live[n] : n \in Nodes} \ {NoSession}
  <2>1. /\ shutdown' = [at |-> "draining", sessions |-> named]
        /\ draining' = [h \in Handlers |-> draining[h] \/ h \in named]
        /\ UNCHANGED <<cfg, live, items, handlerVars, closed, job, reload, drainers>>
    BY <1>5 DEF ShutdownDrains
  <2>2. named \subseteq Handlers
    BY <1>1
  <2> HIDE DEF named
  <2>3. /\ shutdown' \in Shutdowns /\ draining' \in [Handlers -> BOOLEAN]
        /\ \A h \in Handlers : draining[h] => draining'[h]
        /\ \A h \in named : draining'[h]
        /\ shutdown'.sessions = named
    BY <1>1, <2>1, <2>2 DEF Shutdowns
  <2>4. TypeOK' /\ Shapes'
    BY <2>1, <2>3 DEF LInv, TypeOK, Shapes, handlerVars, NodeOf
  <2>5. /\ JobsKnowTheirPort' /\ WorkIsDue' /\ Registration' /\ OwnPortsOnly' /\ NoReloadYet'
        /\ ListenersAreServed'
    BY <2>1 DEF LInv, JobsKnowTheirPort, WorkIsDue, Registration, OwnPortsOnly, NoReloadYet,
                ListenersAreServed, handlerVars, NodeOf
  <2>6. SessionIsConcerned'
    <3>1. reload.sess # NoSession => reload.sess \in Handlers
      BY DEF LInv, Shapes, Reloads
    <3> QED
      BY <2>1, <2>3, <3>1 DEF LInv, SessionIsConcerned, handlerVars, NodeOf
  <2>7. ClosersDrained'
    <3>1. \A d \in drainers : d.sess \in Handlers
      BY DEF LInv, TypeOK
    <3> QED
      BY <2>1, <2>3, <3>1 DEF LInv, ClosersDrained
  <2> QED
    BY <2>4, <2>5, <2>6, <2>7 DEF LInv
<1> QED
  BY <1>3, <1>4, <1>5 DEF ShutdownStep

-----------------------------------------------------------------------------
\* The theorems.

\* The server starts with nobody registered and nothing to do.
LEMMA InitInv == Init => LInv
<1> SUFFICES ASSUME Init PROVE LInv
  OBVIOUS
<1>1. NoJob \in Jobs /\ NoJob.todo = {} /\ NoJob.step = "idle"
  BY DEF NoJob, Jobs
<1>2. /\ NoReload \in Reloads /\ NoReload.at = "idle" /\ NoReload.sess = NoSession
      /\ NoReload.count = 0
  BY InitAssumption DEF NoReload, Reloads, ReloadPhases
<1>3. \A c \in Callers : job[c] = NoJob
  BY DEF Init
<1>4. TypeOK
  <2>1. /\ cfg \in Configs /\ live \in [Nodes -> Handlers \cup {NoSession}]
        /\ items \in [Ports -> Nodes \cup {NoNode}] /\ lost \in [Handlers -> BOOLEAN]
        /\ closed \in [Handlers -> BOOLEAN] /\ draining \in [Handlers -> BOOLEAN]
    BY InitAssumption DEF Init
  <2>2. at \in [Handlers -> Phases] /\ \A h \in Handlers : at[h] = "idle"
    BY DEF Init, Phases
  <2>3. \A c \in Callers : job[c].todo \subseteq Ports \X Nodes
    BY <1>1, <1>3
  <2>4. reload.count \in 0..MaxReloads /\ drainers = {}
    BY <1>2, InitAssumption DEF Init
  <2> QED
    BY <2>1, <2>2, <2>3, <2>4 DEF TypeOK
<1>5. Shapes
  BY <1>1, <1>2 DEF Init, Shapes, Shutdowns
<1>6. JobsKnowTheirPort /\ WorkIsDue /\ SessionIsConcerned /\ NoReloadYet
  BY <1>1, <1>2, <1>3 DEF Init, JobsKnowTheirPort, WorkIsDue, SessionIsConcerned, NoReloadYet,
                          Callers
<1>7. ClosersDrained
  BY DEF Init, ClosersDrained
<1>8. Registration
  BY DEF Init, Registration, Registered
<1>9. OwnPortsOnly
  BY <1>1, <1>3 DEF OwnPortsOnly, Callers
<1>10. ListenersAreServed
  BY DEF Init, ListenersAreServed
<1> QED
  BY <1>4, <1>5, <1>6, <1>7, <1>8, <1>9, <1>10 DEF LInv

\* The invariant is about variables of the module only.
LEMMA StutterInv ==
    ASSUME LInv, UNCHANGED vars
    PROVE  LInv'
<1>1. closed' \in [Handlers -> BOOLEAN] /\ shutdown' \in Shutdowns
  BY DEF LInv, TypeOK, Shapes, vars, sessionVars
<1> QED
  BY <1>1, CloseInv DEF vars, sessionVars

\* Every step of a handler keeps the invariant.
LEMMA HandlerInv ==
    ASSUME LInv, NEW h \in Handlers, HandlerStep(h)
    PROVE  LInv'
<1>1. CASE BuildSession(h) \/ WelcomeFails(h) \/ Serve(h) \/ ControlEnds(h)
  BY <1>1, QuietHandlerInv
<1>2. CASE Register(h)
  BY <1>2, QuietHandlerInv, RegisterInv
<1>3. CASE StartPort(h)
  BY <1>3, StartPortInv DEF Callers
<1>4. CASE Authenticate(h) \/ Welcome(h) \/ PingFails(h)
  BY <1>4, AuthenticateInv, WelcomeInv, PingInv
<1>5. CASE TeardownPorts(h) \/ TeardownRegistration(h) \/ TeardownSession(h)
  BY <1>5, TeardownPortsInv, TeardownRegistrationInv, TeardownSessionInv
<1> QED
  BY <1>1, <1>2, <1>3, <1>4, <1>5 DEF HandlerStep

\* Every step of a reload under way keeps the invariant.
LEMMA ReloadInv ==
    ASSUME LInv, ReloadStep
    PROVE  LInv'
<1>1. CASE DrainMarks \/ KeyLookup
  BY <1>1, DrainMarksInv, KeyLookupInv
<1>2. CASE DrainStops \/ KeyStopsPorts \/ KeyCloses \/ RemovePort
  BY <1>2, ReloadListenersInv
<1>3. CASE StartPort(Reloader)
  BY <1>3, StartPortInv DEF Callers
<1>4. CASE \/ RemoveNodesDone \/ ChangeKeysDone \/ Publish \/ AddPortsDone
           \/ PushConfig \/ PushDone \/ ReloadEnds
  BY <1>4, ReloaderStepInv
<1> QED
  BY <1>1, <1>2, <1>3, <1>4 DEF ReloadStep

\* The parts of the invariant hold together.
THEOREM Invariant == Spec => []LInv
<1>1. LInv /\ [Next]_vars => LInv'
  <2> SUFFICES ASSUME LInv, [Next]_vars PROVE LInv'
    OBVIOUS
  <2>1. CASE \E h \in Handlers : HandlerStep(h)
    BY <2>1, HandlerInv
  <2>2. CASE ReloadBegins \/ ReloadStep
    BY <2>2, ReloadBeginsInv, ReloadInv
  <2>3. CASE \E d \in drainers : DrainerStep(d)
    BY <2>3, DrainerInv
  <2>4. CASE ShutdownStep
    BY <2>4, ShutdownInv
  <2>5. CASE UNCHANGED vars
    BY <2>5, StutterInv
  <2> QED
    BY <2>1, <2>2, <2>3, <2>4, <2>5 DEF Next
<1> QED
  BY InitInv, <1>1, PTL DEF Spec

\* Every variable keeps its type.
THEOREM TypeCorrect == Spec => []TypeOK
<1>1. LInv => TypeOK
  BY DEF LInv
<1> QED
  BY Invariant, <1>1, PTL

\* Register refuses a second session of a node and Unregister removes only the
\* caller's own: between them a handler is the node's registered session.
THEOREM RegistrationsMatch == Spec => []RegistrationMatchesHandlers
<1>1. LInv => RegistrationMatchesHandlers
  <2> SUFFICES ASSUME LInv, NEW h \in Handlers
               PROVE  at[h] \in Registered <=> \E n \in Nodes : live[n] = h
    BY DEF RegistrationMatchesHandlers
  <2>1. ASSUME at[h] \in Registered PROVE \E n \in Nodes : live[n] = h
    BY <2>1 DEF LInv, Registration, TypeOK, Registered
  <2>2. ASSUME NEW n \in Nodes, live[n] = h PROVE at[h] \in Registered
    BY <2>2, NamesAssumption DEF LInv, Registration
  <2> QED
    BY <2>1, <2>2
<1> QED
  BY Invariant, <1>1, PTL

\* StartNode after Register, StopNode before Unregister: without a reload no
\* listener outlives the registration of its node.
THEOREM ListenersAreOnline == Spec => []ListenerOnlyWhileOnline
<1>1. LInv => ListenerOnlyWhileOnline
  BY DEF LInv, ListenersAreServed, ListenerOnlyWhileOnline
<1> QED
  BY Invariant, <1>1, PTL

\* What a step may close or make to drain, whatever reloads, drainers of earlier
\* reloads, teardowns and a shutdown are under way.
THEOREM UnaffectedStayOpen == Spec => UnaffectedSessionStaysOpen
<1> DEFINE Closes(h) == ~closed[h] /\ closed'[h]
           Drains(h) == ~draining[h] /\ draining'[h]
           MayClose(h) ==
             \/ PingFails(h) \/ TeardownSession(h)
             \/ draining[h]
             \/ /\ reload.at = "disconnect"
                /\ NodeOf(h) \in KeyChangedNodes(reload.old, reload.next)
           MayDrain(h) ==
             \/ shutdown.at = "stopped"
             \/ /\ reload.at = "removeNodes"
                /\ NodeOf(h) \in RemovedNodes(reload.old, reload.next)
           Allowed == \A h \in Handlers : /\ Closes(h) => MayClose(h)
                                          /\ Drains(h) => MayDrain(h)
<1>1. ASSUME LInv, Next PROVE Allowed
  <2>1. closed \in [Handlers -> BOOLEAN] /\ draining \in [Handlers -> BOOLEAN]
    BY <1>1 DEF LInv, TypeOK
  <2>2. ASSUME UNCHANGED sessionVars PROVE Allowed
    BY <2>2 DEF sessionVars
  <2>3. CASE \E g \in Handlers : PingFails(g) \/ TeardownSession(g)
    <3>1. PICK g \in Handlers : PingFails(g) \/ TeardownSession(g)
      BY <2>3
    <3>2. closed' = [closed EXCEPT ![g] = TRUE] /\ draining' = draining
      BY <3>1 DEF PingFails, TeardownSession
    <3>3. \A h \in Handlers : Closes(h) => h = g
      BY <2>1, <3>2
    <3> HIDE DEF Closes
    <3> QED
      BY <3>1, <3>2, <3>3
  <2>4. CASE KeyCloses
    <3>1. /\ reload.at = "disconnect" /\ draining' = draining
          /\ closed' = [closed EXCEPT ![reload.sess] = TRUE]
      BY <2>4 DEF KeyCloses
    <3>2. reload.sess # NoSession =>
            NodeOf(reload.sess) \in KeyChangedNodes(reload.old, reload.next)
      BY <1>1, <3>1 DEF LInv, SessionIsConcerned
    <3>3. \A h \in Handlers : Closes(h) => h = reload.sess /\ h # NoSession
      BY <2>1, <3>1, NamesAssumption
    <3> HIDE DEF Closes
    <3> QED
      BY <3>1, <3>2, <3>3
  <2>5. CASE \E d \in drainers : DrainerCloses(d)
    <3>1. PICK d \in drainers : DrainerCloses(d)
      BY <2>5
    <3>2. /\ closed' = [closed EXCEPT ![d.sess] = TRUE] /\ draining' = draining
          /\ draining[d.sess]
      BY <1>1, <3>1 DEF DrainerCloses, LInv, ClosersDrained
    <3>3. \A h \in Handlers : Closes(h) => h = d.sess
      BY <2>1, <3>2
    <3> HIDE DEF Closes
    <3> QED
      BY <3>2, <3>3
  <2>6. CASE ShutdownCloses
    <3>1. /\ closed' = [h \in Handlers |-> closed[h] \/ h \in shutdown.sessions]
          /\ draining' = draining /\ \A h \in shutdown.sessions : draining[h]
      BY <1>1, <2>6 DEF ShutdownCloses, LInv, ClosersDrained
    <3>2. \A h \in Handlers : Closes(h) => h \in shutdown.sessions
      BY <3>1
    <3> HIDE DEF Closes
    <3> QED
      BY <3>1, <3>2
  <2>7. CASE DrainMarks
    <3>1. PICK n \in reload.work : draining' = [h \in Handlers |-> draining[h] \/ h = live[n]]
      BY <2>7 DEF DrainMarks
    <3>2. reload.at = "removeNodes" /\ closed' = closed
      BY <2>7 DEF DrainMarks, Busy
    <3>3. n \in RemovedNodes(reload.old, reload.next) /\ n \in Nodes
      <4>1. reload.old \in Configs /\ reload.next \in Configs
        BY <1>1 DEF LInv, Shapes, Reloads
      <4> QED
        BY <1>1, <3>2, <4>1, DiffTypes DEF LInv, WorkIsDue
    <3>4. \A h \in Handlers : Drains(h) => h = live[n]
      BY <3>1
    <3>5. \A h \in Handlers : h = live[n] => NodeOf(h) = n
      BY <1>1, <3>3, NamesAssumption DEF LInv, Registration
    <3> HIDE DEF Drains
    <3> QED
      BY <3>2, <3>3, <3>4, <3>5
  <2>8. CASE ShutdownDrains
    BY <2>8 DEF ShutdownDrains
  <2>9. CASE /\ ~\E g \in Handlers : PingFails(g) \/ TeardownSession(g)
             /\ ~KeyCloses /\ ~\E d \in drainers : DrainerCloses(d)
             /\ ~ShutdownCloses /\ ~DrainMarks /\ ~ShutdownDrains
    <3>1. CASE \E h \in Handlers : HandlerStep(h)
      <4>1. PICK h \in Handlers : HandlerStep(h)
        BY <3>1
      <4>2. UNCHANGED sessionVars
        BY <2>9, <4>1 DEF HandlerStep, Authenticate, BuildSession, Register, WelcomeFails,
             Welcome, StartPort, StartPortChecks, StartPortInserts, StartPortEvicts,
             StartPortOverwrites, Serve, ControlEnds, TeardownPorts, TeardownRegistration
      <4> QED
        BY <2>2, <4>2
    <3>2. CASE ReloadBegins \/ ReloadStep
      <4>1. UNCHANGED sessionVars
        BY <2>9, <3>2 DEF ReloadBegins, ReloadStep, DrainStops, RemoveNodesDone, KeyLookup,
             KeyStopsPorts, ChangeKeysDone, RemovePort, Publish, StartPort, StartPortChecks,
             StartPortInserts, StartPortEvicts, StartPortOverwrites, AddPortsDone, PushConfig,
             PushDone, ReloadEnds
      <4> QED
        BY <2>2, <4>1
    <3>3. CASE \E d \in drainers : DrainerStep(d)
      <4>1. UNCHANGED sessionVars
        BY <2>9, <3>3 DEF DrainerStep, DrainerWaited, DrainerStopsNode
      <4> QED
        BY <2>2, <4>1
    <3>4. CASE ShutdownStep
      <4>1. UNCHANGED sessionVars
        BY <2>9, <3>4 DEF ShutdownStep, ShutdownBegins, ShutdownExits
      <4> QED
        BY <2>2, <4>1
    <3> QED
      BY <1>1, <3>1, <3>2, <3>3, <3>4 DEF Next
  <2> QED
    BY <2>3, <2>4, <2>5, <2>6, <2>7, <2>8, <2>9
<1>2. LInv /\ [Next]_vars => [Allowed]_vars
  BY <1>1
<1>3. Spec => [][Allowed]_vars
  BY Invariant, <1>2, PTL DEF Spec
<1> QED
  BY <1>3 DEF UnaffectedSessionStaysOpen

-----------------------------------------------------------------------------
\* Whoever drains will be closed.

\* Who still has to close a session.
Closer(h) ==
    \/ reload.at = "removeNodes" /\ reload.sess = h
    \/ \E d \in drainers : d.sess = h
    \/ shutdown.at = "draining" /\ h \in shutdown.sessions

\* Nothing is left to close when the process has exited.
ExitIsLast ==
    /\ shutdown.at = "exited" => reload.at = "idle" /\ drainers = {}
    /\ \A h \in Handlers : draining[h] /\ ~closed[h] => Closer(h)

\* The reload: it marks a session and stays with it, hands it to a drainer, or
\* looks up another one when it has none.
LEMMA ReloadLeavesCloser ==
    ASSUME LInv, ExitIsLast, ReloadBegins \/ ReloadStep
    PROVE  ExitIsLast'
<1>1. /\ closed \in [Handlers -> BOOLEAN] /\ draining \in [Handlers -> BOOLEAN]
      /\ reload \in Reloads
  BY DEF LInv, TypeOK, Shapes
<1>2. shutdown' = shutdown
  BY DEF ReloadBegins, ReloadStep, DrainMarks, DrainStops, RemoveNodesDone, KeyLookup,
       KeyStopsPorts, KeyCloses, ChangeKeysDone, RemovePort, Publish, StartPort,
       StartPortChecks, StartPortInserts, StartPortEvicts, StartPortOverwrites, AddPortsDone,
       PushConfig, PushDone, ReloadEnds
<1>3. shutdown.at = "exited" => reload'.at = "idle" /\ drainers' = {}
  <2> SUFFICES ASSUME shutdown.at = "exited" PROVE reload'.at = "idle" /\ drainers' = {}
    OBVIOUS
  <2>1. reload.at = "idle" /\ drainers = {} /\ ~Up
    BY DEF ExitIsLast, Up
  <2> QED
    BY <2>1 DEF Busy, ReloadBegins, ReloadStep, DrainMarks, DrainStops, RemoveNodesDone,
         KeyLookup, KeyStopsPorts, KeyCloses, ChangeKeysDone, RemovePort, Publish, StartPort,
         StartPortChecks, StartPortInserts, StartPortEvicts, StartPortOverwrites, AddPortsDone,
         PushConfig, PushDone, ReloadEnds
<1>4. \A h \in Handlers : draining'[h] /\ ~closed'[h] => Closer(h)'
  <2>1. CASE DrainMarks
    <3>1. PICK n \in reload.work :
            /\ reload' = [reload EXCEPT !.work = @ \ {n}, !.node = n, !.sess = live[n]]
            /\ draining' = [h \in Handlers |-> draining[h] \/ h = live[n]]
      BY <2>1 DEF DrainMarks
    <3>2. /\ reload.at = "removeNodes" /\ reload.sess = NoSession
          /\ closed' = closed /\ drainers' = drainers
      BY <2>1 DEF DrainMarks, Busy
    <3>3. reload'.at = "removeNodes" /\ reload'.sess = live[n]
      BY <1>1, <3>1, <3>2 DEF Reloads
    <3>4. ASSUME NEW h \in Handlers, draining'[h], ~closed'[h]
          PROVE  Closer(h)'
      <4>1. CASE h = live[n]
        BY <3>3, <4>1 DEF Closer
      <4>2. CASE h # live[n]
        <5>1. draining[h] /\ ~closed[h]
          BY <3>1, <3>2, <3>4, <4>2
        <5>2. Closer(h) /\ reload.sess # h
          BY <3>2, <5>1, NamesAssumption DEF ExitIsLast
        <5> QED
          BY <1>2, <3>2, <5>2 DEF Closer
      <4> QED
        BY <4>1, <4>2
    <3> QED
      BY <3>4
  <2>2. CASE DrainStops
    <3> DEFINE d == [node |-> reload.node, sess |-> reload.sess, reload |-> reload.count,
                     step |-> "waiting"]
    <3>1. /\ drainers' = drainers \cup {d} /\ d.sess = reload.sess
          /\ UNCHANGED <<closed, draining>>
      BY <2>2 DEF DrainStops, sessionVars
    <3> HIDE DEF d
    <3>2. \A h \in Handlers : Closer(h) => Closer(h)'
      BY <1>2, <3>1 DEF Closer
    <3> QED
      BY <3>1, <3>2 DEF ExitIsLast
  <2>3. CASE KeyCloses
    <3>1. /\ reload.at = "disconnect" /\ drainers' = drainers
          /\ closed' = [closed EXCEPT ![reload.sess] = TRUE] /\ draining' = draining
      BY <2>3 DEF KeyCloses
    <3>2. \A h \in Handlers : closed[h] => closed'[h]
      BY <1>1, <3>1
    <3>3. \A h \in Handlers : Closer(h) => Closer(h)'
      BY <1>2, <3>1 DEF Closer
    <3> QED
      BY <3>1, <3>2, <3>3 DEF ExitIsLast
  <2>4. CASE ~DrainMarks /\ ~DrainStops /\ ~KeyCloses
    <3>1. UNCHANGED <<closed, draining, drainers>>
      BY <2>4 DEF sessionVars, ReloadBegins, ReloadStep, RemoveNodesDone, KeyLookup,
           KeyStopsPorts, ChangeKeysDone, RemovePort, Publish, StartPort, StartPortChecks,
           StartPortInserts, StartPortEvicts, StartPortOverwrites, AddPortsDone, PushConfig,
           PushDone, ReloadEnds
    <3>2. reload.at = "removeNodes" /\ reload.sess # NoSession => reload' = reload
      BY <2>4 DEF Busy, ReloadBegins, ReloadStep, RemoveNodesDone, KeyLookup, KeyStopsPorts,
           ChangeKeysDone, RemovePort, Publish, StartPort, StartPortChecks, StartPortInserts,
           StartPortEvicts, StartPortOverwrites, AddPortsDone, PushConfig, PushDone,
           ReloadEnds
    <3>3. \A h \in Handlers : h # NoSession
      BY NamesAssumption
    <3>4. \A h \in Handlers : Closer(h) => Closer(h)'
      BY <1>2, <3>1, <3>2, <3>3 DEF Closer
    <3> QED
      BY <3>1, <3>4 DEF ExitIsLast
  <2> QED
    BY <2>1, <2>2, <2>3, <2>4
<1> QED
  BY <1>2, <1>3, <1>4 DEF ExitIsLast

\* A handler closes its own session only.
LEMMA HandlerLeavesCloser ==
    ASSUME LInv, ExitIsLast, NEW h \in Handlers, HandlerStep(h)
    PROVE  ExitIsLast'
<1>1. closed \in [Handlers -> BOOLEAN]
  BY DEF LInv, TypeOK
<1>2. UNCHANGED <<draining, reload, drainers, shutdown>>
  BY DEF HandlerStep, Authenticate, BuildSession, Register, WelcomeFails, Welcome, StartPort,
         StartPortChecks, StartPortInserts, StartPortEvicts, StartPortOverwrites, Serve,
         PingFails, ControlEnds, TeardownPorts, TeardownRegistration, TeardownSession,
         sessionVars
<1>3. closed' = closed \/ closed' = [closed EXCEPT ![h] = TRUE]
  BY DEF HandlerStep, Authenticate, BuildSession, Register, WelcomeFails, Welcome, StartPort,
         StartPortChecks, StartPortInserts, StartPortEvicts, StartPortOverwrites, Serve,
         PingFails, ControlEnds, TeardownPorts, TeardownRegistration, TeardownSession,
         sessionVars
<1>4. \A g \in Handlers : closed[g] => closed'[g]
  BY <1>1, <1>3
<1> QED
  BY <1>2, <1>4 DEF ExitIsLast, Closer

\* A drainer stays until it closes its session.
LEMMA DrainerLeavesCloser ==
    ASSUME LInv, ExitIsLast, NEW d \in drainers, DrainerStep(d)
    PROVE  ExitIsLast'
<1>1. closed \in [Handlers -> BOOLEAN] /\ d \in Drainers /\ d.sess \in Handlers
  BY DEF LInv, TypeOK, Shapes
<1>2. UNCHANGED <<draining, reload, shutdown>>
  BY DEF DrainerStep, DrainerWaited, DrainerStopsNode, DrainerCloses, sessionVars
<1>3. shutdown.at # "exited"
  BY DEF ExitIsLast
<1>4. CASE DrainerCloses(d)
  <2>1. closed' = [closed EXCEPT ![d.sess] = TRUE] /\ drainers' = drainers \ {d}
    BY <1>4 DEF DrainerCloses
  <2>2. \A h \in Handlers : closed[h] => closed'[h]
    BY <1>1, <2>1
  <2>3. closed'[d.sess]
    BY <1>1, <2>1
  <2>4. \A h \in Handlers : Closer(h) => Closer(h)' \/ closed'[h]
    BY <1>2, <2>1, <2>3 DEF Closer
  <2> QED
    BY <1>2, <1>3, <2>2, <2>4 DEF ExitIsLast
<1>5. ASSUME NEW step, drainers' = (drainers \ {d}) \cup {[d EXCEPT !.step = step]},
             closed' = closed
      PROVE  ExitIsLast'
  <2> DEFINE e == [d EXCEPT !.step = step]
  <2>1. e.sess = d.sess
    BY <1>1 DEF Drainers
  <2>2. drainers' = (drainers \ {d}) \cup {e}
    BY <1>5
  <2> HIDE DEF e
  <2>3. \A h \in Handlers : Closer(h) => Closer(h)'
    BY <1>2, <2>1, <2>2 DEF Closer
  <2> QED
    BY <1>2, <1>3, <1>5, <2>3 DEF ExitIsLast
<1> QED
  BY <1>4, <1>5 DEF DrainerStep, DrainerWaited, DrainerStopsNode, sessionVars

\* The shutdown closes whom it marked, and exits when the others are done.
LEMMA ShutdownLeavesCloser ==
    ASSUME LInv, ExitIsLast, ShutdownStep
    PROVE  ExitIsLast'
<1>1. /\ closed \in [Handlers -> BOOLEAN] /\ draining \in [Handlers -> BOOLEAN]
      /\ shutdown \in Shutdowns
  BY DEF LInv, TypeOK, Shapes
<1>2. UNCHANGED <<reload, drainers>>
  BY DEF ShutdownStep, ShutdownBegins, ShutdownDrains, ShutdownCloses, ShutdownExits
<1>3. CASE ShutdownBegins \/ ShutdownExits
  <2>1. /\ UNCHANGED <<closed, draining>> /\ shutdown.at # "draining"
        /\ shutdown'.at = "exited" => reload.at = "idle" /\ drainers = {}
    BY <1>1, <1>3 DEF ShutdownBegins, ShutdownExits, sessionVars, Shutdowns
  <2>2. \A h \in Handlers : Closer(h) => Closer(h)'
    BY <1>2, <2>1 DEF Closer
  <2> QED
    BY <1>2, <2>1, <2>2 DEF ExitIsLast
<1>4. CASE ShutdownDrains
  <2> DEFINE named == {live[n] : n \in Nodes} \ {NoSession}
  <2>1. /\ shutdown.at = "stopped"
        /\ shutdown' = [at |-> "draining", sessions |-> named]
        /\ draining' = [h \in Handlers |-> draining[h] \/ h \in named]
        /\ closed' = closed
    BY <1>4 DEF ShutdownDrains
  <2> HIDE DEF named
  <2>2. shutdown'.at = "draining" /\ shutdown'.sessions = named
    BY <2>1
  <2>3. ASSUME NEW h \in Handlers, draining'[h], ~closed'[h]
        PROVE  Closer(h)'
    <3>1. CASE h \in named
      BY <2>2, <3>1 DEF Closer
    <3>2. CASE h \notin named
      <4>1. draining[h] /\ ~closed[h]
        BY <2>1, <2>3, <3>2
      <4>2. Closer(h)
        BY <4>1 DEF ExitIsLast
      <4> QED
        BY <1>2, <2>1, <4>2 DEF Closer
    <3> QED
      BY <3>1, <3>2
  <2> QED
    BY <2>2, <2>3 DEF ExitIsLast
<1>5. CASE ShutdownCloses
  <2>1. /\ shutdown'.at = "closed" /\ draining' = draining
        /\ closed' = [h \in Handlers |-> closed[h] \/ h \in shutdown.sessions]
    BY <1>1, <1>5 DEF ShutdownCloses, Shutdowns
  <2>2. \A h \in Handlers : Closer(h) => Closer(h)' \/ closed'[h]
    BY <1>2, <2>1 DEF Closer
  <2>3. \A h \in Handlers : closed[h] => closed'[h]
    BY <2>1
  <2> QED
    BY <1>2, <2>1, <2>2, <2>3 DEF ExitIsLast
<1> QED
  BY <1>3, <1>4, <1>5 DEF ShutdownStep

\* No drain is abandoned, by overlapping reloads, their drainers or a shutdown, and
\* the process waits for all of them.
THEOREM DrainsAreFinished == Spec => []DrainHasCloser
<1>1. Init => ExitIsLast
  BY DEF Init, ExitIsLast
<1>2. LInv /\ ExitIsLast /\ [Next]_vars => ExitIsLast'
  <2> SUFFICES ASSUME LInv, ExitIsLast, [Next]_vars PROVE ExitIsLast'
    OBVIOUS
  <2>1. CASE UNCHANGED vars
    BY <2>1 DEF ExitIsLast, Closer, vars, sessionVars
  <2> QED
    BY <2>1, ReloadLeavesCloser, HandlerLeavesCloser, DrainerLeavesCloser,
       ShutdownLeavesCloser DEF Next
<1>3. ExitIsLast => DrainHasCloser
  BY DEF ExitIsLast, Closer, DrainHasCloser, Up
<1> QED
  BY <1>1, <1>2, <1>3, Invariant, PTL DEF Spec

-----------------------------------------------------------------------------
\* What a reload does to the sessions that are served.

\* s.cfg is the snapshot a reload compares with until it is replaced, and the new
\* one from then on: only the reload goroutine calls setConfig.
CfgFollowsReload ==
    /\ reload.at \in {"removeNodes", "changeKeys", "disconnect", "removePorts"} => cfg = reload.old
    /\ reload.at \in {"addPorts", "push", "pushAll"} => cfg = reload.next

\* A handler that has got as far as Register.
Past(h) == at[h] \in Registered \cup {"closing", "gone"}

\* Every handler has a place for the config of its session.
SentOfHandlers == DOMAIN sent = Handlers

\* Only serveControl and pushConfig write one.
LEMMA SentInv == Spec => []SentOfHandlers
<1>1. Init => SentOfHandlers
  BY DEF Init, SentOfHandlers
<1>2. SentOfHandlers /\ [Next]_vars => SentOfHandlers'
  <2> SUFFICES ASSUME SentOfHandlers, [Next]_vars PROVE SentOfHandlers'
    OBVIOUS
  <2>1. CASE UNCHANGED sent
    BY <2>1 DEF SentOfHandlers
  <2>2. CASE (\E h \in Handlers : BuildSession(h)) \/ PushConfig
    BY <2>2 DEF BuildSession, PushConfig, SentOfHandlers
  <2>3. CASE \E h \in Handlers : HandlerStep(h) /\ ~BuildSession(h)
    BY <2>1, <2>3 DEF HandlerStep, Authenticate, Register, WelcomeFails, Welcome,
         StartPort, StartPortChecks, StartPortInserts, StartPortEvicts, StartPortOverwrites,
         Serve, PingFails, ControlEnds, TeardownPorts, TeardownRegistration, TeardownSession,
         handlerVars
  <2>4. CASE ReloadBegins \/ (ReloadStep /\ ~PushConfig)
    BY <2>1, <2>4 DEF ReloadBegins, ReloadStep, DrainMarks, DrainStops, RemoveNodesDone,
         KeyLookup, KeyStopsPorts, KeyCloses, ChangeKeysDone, RemovePort, Publish, StartPort,
         StartPortChecks, StartPortInserts, StartPortEvicts, StartPortOverwrites,
         AddPortsDone, PushDone, ReloadEnds, handlerVars
  <2>5. CASE (\E d \in drainers : DrainerStep(d)) \/ ShutdownStep \/ UNCHANGED vars
    BY <2>1, <2>5 DEF DrainerStep, DrainerWaited, DrainerStopsNode, DrainerCloses,
         ShutdownStep, ShutdownBegins, ShutdownDrains, ShutdownCloses, ShutdownExits, vars,
         handlerVars
  <2> QED
    BY <2>2, <2>3, <2>4, <2>5 DEF Next
<1> QED
  BY <1>1, <1>2, PTL DEF Spec

\* The reload goes on with the snapshots it began with.
LEMMA CfgInv == Spec => []CfgFollowsReload
<1>1. Init => CfgFollowsReload
  BY DEF Init, NoReload, CfgFollowsReload
<1>2. LInv /\ CfgFollowsReload /\ [Next]_vars => CfgFollowsReload'
  <2> SUFFICES ASSUME LInv, CfgFollowsReload, [Next]_vars PROVE CfgFollowsReload'
    OBVIOUS
  <2>0. reload \in Reloads
    BY DEF LInv, Shapes
  <2>1. ASSUME UNCHANGED <<cfg, reload>> PROVE CfgFollowsReload'
    BY <2>1 DEF CfgFollowsReload
  <2>2. CASE \E h \in Handlers : HandlerStep(h)
    BY <2>1, <2>2 DEF HandlerStep, Authenticate, BuildSession, Register, WelcomeFails, Welcome,
         StartPort, StartPortChecks, StartPortInserts, StartPortEvicts, StartPortOverwrites,
         Serve, PingFails, ControlEnds, TeardownPorts, TeardownRegistration, TeardownSession
  <2>3. CASE ReloadBegins
    BY <2>3 DEF ReloadBegins, CfgFollowsReload
  <2>4. CASE Publish
    BY <2>0, <2>4 DEF Publish, Busy, Reloads, CfgFollowsReload
  <2>5. CASE ReloadEnds
    BY <2>0, <2>5 DEF ReloadEnds, NoReload, Reloads, CfgFollowsReload
  <2>6. CASE \/ DrainMarks \/ DrainStops \/ RemoveNodesDone
             \/ KeyLookup \/ KeyStopsPorts \/ KeyCloses
    BY <2>0, <2>6 DEF DrainMarks, DrainStops, RemoveNodesDone, KeyLookup, KeyStopsPorts,
         KeyCloses, Busy, Reloads, CfgFollowsReload
  <2>7. CASE ChangeKeysDone \/ RemovePort \/ AddPortsDone \/ PushConfig \/ PushDone
    BY <2>0, <2>7 DEF ChangeKeysDone, RemovePort, AddPortsDone, PushConfig, PushDone,
         Busy, Reloads, CfgFollowsReload
  <2>8. CASE StartPort(Reloader)
    BY <2>1, <2>8 DEF StartPort, StartPortChecks, StartPortInserts, StartPortEvicts,
         StartPortOverwrites
  <2>9. CASE \E d \in drainers : DrainerStep(d)
    BY <2>1, <2>9 DEF DrainerStep, DrainerWaited, DrainerStopsNode, DrainerCloses
  <2>10. CASE ShutdownStep
    BY <2>1, <2>10 DEF ShutdownStep, ShutdownBegins, ShutdownDrains, ShutdownCloses,
         ShutdownExits
  <2>11. CASE UNCHANGED vars
    BY <2>1, <2>11 DEF vars
  <2> QED
    BY <2>2, <2>3, <2>4, <2>5, <2>6, <2>7, <2>8, <2>9, <2>10, <2>11 DEF Next, ReloadStep
<1> QED
  BY <1>1, <1>2, Invariant, PTL DEF Spec

\* A client that lost a message has lost it for good.
LEMMA LossIsForGood ==
    ASSUME LInv, [Next]_vars, NEW h \in Handlers, lost[h]
    PROVE  lost'[h]
<1>1. CASE PushConfig
  BY <1>1 DEF PushConfig, LInv, TypeOK
<1>2. CASE \E g \in Handlers : HandlerStep(g)
  BY <1>2 DEF HandlerStep, Authenticate, BuildSession, Register, WelcomeFails, Welcome,
       StartPort, StartPortChecks, StartPortInserts, StartPortEvicts, StartPortOverwrites,
       Serve, PingFails, ControlEnds, TeardownPorts, TeardownRegistration, TeardownSession,
       handlerVars
<1>3. CASE ReloadBegins \/ (ReloadStep /\ ~PushConfig)
  BY <1>3 DEF ReloadBegins, ReloadStep, DrainMarks, DrainStops, RemoveNodesDone, KeyLookup,
       KeyStopsPorts, KeyCloses, ChangeKeysDone, RemovePort, Publish, StartPort,
       StartPortChecks, StartPortInserts, StartPortEvicts, StartPortOverwrites,
       AddPortsDone, PushDone, ReloadEnds, handlerVars
<1>4. CASE (\E d \in drainers : DrainerStep(d)) \/ ShutdownStep \/ UNCHANGED vars
  BY <1>4 DEF DrainerStep, DrainerWaited, DrainerStopsNode, DrainerCloses, ShutdownStep,
       ShutdownBegins, ShutdownDrains, ShutdownCloses, ShutdownExits, vars, handlerVars
<1> QED
  BY <1>1, <1>2, <1>3, <1>4 DEF Next

\* A session that was served and is not any more never is again, its node is the
\* same for good, and only pushConfig changes what its client was sent.
LEMMA SessionsOnlyEnd ==
    ASSUME LInv, SentOfHandlers, [Next]_vars, NEW h \in Handlers, Past(h)
    PROVE  /\ Past(h)'
           /\ NodeOf(h)' = NodeOf(h)
           /\ Served(h)' => Served(h)
           /\ Reached(h)' => Reached(h)
           /\ PushConfig \/ sent'[h] = sent[h]
<1> DEFINE Goal == /\ Past(h)' /\ NodeOf(h)' = NodeOf(h) /\ (Served(h)' => Served(h))
                   /\ (PushConfig \/ sent'[h] = sent[h])
<1>0. lost[h] => lost'[h]
  BY LossIsForGood
<1> SUFFICES Goal
  BY <1>0 DEF Reached
<1>1. /\ at \in [Handlers -> Phases] /\ spec \in [Handlers -> Nodes \cup {NoNode}]
      /\ closed \in [Handlers -> BOOLEAN] /\ draining \in [Handlers -> BOOLEAN]
  BY DEF LInv, TypeOK, Shapes
<1>2. ASSUME UNCHANGED <<at, spec>>, PushConfig \/ sent' = sent,
             closed'[h] \/ closed'[h] = closed[h], draining'[h] \/ draining'[h] = draining[h]
      PROVE  Goal
  BY <1>2 DEF Past, NodeOf, Served
<1>3. CASE \E g \in Handlers : HandlerStep(g)
  <2>1. PICK g \in Handlers : HandlerStep(g)
    BY <1>3
  <2>2. CASE Authenticate(g) \/ BuildSession(g) \/ Register(g)
    <3>1. g # h
      BY <2>2 DEF Authenticate, BuildSession, Register, In, Past, Registered
    <3>2. UNCHANGED <<closed, draining>>
      BY <2>2 DEF Authenticate, BuildSession, Register, sessionVars
    <3>3. at'[h] = at[h]
      BY <1>1, <2>2, <3>1 DEF Authenticate, BuildSession, Register
    <3>4. spec'[h] = spec[h]
      BY <1>1, <2>2, <3>1 DEF Authenticate, BuildSession, Register
    <3>5. sent'[h] = sent[h]
      BY <2>2, <3>1 DEF Authenticate, BuildSession, Register, SentOfHandlers
    <3> QED
      BY <3>2, <3>3, <3>4, <3>5 DEF Past, NodeOf, Served
  <2>3. CASE PingFails(g)
    BY <1>1, <1>2, <2>3 DEF PingFails, handlerVars
  <2>4. CASE StartPort(g)
    BY <1>1, <1>2, <2>4 DEF StartPort, StartPortChecks, StartPortInserts, StartPortEvicts,
         StartPortOverwrites, handlerVars, sessionVars
  <2>5. CASE \/ WelcomeFails(g) \/ Welcome(g) \/ Serve(g) \/ ControlEnds(g) \/ TeardownPorts(g)
             \/ TeardownRegistration(g)
    <3>1. UNCHANGED <<spec, sent, lost, closed, draining>>
      BY <2>5 DEF WelcomeFails, Welcome, Serve, ControlEnds, TeardownPorts,
           TeardownRegistration, sessionVars
    <3>2. PICK p \in {"starting", "serving", "stopping", "unregistering", "closing"} :
            at' = [at EXCEPT ![g] = p]
      BY <2>5 DEF WelcomeFails, Welcome, Serve, ControlEnds, TeardownPorts,
           TeardownRegistration
    <3>3. Past(h)' /\ NodeOf(h)' = NodeOf(h)
      BY <1>1, <3>1, <3>2 DEF Past, NodeOf, Registered
    <3>4. ASSUME p \in {"starting", "serving"} PROVE at[g] \in {"registered", "starting"}
      BY <1>1, <2>5, <3>2, <3>4 DEF WelcomeFails, Welcome, Serve, ControlEnds, TeardownPorts,
           TeardownRegistration, In
    <3>5. Served(h)' => Served(h)
      BY <1>1, <3>1, <3>2, <3>4 DEF Served
    <3> QED
      BY <3>1, <3>3, <3>5
  <2>6. CASE TeardownSession(g)
    <3>1. /\ UNCHANGED <<spec, sent, lost, draining>> /\ at' = [at EXCEPT ![g] = "gone"]
          /\ closed' = [closed EXCEPT ![g] = TRUE]
      BY <2>6 DEF TeardownSession
    <3> QED
      BY <1>1, <3>1 DEF Past, NodeOf, Served
  <2> QED
    BY <2>1, <2>2, <2>3, <2>4, <2>5, <2>6 DEF HandlerStep
<1>4. CASE ReloadBegins \/ ReloadStep
  <2>1. UNCHANGED <<at, spec>>
    BY <1>4 DEF ReloadBegins, ReloadStep, DrainMarks, DrainStops, RemoveNodesDone, KeyLookup,
         KeyStopsPorts, KeyCloses, ChangeKeysDone, RemovePort, Publish, StartPort,
         StartPortChecks, StartPortInserts, StartPortEvicts, StartPortOverwrites,
         AddPortsDone, PushConfig, PushDone, ReloadEnds, handlerVars
  <2>2. PushConfig \/ sent' = sent
    BY <1>4 DEF ReloadBegins, ReloadStep, DrainMarks, DrainStops, RemoveNodesDone, KeyLookup,
         KeyStopsPorts, KeyCloses, ChangeKeysDone, RemovePort, Publish, StartPort,
         StartPortChecks, StartPortInserts, StartPortEvicts, StartPortOverwrites,
         AddPortsDone, PushDone, ReloadEnds, handlerVars
  <2>3. CASE DrainMarks
    BY <1>1, <1>2, <2>1, <2>2, <2>3 DEF DrainMarks
  <2>4. CASE KeyCloses
    BY <1>1, <1>2, <2>1, <2>2, <2>4 DEF KeyCloses
  <2>5. CASE UNCHANGED sessionVars
    BY <1>2, <2>1, <2>2, <2>5 DEF sessionVars
  <2> QED
    BY <1>4, <2>3, <2>4, <2>5 DEF ReloadBegins, ReloadStep, DrainStops, RemoveNodesDone,
         KeyLookup, KeyStopsPorts, ChangeKeysDone, RemovePort, Publish, StartPort,
         StartPortChecks, StartPortInserts, StartPortEvicts, StartPortOverwrites,
         AddPortsDone, PushConfig, PushDone, ReloadEnds
<1>5. CASE \E d \in drainers : DrainerStep(d)
  <2>1. PICK d \in drainers : DrainerStep(d)
    BY <1>5
  <2>2. UNCHANGED <<at, spec, sent, lost, draining>>
    BY <2>1 DEF DrainerStep, DrainerWaited, DrainerStopsNode, DrainerCloses, handlerVars,
         sessionVars
  <2>3. closed'[h] \/ closed'[h] = closed[h]
    BY <1>1, <2>1 DEF DrainerStep, DrainerWaited, DrainerStopsNode, DrainerCloses, sessionVars
  <2> QED
    BY <1>2, <2>2, <2>3
<1>6. CASE ShutdownStep
  BY <1>1, <1>2, <1>6 DEF ShutdownStep, ShutdownBegins, ShutdownDrains, ShutdownCloses,
       ShutdownExits, handlerVars, sessionVars
<1>7. CASE UNCHANGED vars
  BY <1>2, <1>7 DEF vars, handlerVars, sessionVars
<1> QED
  BY <1>3, <1>4, <1>5, <1>6, <1>7 DEF Next

\* What a reload under way still has to do about a session that was served and in step
\* when it began and that it still reaches: drain it, disconnect it, push to it, or
\* nothing at all, and then it is in step with the new snapshot as well.
InHand(h) ==
    LET n == NodeOf(h)
        rekeyed == KeyChangedNodes(reload.old, reload.next)
    IN  /\ n \in DOMAIN cfg.nodes
        /\ reload.at \in {"idle", "removeNodes", "changeKeys", "disconnect", "removePorts",
                         "pushAll"} =>
               sent[h] = NodeConfig(cfg, n)
        /\ reload.at = "removeNodes" => n \in reload.work \cup DOMAIN reload.next.nodes
        /\ reload.at \in {"changeKeys", "disconnect"} =>
               /\ n \in DOMAIN reload.next.nodes
               /\ n \in rekeyed => n \in reload.work \/ reload.sess = h
        /\ reload.at = "removePorts" => n \in DOMAIN reload.next.nodes \ rekeyed
        /\ reload.at = "addPorts" =>
               /\ n \in Survivors(reload.old, reload.next) \ rekeyed
               /\ sent[h] = NodeConfig(reload.old, n)
        /\ reload.at = "push" => n \in reload.work \/ sent[h] = NodeConfig(cfg, n)

Current(h) == Past(h) /\ (Reached(h) => InHand(h))

\* The same for one whose node is removed or gets another key.
Condemned(h) ==
    /\ Past(h)
    /\ Served(h) =>
         \/ /\ reload.at = "removeNodes"
            /\ NodeOf(h) \in reload.work \cup KeyChangedNodes(reload.old, reload.next)
         \/ /\ reload.at \in {"changeKeys", "disconnect"}
            /\ NodeOf(h) \in reload.work \/ reload.sess = h

\* Get(n) finds the session of h if h is served and n its node, and else another.
LEMMA LookupFinds ==
    ASSUME LInv, NEW h \in Handlers, Served(h), NEW n \in Nodes
    PROVE  live[n] = h <=> n = NodeOf(h)
<1>1. at[h] \in Registered
  BY DEF Served, Registered
<1> QED
  BY <1>1, NamesAssumption DEF LInv, Registration

\* Handlers, drainers and the shutdown leave the reload alone.
LEMMA OnlyReloadSteps ==
    ASSUME LInv, [Next]_vars, ~ReloadBegins, ~ReloadStep
    PROVE  UNCHANGED <<cfg, reload>>
<1>1. CASE \E h \in Handlers : HandlerStep(h)
  BY <1>1 DEF HandlerStep, Authenticate, BuildSession, Register, WelcomeFails, Welcome,
       StartPort, StartPortChecks, StartPortInserts, StartPortEvicts, StartPortOverwrites,
       Serve, PingFails, ControlEnds, TeardownPorts, TeardownRegistration, TeardownSession
<1>2. CASE \E d \in drainers : DrainerStep(d)
  BY <1>2 DEF DrainerStep, DrainerWaited, DrainerStopsNode, DrainerCloses
<1>3. CASE ShutdownStep
  BY <1>3 DEF ShutdownStep, ShutdownBegins, ShutdownDrains, ShutdownCloses, ShutdownExits
<1>4. CASE UNCHANGED vars
  BY <1>4 DEF vars
<1> QED
  BY <1>1, <1>2, <1>3, <1>4 DEF Next

\* pushConfig writes the new snapshot's config to the session it looks up, or loses it.
LEMMA PushReaches ==
    ASSUME LInv, SentOfHandlers, CfgFollowsReload, NEW h \in Handlers, Served(h), InHand(h),
           ~lost'[h], PushConfig
    PROVE  /\ reload'.at = reload.at /\ cfg' = cfg
           /\ reload.at \in {"push", "pushAll"} /\ cfg = reload.next
           /\ sent'[h] = NodeConfig(cfg, NodeOf(h)) \/ sent'[h] = sent[h]
           /\ NodeOf(h) \in reload.work /\ NodeOf(h) \notin reload'.work =>
                  sent'[h] = NodeConfig(cfg, NodeOf(h))
<1>1. reload \in Reloads /\ reload.at \in {"push", "pushAll"}
  BY DEF LInv, Shapes, PushConfig
<1>2. cfg = reload.next /\ cfg' = cfg
  BY <1>1 DEF CfgFollowsReload, PushConfig
<1>3. PICK n \in reload.work :
        /\ reload' = [reload EXCEPT !.work = @ \ {n}]
        /\ \/ /\ live[n] = NoSession \/ n \notin DOMAIN reload.next.nodes
              /\ UNCHANGED <<sent, lost>>
           \/ sent' = [sent EXCEPT ![live[n]] = NodeConfig(reload.next, n)]
           \/ /\ lost' = [lost EXCEPT ![live[n]] = TRUE]
              /\ UNCHANGED sent
  BY DEF PushConfig
<1>4. n \in Nodes
  BY <1>1, <1>3 DEF LInv, WorkIsDue
<1>5. live[n] = h <=> n = NodeOf(h)
  BY <1>4, LookupFinds
<1>6. NodeOf(h) \in DOMAIN cfg.nodes /\ h # NoSession
  BY NamesAssumption DEF InHand
<1>7. CASE n = NodeOf(h)
  <2>1. sent'[h] = NodeConfig(cfg, n)
    BY <1>2, <1>3, <1>5, <1>6, <1>7 DEF LInv, TypeOK, SentOfHandlers
  <2>2. reload'.at = reload.at
    BY <1>1, <1>3 DEF Reloads
  <2> QED
    BY <1>1, <1>2, <1>7, <2>1, <2>2
<1>8. CASE n # NodeOf(h)
  <2>1. sent'[h] = sent[h]
    BY <1>3, <1>5, <1>8 DEF SentOfHandlers
  <2>2. reload'.at = reload.at /\ reload'.work = reload.work \ {n}
    BY <1>1, <1>3 DEF Reloads
  <2> QED
    BY <1>1, <1>2, <1>8, <2>1, <2>2
<1> QED
  BY <1>7, <1>8

\* No step loses sight of a session that is in hand.
LEMMA CurrentStays ==
    ASSUME LInv, SentOfHandlers, CfgFollowsReload, [Next]_vars, NEW h \in Handlers, Current(h)
    PROVE  Current(h)'
<1>1. /\ Past(h)' /\ NodeOf(h)' = NodeOf(h) /\ (Reached(h)' => Reached(h))
      /\ PushConfig \/ sent'[h] = sent[h]
  BY SessionsOnlyEnd DEF Current
<1> SUFFICES ASSUME Reached(h)' PROVE InHand(h)'
  BY <1>1 DEF Current
<1>2. Served(h) /\ InHand(h) /\ ~lost'[h]
  BY <1>1 DEF Current, Reached
<1>3. reload \in Reloads /\ reload.old \in Configs /\ reload.next \in Configs
  BY DEF LInv, Shapes, Reloads
<1>4. CASE ~ReloadBegins /\ ~ReloadStep
  <2>1. UNCHANGED <<cfg, reload>> /\ ~PushConfig
    BY <1>4, OnlyReloadSteps DEF ReloadStep
  <2> QED
    BY <1>1, <1>2, <2>1 DEF InHand
<1>5. CASE ReloadBegins
  <2>1. PICK next \in Configs :
          /\ reload'.at = "removeNodes" /\ reload'.next = next
          /\ reload'.work = RemovedNodes(cfg, next)
    BY <1>5 DEF ReloadBegins
  <2>2. reload.at = "idle" /\ cfg' = cfg /\ sent' = sent
    BY <1>5 DEF ReloadBegins, handlerVars
  <2> QED
    BY <1>1, <1>2, <2>1, <2>2 DEF InHand, RemovedNodes
<1>6. CASE DrainMarks
  <2>1. PICK n \in reload.work :
          /\ reload' = [reload EXCEPT !.work = @ \ {n}, !.node = n, !.sess = live[n]]
          /\ draining' = [g \in Handlers |-> draining[g] \/ g = live[n]]
    BY <1>6 DEF DrainMarks
  <2>2. reload.at = "removeNodes" /\ cfg' = cfg /\ sent' = sent
    BY <1>6 DEF DrainMarks, Busy, handlerVars
  <2>3. n \in Nodes
    BY <1>3, <2>1, <2>2, DiffTypes DEF LInv, WorkIsDue
  <2>4. n # NodeOf(h)
    BY <1>2, <2>1, <2>3, LookupFinds DEF Reached, Served
  <2>5. /\ reload'.at = "removeNodes" /\ reload'.work = reload.work \ {n}
        /\ reload'.next = reload.next
    BY <1>3, <2>1, <2>2 DEF Reloads
  <2> QED
    BY <1>1, <1>2, <2>2, <2>4, <2>5 DEF InHand
<1>7. CASE DrainStops
  <2>1. /\ reload.at = "removeNodes" /\ reload' = [reload EXCEPT !.sess = NoSession]
        /\ cfg' = cfg /\ sent' = sent
    BY <1>7 DEF DrainStops, handlerVars
  <2>2. /\ reload'.at = "removeNodes" /\ reload'.work = reload.work
        /\ reload'.next = reload.next
    BY <1>3, <2>1 DEF Reloads
  <2> QED
    BY <1>1, <1>2, <2>1, <2>2 DEF InHand
<1>8. CASE RemoveNodesDone
  <2>1. /\ reload.at = "removeNodes" /\ reload.work = {} /\ cfg' = cfg /\ sent' = sent
        /\ reload' = [reload EXCEPT !.at = "changeKeys",
                                    !.work = KeyChangedNodes(reload.old, reload.next)]
    BY <1>8 DEF RemoveNodesDone, Busy, handlerVars
  <2>2. /\ reload'.at = "changeKeys" /\ reload'.next = reload.next /\ reload'.old = reload.old
        /\ reload'.work = KeyChangedNodes(reload.old, reload.next)
    BY <1>3, <2>1 DEF Reloads
  <2> QED
    BY <1>1, <1>2, <2>1, <2>2 DEF InHand
<1>9. CASE KeyLookup
  <2>1. PICK n \in reload.work :
          reload' = [reload EXCEPT !.work = @ \ {n}, !.node = n, !.sess = live[n]]
    BY <1>9 DEF KeyLookup
  <2>2. reload.at = "changeKeys" /\ reload.sess = NoSession /\ cfg' = cfg /\ sent' = sent
    BY <1>9 DEF KeyLookup, Busy, handlerVars
  <2>3. n \in Nodes
    BY <1>3, <2>1, <2>2, DiffTypes DEF LInv, WorkIsDue
  <2>4. n = NodeOf(h) => live[n] = h
    BY <1>2, <2>3, LookupFinds
  <2>5. /\ reload'.at = "changeKeys" /\ reload'.work = reload.work \ {n}
        /\ reload'.next = reload.next /\ reload'.old = reload.old /\ reload'.sess = live[n]
    BY <1>3, <2>1, <2>2 DEF Reloads
  <2>6. reload.sess # h
    BY <2>2, NamesAssumption
  <2> QED
    BY <1>1, <1>2, <2>2, <2>4, <2>5, <2>6 DEF InHand
<1>10. CASE KeyStopsPorts
  <2>1. /\ reload.at = "changeKeys" /\ reload' = [reload EXCEPT !.at = "disconnect"]
        /\ cfg' = cfg /\ sent' = sent
    BY <1>10 DEF KeyStopsPorts, handlerVars
  <2>2. /\ reload'.at = "disconnect" /\ reload'.work = reload.work
        /\ reload'.next = reload.next /\ reload'.old = reload.old
        /\ reload'.sess = reload.sess
    BY <1>3, <2>1 DEF Reloads, ReloadPhases
  <2> QED
    BY <1>1, <1>2, <2>1, <2>2 DEF InHand
<1>19. CASE KeyCloses
  <2>1. /\ reload.at = "disconnect"
        /\ reload' = [reload EXCEPT !.at = "changeKeys", !.sess = NoSession]
        /\ closed' = [closed EXCEPT ![reload.sess] = TRUE]
        /\ cfg' = cfg /\ sent' = sent
    BY <1>19 DEF KeyCloses, handlerVars
  <2>2. reload.sess # h
    BY <2>1 DEF Reached, Served, LInv, TypeOK
  <2>3. /\ reload'.at = "changeKeys" /\ reload'.work = reload.work
        /\ reload'.next = reload.next /\ reload'.old = reload.old
    BY <1>3, <2>1 DEF Reloads, ReloadPhases
  <2> QED
    BY <1>1, <1>2, <2>1, <2>2, <2>3 DEF InHand
<1>11. CASE ChangeKeysDone
  <2>1. /\ reload.at = "changeKeys" /\ reload.work = {} /\ reload.sess = NoSession
        /\ reload' = [reload EXCEPT !.at = "removePorts",
                                    !.work = RemovedPorts(reload.old, reload.next)]
        /\ cfg' = cfg /\ sent' = sent
    BY <1>11 DEF ChangeKeysDone, Busy, handlerVars
  <2>2. /\ reload'.at = "removePorts"
        /\ reload'.next = reload.next /\ reload'.old = reload.old
    BY <1>3, <2>1 DEF Reloads
  <2>3. reload.sess # h
    BY <2>1, NamesAssumption
  <2> QED
    BY <1>1, <1>2, <2>1, <2>2, <2>3 DEF InHand
<1>12. CASE RemovePort
  <2>1. /\ reload.at = "removePorts" /\ cfg' = cfg /\ sent' = sent
        /\ reload'.at = "removePorts"
        /\ reload'.next = reload.next /\ reload'.old = reload.old
    BY <1>3, <1>12 DEF RemovePort, Busy, Reloads, handlerVars
  <2> QED
    BY <1>1, <1>2, <2>1 DEF InHand
<1>13. CASE Publish
  <2>1. /\ reload.at = "removePorts" /\ cfg' = reload.next /\ sent' = sent
        /\ reload'.at = "addPorts"
        /\ reload'.next = reload.next /\ reload'.old = reload.old
    BY <1>3, <1>13 DEF Publish, Busy, Reloads, handlerVars
  <2>2. cfg = reload.old
    BY <2>1 DEF CfgFollowsReload
  <2> QED
    BY <1>1, <1>2, <2>1, <2>2 DEF InHand, Survivors
<1>14. CASE AddPortsDone
  <2>1. /\ reload.at = "addPorts" /\ cfg' = cfg /\ sent' = sent
        /\ reload'.at = "push"
        /\ reload'.work = ChangedNodes(reload.old, reload.next)
    BY <1>3, <1>14 DEF AddPortsDone, Busy, Reloads, handlerVars
  <2>2. cfg = reload.next
    BY <2>1 DEF CfgFollowsReload
  <2> QED
    BY <1>1, <1>2, <2>1, <2>2 DEF InHand, ChangedNodes
<1>15. CASE StartPort(Reloader)
  <2>1. UNCHANGED <<cfg, reload, sent>>
    BY <1>15 DEF StartPort, StartPortChecks, StartPortInserts, StartPortEvicts,
         StartPortOverwrites, handlerVars
  <2> QED
    BY <1>1, <1>2, <2>1 DEF InHand
<1>16. CASE PushConfig
  <2>1. /\ reload'.at = reload.at /\ cfg' = cfg /\ reload.at \in {"push", "pushAll"}
        /\ sent'[h] = NodeConfig(cfg, NodeOf(h)) \/ sent'[h] = sent[h]
        /\ NodeOf(h) \in reload.work /\ NodeOf(h) \notin reload'.work =>
               sent'[h] = NodeConfig(cfg, NodeOf(h))
    BY <1>2, <1>16, PushReaches
  <2> QED
    BY <1>1, <1>2, <2>1 DEF InHand
<1>17. CASE PushDone
  <2>1. /\ reload.at = "push" /\ reload.work = {} /\ cfg' = cfg /\ sent' = sent
        /\ reload'.at = "pushAll"
    BY <1>3, <1>17 DEF PushDone, Reloads, handlerVars
  <2> QED
    BY <1>1, <1>2, <2>1 DEF InHand
<1>18. CASE ReloadEnds
  <2>1. /\ reload.at = "pushAll" /\ cfg' = cfg /\ sent' = sent /\ reload'.at = "idle"
    BY <1>3, <1>18 DEF ReloadEnds, NoReload, handlerVars
  <2> QED
    BY <1>1, <1>2, <2>1 DEF InHand
<1> QED
  BY <1>4, <1>5, <1>6, <1>7, <1>8, <1>9, <1>10, <1>11, <1>12, <1>13, <1>14, <1>15, <1>16,
     <1>17, <1>18, <1>19 DEF ReloadStep

\* A session in step stays so, through any number of reloads of any kind, as long as it
\* is served and no message to it is lost: whom applyReload neither removes,
\* disconnects nor pushes to has nothing new to be told.
THEOREM InStepStaysInStep == Spec => SessionStaysCurrent
<1> SUFFICES ASSUME NEW h \in Handlers
             PROVE  Spec => [](reload.at = "idle" /\ Reached(h) /\ InStep(h) =>
                                 [](reload.at = "idle" /\ Reached(h) => InStep(h)))
  BY DEF SessionStaysCurrent
<1>1. reload.at = "idle" /\ Reached(h) /\ InStep(h) => Current(h)
  BY DEF Current, InHand, InStep, Past, Reached, Served, Registered
<1>2. LInv /\ SentOfHandlers /\ CfgFollowsReload /\ Current(h) /\ [Next]_vars => Current(h)'
  BY CurrentStays
<1>3. Current(h) => (reload.at = "idle" /\ Reached(h) => InStep(h))
  BY DEF Current, InHand, InStep
<1> QED
  BY <1>1, <1>2, <1>3, Invariant, SentInv, CfgInv, PTL DEF Spec

\* A session a reload has to end is not forgotten before it is drained or closed.
LEMMA CondemnedStays ==
    ASSUME LInv, SentOfHandlers, [Next]_vars, NEW h \in Handlers, Condemned(h)
    PROVE  Condemned(h)'
<1>1. Past(h)' /\ NodeOf(h)' = NodeOf(h) /\ (Served(h)' => Served(h))
  BY SessionsOnlyEnd DEF Condemned
<1> DEFINE Due == \/ /\ reload.at = "removeNodes"
                     /\ NodeOf(h) \in reload.work \cup KeyChangedNodes(reload.old, reload.next)
                  \/ /\ reload.at \in {"changeKeys", "disconnect"}
                     /\ NodeOf(h) \in reload.work \/ reload.sess = h
<1> SUFFICES ASSUME Served(h)' PROVE Due'
  BY <1>1 DEF Condemned
<1>2. Served(h) /\ Due
  BY <1>1 DEF Condemned
<1>3. reload \in Reloads /\ reload.old \in Configs /\ reload.next \in Configs
  BY DEF LInv, Shapes, Reloads
<1>4. CASE UNCHANGED reload
  BY <1>1, <1>2, <1>4
<1>5. CASE DrainMarks
  <2>1. PICK n \in reload.work :
          /\ reload' = [reload EXCEPT !.work = @ \ {n}, !.node = n, !.sess = live[n]]
          /\ draining' = [g \in Handlers |-> draining[g] \/ g = live[n]]
    BY <1>5 DEF DrainMarks
  <2>2. reload.at = "removeNodes"
    BY <1>5 DEF DrainMarks, Busy
  <2>3. n \in Nodes
    BY <1>3, <2>1, <2>2, DiffTypes DEF LInv, WorkIsDue
  <2>4. n # NodeOf(h)
    BY <1>2, <2>1, <2>3, LookupFinds DEF Served
  <2>5. /\ reload'.at = "removeNodes" /\ reload'.work = reload.work \ {n}
        /\ reload'.next = reload.next /\ reload'.old = reload.old
    BY <1>3, <2>1, <2>2 DEF Reloads
  <2> QED
    BY <1>1, <1>2, <2>2, <2>4, <2>5
<1>6. CASE DrainStops
  <2>1. reload.at = "removeNodes" /\ reload' = [reload EXCEPT !.sess = NoSession]
    BY <1>6 DEF DrainStops
  <2>2. /\ reload'.at = "removeNodes" /\ reload'.work = reload.work
        /\ reload'.next = reload.next /\ reload'.old = reload.old
    BY <1>3, <2>1 DEF Reloads
  <2> QED
    BY <1>1, <1>2, <2>1, <2>2
<1>7. CASE RemoveNodesDone
  <2>1. /\ reload.at = "removeNodes" /\ reload.work = {}
        /\ reload'.at = "changeKeys"
        /\ reload'.work = KeyChangedNodes(reload.old, reload.next)
    BY <1>3, <1>7 DEF RemoveNodesDone, Busy, Reloads
  <2> QED
    BY <1>1, <1>2, <2>1
<1>8. CASE KeyLookup
  <2>1. PICK n \in reload.work :
          reload' = [reload EXCEPT !.work = @ \ {n}, !.node = n, !.sess = live[n]]
    BY <1>8 DEF KeyLookup
  <2>2. reload.at = "changeKeys" /\ reload.sess = NoSession
    BY <1>8 DEF KeyLookup, Busy
  <2>3. n \in Nodes
    BY <1>3, <2>1, <2>2, DiffTypes DEF LInv, WorkIsDue
  <2>4. n = NodeOf(h) => live[n] = h
    BY <1>2, <2>3, LookupFinds
  <2>5. /\ reload'.at = "changeKeys" /\ reload'.work = reload.work \ {n}
        /\ reload'.sess = live[n]
    BY <1>3, <2>1, <2>2 DEF Reloads
  <2>6. reload.sess # h
    BY <2>2, NamesAssumption
  <2> QED
    BY <1>1, <1>2, <2>2, <2>4, <2>5, <2>6
<1>9. CASE KeyStopsPorts
  <2>1. /\ reload.at = "changeKeys" /\ reload' = [reload EXCEPT !.at = "disconnect"]
    BY <1>9 DEF KeyStopsPorts
  <2>2. /\ reload'.at = "disconnect" /\ reload'.work = reload.work
        /\ reload'.sess = reload.sess
    BY <1>3, <2>1 DEF Reloads, ReloadPhases
  <2> QED
    BY <1>1, <1>2, <2>1, <2>2
<1>13. CASE KeyCloses
  <2>1. /\ reload.at = "disconnect"
        /\ reload' = [reload EXCEPT !.at = "changeKeys", !.sess = NoSession]
        /\ closed' = [closed EXCEPT ![reload.sess] = TRUE]
    BY <1>13 DEF KeyCloses
  <2>2. reload.sess # h
    BY <2>1 DEF Served, LInv, TypeOK
  <2>3. reload'.at = "changeKeys" /\ reload'.work = reload.work
    BY <1>3, <2>1 DEF Reloads, ReloadPhases
  <2> QED
    BY <1>1, <1>2, <2>1, <2>2, <2>3
<1>10. CASE ChangeKeysDone
  <2>1. reload.at = "changeKeys" /\ reload.work = {} /\ reload.sess # h
    BY <1>10, NamesAssumption DEF ChangeKeysDone, Busy
  <2> QED
    BY <1>2, <2>1
<1>11. CASE \/ ReloadBegins \/ RemovePort \/ Publish \/ AddPortsDone \/ PushConfig
            \/ PushDone \/ ReloadEnds
  <2>1. reload.at \notin {"removeNodes", "changeKeys", "disconnect"}
    BY <1>11 DEF ReloadBegins, RemovePort, Publish, AddPortsDone, PushConfig, PushDone,
         ReloadEnds, Busy
  <2> QED
    BY <1>2, <2>1
<1>12. CASE StartPort(Reloader)
  BY <1>4, <1>12 DEF StartPort, StartPortChecks, StartPortInserts, StartPortEvicts,
       StartPortOverwrites
<1> QED
  BY <1>4, <1>5, <1>6, <1>7, <1>8, <1>9, <1>10, <1>11, <1>12, <1>13,
     OnlyReloadSteps DEF ReloadStep

\* When a reload has ended, nobody it had to drain or to disconnect and who was
\* registered when it began is served any more, whoever registers, leaves or is
\* closed meanwhile.
THEOREM OutdatedAreEnded == Spec => ReloadSparesNoOutdated
<1> SUFFICES ASSUME NEW h \in Handlers
             PROVE  Spec => [](Outdated(h) => [](reload.at = "idle" => ~Served(h)))
  BY DEF ReloadSparesNoOutdated
<1>1. Outdated(h) => Condemned(h)
  BY DEF Outdated, Condemned, Past, Served, Registered
<1>2. LInv /\ SentOfHandlers /\ Condemned(h) /\ [Next]_vars => Condemned(h)'
  BY CondemnedStays
<1>3. Condemned(h) => (reload.at = "idle" => ~Served(h))
  BY DEF Condemned
<1> QED
  BY <1>1, <1>2, <1>3, Invariant, SentInv, PTL DEF Spec

-----------------------------------------------------------------------------
\* Before the first reload and the shutdown, a node that is served has its
\* listeners.

Calm == reload.count = 0 /\ shutdown.at = "no"

\* Listeners and StartPort calls are for ports of the one snapshot there was, so
\* that no StartPort finds another node's listener in its way.
OfConfig ==
    /\ \A p \in Ports : items[p] # NoNode => p \in PortsOf(cfg, items[p])
    /\ \A h \in Handlers :
        /\ \A s \in job[h].todo : s[1] \in PortsOf(cfg, s[2])
        /\ job[h].step # "idle" =>
             job[h].step = "insert" /\ job[h].port \in PortsOf(cfg, job[h].node)

\* From the welcome on, each port of the node has its listener, or its StartPort
\* call is still to come, or is under way.
PortsOnTheWay ==
    \A h \in Handlers : at[h] \in {"starting", "serving"} =>
        \A p \in PortsOf(cfg, NodeOf(h)) :
            \/ items[p] = NodeOf(h)
            \/ \E s \in job[h].todo : s[1] = p
            \/ job[h].step # "idle" /\ job[h].port = p

CalmInv == Calm => OfConfig /\ PortsOnTheWay

\* The calm only ends, and while it lasts only the handlers take steps.
LEMMA CalmOnlyEnds ==
    ASSUME LInv, [Next]_vars, Calm'
    PROVE  /\ Calm
           /\ UNCHANGED vars \/ \E h \in Handlers : HandlerStep(h)
<1>1. /\ reload \in Reloads
      /\ reload.at # "idle" => reload.count \in 1..MaxReloads
      /\ reload.count \in 0..MaxReloads
  BY ReloadIsCounted DEF LInv, Shapes
<1>2. CASE UNCHANGED vars
  BY <1>2 DEF vars, Calm
<1>3. CASE \E h \in Handlers : HandlerStep(h)
  <2>1. UNCHANGED <<reload, shutdown>>
    BY <1>3 DEF HandlerStep, Authenticate, BuildSession, Register, WelcomeFails, Welcome,
       StartPort, StartPortChecks, StartPortInserts, StartPortEvicts, StartPortOverwrites,
       Serve, PingFails, ControlEnds, TeardownPorts, TeardownRegistration, TeardownSession
  <2> QED
    BY <1>3, <2>1 DEF Calm
<1>4. CASE ReloadBegins
  <2>1. reload'.count = reload.count + 1
    BY <1>4 DEF ReloadBegins
  <2> QED
    BY <1>1, <2>1, InitAssumption DEF Calm
<1>5. CASE StartPort(Reloader)
  <2>1. UNCHANGED reload /\ (job[Reloader].step # "idle" \/ job[Reloader].todo # {})
    BY <1>5 DEF StartPort, StartPortChecks, StartPortInserts, StartPortEvicts,
       StartPortOverwrites
  <2> QED
    BY <2>1 DEF LInv, NoReloadYet, Calm
<1>6. CASE ReloadStep /\ ~StartPort(Reloader)
  <2>1. reload.at # "idle"
    BY <1>6 DEF ReloadStep, DrainMarks, DrainStops, RemoveNodesDone, KeyLookup, KeyStopsPorts,
         KeyCloses, ChangeKeysDone, RemovePort, Publish, AddPortsDone, PushConfig, PushDone,
         ReloadEnds, Busy
  <2>2. reload'.count = reload.count
    <3>1. CASE \/ DrainMarks \/ DrainStops \/ RemoveNodesDone
               \/ KeyLookup \/ KeyStopsPorts \/ KeyCloses
      BY <1>1, <3>1 DEF DrainMarks, DrainStops, RemoveNodesDone, KeyLookup, KeyStopsPorts,
           KeyCloses, Reloads
    <3>2. CASE ChangeKeysDone \/ RemovePort \/ Publish \/ AddPortsDone
      BY <1>1, <3>2 DEF ChangeKeysDone, RemovePort, Publish, AddPortsDone, Reloads
    <3>3. CASE PushConfig \/ PushDone \/ ReloadEnds
      BY <1>1, <3>3 DEF PushConfig, PushDone, ReloadEnds, NoReload, Reloads
    <3> QED
      BY <1>6, <3>1, <3>2, <3>3 DEF ReloadStep
  <2> QED
    BY <1>1, <2>1, <2>2 DEF Calm
<1>7. CASE \E d \in drainers : DrainerStep(d)
  <2>1. UNCHANGED reload /\ drainers # {}
    BY <1>7 DEF DrainerStep, DrainerWaited, DrainerStopsNode, DrainerCloses
  <2> QED
    BY <2>1 DEF LInv, NoReloadYet, Calm
<1>8. CASE ShutdownStep
  <2>1. shutdown \in Shutdowns
    BY DEF LInv, Shapes
  <2> QED
    BY <1>8, <2>1 DEF ShutdownStep, ShutdownBegins, ShutdownDrains, ShutdownCloses,
       ShutdownExits, Shutdowns, Calm
<1> QED
  BY <1>2, <1>3, <1>4, <1>5, <1>6, <1>7, <1>8 DEF Next

\* A handler that moves on without a StartPort call keeps what is on the way: it is
\* behind the welcome afterwards only if it was before.
LEMMA MovesInCalm ==
    ASSUME LInv, OfConfig, PortsOnTheWay, NEW h \in Handlers,
           UNCHANGED <<cfg, items, job>>,
           \A g \in Handlers : at'[g] \in {"starting", "serving"} =>
               at[g] \in {"starting", "serving"} /\ NodeOf(g)' = NodeOf(g)
    PROVE  OfConfig' /\ PortsOnTheWay'
<1>1. OfConfig'
  BY DEF OfConfig
<1>2. PortsOnTheWay'
  <2> SUFFICES ASSUME NEW g \in Handlers, at'[g] \in {"starting", "serving"},
                      NEW p \in PortsOf(cfg, NodeOf(g))
               PROVE  \/ items[p] = NodeOf(g)
                      \/ \E s \in job[g].todo : s[1] = p
                      \/ job[g].step # "idle" /\ job[g].port = p
    BY DEF PortsOnTheWay
  <2> QED
    BY DEF PortsOnTheWay
<1> QED
  BY <1>1, <1>2

\* StartNode puts every port of the node on the way.
LEMMA WelcomeInCalm ==
    ASSUME LInv, OfConfig, PortsOnTheWay, NEW h \in Handlers, Welcome(h)
    PROVE  OfConfig' /\ PortsOnTheWay'
<1> DEFINE ports == PortsOf(cfg, NodeOf(h))
           k == JobFor(ports, cfg)
<1>1. /\ UNCHANGED <<cfg, items, spec>>
      /\ at' = [at EXCEPT ![h] = "starting"]
      /\ job' = [job EXCEPT ![h] = k]
  BY DEF Welcome
<1>2. cfg \in Configs
  BY DEF LInv, TypeOK
<1>3. /\ ports \in SUBSET DOMAIN cfg.ports
      /\ \A p \in ports : cfg.ports[p].node = NodeOf(h)
  BY <1>2, PortsOfTypes
<1>4. k.todo = {<<p, cfg.ports[p].node>> : p \in ports}
  BY DEF JobFor, NoJob
<1>5. k.step = "idle" /\ \A s \in k.todo : s[1] \in ports /\ s[2] = NodeOf(h)
  <2> HIDE DEF ports
  <2>1. /\ k.step = "idle"
        /\ \A s \in k.todo : s[1] \in ports /\ s[2] = cfg.ports[s[1]].node
    BY <1>2, <1>3, JobForTypes
  <2> QED
    BY <1>3, <2>1
<1>6. \A p \in ports : \E s \in k.todo : s[1] = p
  <2> SUFFICES ASSUME NEW p \in ports PROVE \E s \in k.todo : s[1] = p
    OBVIOUS
  <2>1. <<p, cfg.ports[p].node>> \in k.todo
    BY <1>4
  <2> HIDE DEF k
  <2> QED
    BY <2>1
<1> HIDE DEF k
<1>7. /\ job'[h] = k /\ at'[h] = "starting"
      /\ \A g \in Handlers : g # h => job'[g] = job[g] /\ at'[g] = at[g]
  BY <1>1 DEF LInv, TypeOK, Shapes, Callers
<1>8. OfConfig'
  <2>1. \A g \in Handlers :
          /\ \A s \in job'[g].todo : s[1] \in PortsOf(cfg, s[2])
          /\ job'[g].step # "idle" =>
               job'[g].step = "insert" /\ job'[g].port \in PortsOf(cfg, job'[g].node)
    <3> SUFFICES ASSUME NEW g \in Handlers
                 PROVE  /\ \A s \in job'[g].todo : s[1] \in PortsOf(cfg, s[2])
                        /\ job'[g].step # "idle" =>
                             /\ job'[g].step = "insert"
                             /\ job'[g].port \in PortsOf(cfg, job'[g].node)
      OBVIOUS
    <3>1. CASE g = h
      BY <1>5, <1>7, <3>1
    <3>2. CASE g # h
      BY <1>7, <3>2 DEF OfConfig
    <3> QED
      BY <3>1, <3>2
  <2> QED
    BY <1>1, <2>1 DEF OfConfig
<1>9. PortsOnTheWay'
  <2> SUFFICES ASSUME NEW g \in Handlers, at'[g] \in {"starting", "serving"},
                      NEW p \in PortsOf(cfg, NodeOf(g))
               PROVE  \/ items[p] = NodeOf(g)
                      \/ \E s \in job'[g].todo : s[1] = p
                      \/ job'[g].step # "idle" /\ job'[g].port = p
    BY <1>1 DEF PortsOnTheWay, NodeOf
  <2>1. CASE g = h
    BY <1>6, <1>7, <2>1
  <2>2. CASE g # h
    BY <1>7, <2>2 DEF PortsOnTheWay
  <2> QED
    BY <2>1, <2>2
<1> QED
  BY <1>8, <1>9

\* StartPort: the node is online, for its handler is the one that calls, and what is
\* there already is the node's own.
LEMMA StartPortInCalm ==
    ASSUME LInv, OfConfig, PortsOnTheWay, NEW h \in Handlers, StartPort(h)
    PROVE  OfConfig' /\ PortsOnTheWay'
<1>1. /\ UNCHANGED <<cfg, live, at, spec>>
      /\ job \in [Callers -> Jobs] /\ h \in Callers
      /\ items \in [Ports -> Nodes \cup {NoNode}]
      /\ cfg \in Configs
  BY DEF LInv, TypeOK, Shapes, StartPort, StartPortChecks, StartPortInserts,
         StartPortEvicts, StartPortOverwrites, handlerVars, Callers
<1>2. /\ \A s \in job[h].todo : s[1] \in PortsOf(cfg, s[2])
      /\ job[h].step # "idle" =>
           job[h].step = "insert" /\ job[h].port \in PortsOf(cfg, job[h].node)
  BY DEF OfConfig
<1>3. at[h] = "starting" /\ live[NodeOf(h)] = h
  <2>1. job[h].todo # {} \/ job[h].step # "idle"
    BY DEF StartPort, StartPortChecks, StartPortInserts, StartPortEvicts, StartPortOverwrites
  <2> QED
    BY <2>1 DEF LInv, OwnPortsOnly, Registration, Registered
\* What is left to show: no other handler's calls change, and of the ports of the
\* node of h none is lost.
<1>4. ASSUME NEW k \in Jobs, job' = [job EXCEPT ![h] = k],
             \A s \in k.todo : s[1] \in PortsOf(cfg, s[2]),
             k.step # "idle" => k.step = "insert" /\ k.port \in PortsOf(cfg, k.node),
             \A p \in Ports : items'[p] = items[p] \/
                 (p \in PortsOf(cfg, items'[p]) /\ items[p] = NoNode),
             \A p \in PortsOf(cfg, NodeOf(h)) :
                 (\/ \E s \in job[h].todo : s[1] = p
                  \/ job[h].step # "idle" /\ job[h].port = p) =>
                     \/ items'[p] = NodeOf(h)
                     \/ \E s \in k.todo : s[1] = p
                     \/ k.step # "idle" /\ k.port = p
      PROVE  OfConfig' /\ PortsOnTheWay'
  <2>1. job'[h] = k /\ \A g \in Handlers : g # h => job'[g] = job[g]
    BY <1>1, <1>4 DEF Callers
  <2>2. OfConfig'
    <3>1. \A p \in Ports : items'[p] # NoNode => p \in PortsOf(cfg, items'[p])
      BY <1>4 DEF OfConfig
    <3>2. \A g \in Handlers :
            /\ \A s \in job'[g].todo : s[1] \in PortsOf(cfg, s[2])
            /\ job'[g].step # "idle" =>
                 job'[g].step = "insert" /\ job'[g].port \in PortsOf(cfg, job'[g].node)
      <4> SUFFICES ASSUME NEW g \in Handlers
                   PROVE  /\ \A s \in job'[g].todo : s[1] \in PortsOf(cfg, s[2])
                          /\ job'[g].step # "idle" =>
                               /\ job'[g].step = "insert"
                               /\ job'[g].port \in PortsOf(cfg, job'[g].node)
        OBVIOUS
      <4>1. CASE g = h
        BY <1>4, <2>1, <4>1
      <4>2. CASE g # h
        BY <2>1, <4>2 DEF OfConfig
      <4> QED
        BY <4>1, <4>2
    <3> QED
      BY <1>1, <3>1, <3>2 DEF OfConfig
  <2>3. PortsOnTheWay'
    <3> SUFFICES ASSUME NEW g \in Handlers, at[g] \in {"starting", "serving"},
                        NEW p \in PortsOf(cfg, NodeOf(g))
                 PROVE  \/ items'[p] = NodeOf(g)
                        \/ \E s \in job'[g].todo : s[1] = p
                        \/ job'[g].step # "idle" /\ job'[g].port = p
      BY <1>1 DEF PortsOnTheWay, NodeOf
    <3>1. \/ items[p] = NodeOf(g)
          \/ \E s \in job[g].todo : s[1] = p
          \/ job[g].step # "idle" /\ job[g].port = p
      BY DEF PortsOnTheWay
    <3>2. p \in Ports
      BY <1>1, ConfigTypes, PortsOfTypes
    <3>3. NodeOf(g) # NoNode
      BY NamesAssumption DEF LInv, TypeOK
    <3>4. CASE items[p] = NodeOf(g)
      BY <1>4, <3>2, <3>3, <3>4
    <3>5. CASE g = h
      BY <1>4, <2>1, <3>1, <3>4, <3>5
    <3>6. CASE g # h
      BY <2>1, <3>1, <3>4, <3>6
    <3> QED
      BY <3>5, <3>6
  <2> QED
    BY <2>2, <2>3
<1>5. CASE StartPortChecks(h)
  <2>1. PICK s \in job[h].todo :
          job' = [job EXCEPT ![h] =
                    IF live[s[2]] = NoSession
                    THEN [job[h] EXCEPT !.todo = @ \ {s}]
                    ELSE [todo |-> job[h].todo \ {s}, port |-> s[1], node |-> s[2],
                          step |-> "insert"]]
    BY <1>5 DEF StartPortChecks
  <2>2. job[h].step = "idle" /\ UNCHANGED items
    BY <1>5 DEF StartPortChecks
  <2>3. s[2] = NodeOf(h) /\ s[1] \in Ports /\ s[2] \in Nodes
    BY <1>1 DEF LInv, OwnPortsOnly, Jobs
  <2> DEFINE k == [todo |-> job[h].todo \ {s}, port |-> s[1], node |-> s[2],
                   step |-> "insert"]
  <2>4. job' = [job EXCEPT ![h] = k]
    BY <1>3, <2>1, <2>3, NamesAssumption
  <2>5. /\ k \in Jobs /\ k.todo = job[h].todo \ {s} /\ k.port = s[1] /\ k.node = s[2]
        /\ k.step = "insert"
    BY <1>1, <2>3 DEF Jobs
  <2> HIDE DEF k
  <2>6. \A t \in k.todo : t[1] \in PortsOf(cfg, t[2])
    BY <1>2, <2>5
  <2>7. k.port \in PortsOf(cfg, k.node)
    BY <1>2, <2>5
  <2>8. \A p \in PortsOf(cfg, NodeOf(h)) :
          (\/ \E t \in job[h].todo : t[1] = p
           \/ job[h].step # "idle" /\ job[h].port = p) =>
              \/ items'[p] = NodeOf(h)
              \/ \E t \in k.todo : t[1] = p
              \/ k.step # "idle" /\ k.port = p
    BY <2>2, <2>5
  <2> QED
    BY <1>4, <2>2, <2>4, <2>5, <2>6, <2>7, <2>8
<1>6. CASE StartPortInserts(h)
  <2> DEFINE port == job[h].port
             node == job[h].node
             k == [NoJob EXCEPT !.todo = job[h].todo]
  <2>1. job[h].step = "insert" /\ port \in PortsOf(cfg, node) /\ node = NodeOf(h)
    BY <1>2, <1>6 DEF StartPortInserts, LInv, OwnPortsOnly
  <2>2. port \in Ports /\ node \in Nodes
    BY <2>1 DEF LInv, JobsKnowTheirPort, Callers
  <2>3. items[port] \in {NoNode, node}
    BY <2>1, <2>2 DEF OfConfig, PortsOf
  <2>4. /\ items' = [items EXCEPT ![port] = node]
        /\ job' = [job EXCEPT ![h] = k]
    BY <1>6, <2>3 DEF StartPortInserts
  <2>5. k \in Jobs /\ k.todo = job[h].todo /\ k.step = "idle"
    BY <1>1 DEF Jobs, NoJob
  <2> HIDE DEF k, port, node
  <2>6. items'[port] = node /\ \A p \in Ports : p # port => items'[p] = items[p]
    BY <1>1, <2>2, <2>4
  <2>7. \A p \in Ports : items'[p] = items[p] \/
            (p \in PortsOf(cfg, items'[p]) /\ items[p] = NoNode)
    BY <2>1, <2>3, <2>6
  <2>8. \A p \in PortsOf(cfg, NodeOf(h)) :
          (\/ \E t \in job[h].todo : t[1] = p
           \/ job[h].step # "idle" /\ job[h].port = p) =>
              \/ items'[p] = NodeOf(h)
              \/ \E t \in k.todo : t[1] = p
              \/ k.step # "idle" /\ k.port = p
    BY <2>1, <2>5, <2>6 DEF port
  <2>9. \A t \in k.todo : t[1] \in PortsOf(cfg, t[2])
    BY <1>2, <2>5
  <2> QED
    BY <1>4, <2>4, <2>5, <2>7, <2>8, <2>9
<1> QED
  BY <1>2, <1>5, <1>6 DEF StartPort, StartPortEvicts, StartPortOverwrites

\* StopNode of a teardown touches no port of a node that another handler serves.
LEMMA TeardownInCalm ==
    ASSUME LInv, OfConfig, PortsOnTheWay, NEW h \in Handlers, TeardownPorts(h)
    PROVE  OfConfig' /\ PortsOnTheWay'
<1>1. /\ UNCHANGED <<cfg, live, spec, job>>
      /\ at[h] = "stopping" /\ at' = [at EXCEPT ![h] = "unregistering"]
      /\ items' = [p \in Ports |-> IF items[p] = NodeOf(h) THEN NoNode ELSE items[p]]
  BY DEF TeardownPorts, In, StopNode
<1>2. at'[h] = "unregistering" /\ \A g \in Handlers : g # h => at'[g] = at[g]
  BY <1>1 DEF LInv, TypeOK
<1>3. OfConfig'
  <2>1. \A p \in Ports : items'[p] # NoNode => p \in PortsOf(cfg, items'[p])
    BY <1>1 DEF OfConfig
  <2> QED
    BY <1>1, <2>1 DEF OfConfig
<1>4. PortsOnTheWay'
  <2> SUFFICES ASSUME NEW g \in Handlers, at'[g] \in {"starting", "serving"},
                      NEW p \in PortsOf(cfg, NodeOf(g))
               PROVE  \/ items'[p] = NodeOf(g)
                      \/ \E s \in job[g].todo : s[1] = p
                      \/ job[g].step # "idle" /\ job[g].port = p
    BY <1>1 DEF PortsOnTheWay, NodeOf
  <2>1. g # h /\ at[g] \in {"starting", "serving"}
    BY <1>2
  <2>2. NodeOf(g) # NodeOf(h)
    BY <1>1, <2>1 DEF LInv, Registration, Registered
  <2>3. p \in Ports
    BY ConfigTypes, PortsOfTypes DEF LInv, TypeOK
  <2>4. items[p] = NodeOf(g) => items'[p] = NodeOf(g)
    BY <1>1, <2>2, <2>3
  <2> QED
    BY <2>1, <2>4 DEF PortsOnTheWay
<1> QED
  BY <1>3, <1>4

\* "Control channel up, port up" (design doc line 291): a served node has each of
\* its listeners, whatever the teardown of its former sessions did.
THEOREM ServedPortsAreListening == Spec => []ServedPortsListen
<1>1. Init => CalmInv
  BY DEF Init, CalmInv, OfConfig, PortsOnTheWay, NoJob, Callers
<1>2. LInv /\ CalmInv /\ [Next]_vars => CalmInv'
  <2> SUFFICES ASSUME LInv, CalmInv, [Next]_vars, Calm'
               PROVE  OfConfig' /\ PortsOnTheWay'
    BY DEF CalmInv
  <2>1. Calm /\ OfConfig /\ PortsOnTheWay
    BY CalmOnlyEnds DEF CalmInv
  <2>2. CASE UNCHANGED vars
    BY <2>1, <2>2 DEF vars, handlerVars, OfConfig, PortsOnTheWay, NodeOf
  <2>3. ASSUME NEW h \in Handlers, HandlerStep(h)
        PROVE  OfConfig' /\ PortsOnTheWay'
    <3>1. CASE Welcome(h) \/ StartPort(h) \/ TeardownPorts(h)
      BY <2>1, <3>1, WelcomeInCalm, StartPortInCalm, TeardownInCalm
    <3>2. CASE \/ Authenticate(h) \/ BuildSession(h) \/ Register(h) \/ WelcomeFails(h)
               \/ Serve(h) \/ PingFails(h) \/ ControlEnds(h)
               \/ TeardownRegistration(h) \/ TeardownSession(h)
      <4>1. UNCHANGED <<cfg, items, job>>
        BY <3>2 DEF Authenticate, BuildSession, Register, WelcomeFails, Serve, PingFails,
           ControlEnds, TeardownRegistration, TeardownSession
      <4>2. at \in [Handlers -> Phases] /\ spec \in [Handlers -> Nodes \cup {NoNode}]
        BY DEF LInv, TypeOK, Shapes
      <4>3. \A g \in Handlers : at'[g] \in {"starting", "serving"} =>
               at[g] \in {"starting", "serving"} /\ NodeOf(g)' = NodeOf(g)
        <5>1. CASE Authenticate(h)
          BY <4>2, <5>1 DEF Authenticate, NodeOf
        <5>2. CASE ~Authenticate(h)
          BY <3>2, <4>2, <5>2 DEF BuildSession, Register, WelcomeFails, Serve, PingFails,
             ControlEnds, TeardownRegistration, TeardownSession, In, NodeOf, handlerVars
        <5> QED
          BY <5>1, <5>2
      <4> QED
        BY <2>1, <4>1, <4>3, MovesInCalm
    <3> QED
      BY <2>3, <3>1, <3>2 DEF HandlerStep
  <2> QED
    BY <2>2, <2>3, CalmOnlyEnds
<1>3. LInv /\ CalmInv => ServedPortsListen
  <2> SUFFICES ASSUME LInv, CalmInv, Calm, NEW h \in Handlers, at[h] = "serving",
                      NEW p \in PortsOf(cfg, NodeOf(h))
               PROVE  items[p] = NodeOf(h)
    BY DEF ServedPortsListen, Calm
  <2>1. job[h].todo = {} /\ job[h].step = "idle"
    BY DEF LInv, OwnPortsOnly
  <2> QED
    BY <2>1 DEF CalmInv, PortsOnTheWay
<1> QED
  BY <1>1, <1>2, <1>3, Invariant, PTL DEF Spec

\* Listeners and sessions match, in both directions, before the first reload.
THEOREM ListenersMatch == Spec => []ListenersMatchSessions
<1>1. ListenerOnlyWhileOnline /\ ServedPortsListen => ListenersMatchSessions
  BY DEF ListenersMatchSessions
<1> QED
  BY ListenersAreOnline, ServedPortsAreListening, <1>1, PTL
=============================================================================
