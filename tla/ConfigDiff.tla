----------------------------- MODULE ConfigDiff -----------------------------
(***************************************************************************)
(* Validated configuration snapshots and the difference between two of     *)
(* them (src/internal/config/diff.go, config.go, protocol/message.go).     *)
(*                                                                         *)
(* A snapshot maps the configured nodes to their key and channel count,    *)
(* the configured ports to their node and remote address, and carries two  *)
(* settings: `wire` stands for heartbeat, dial_timeout and                 *)
(* max_streams_per_conn, which are pushed to the nodes, `queueTimeout` for *)
(* the one that stays on the server.  Lists are sets: their order is only  *)
(* the order of independent steps.                                         *)
(***************************************************************************)
EXTENDS Naturals, FiniteSets

CONSTANTS
    Nodes,     \* the names of nodes
    Ports,     \* the numbers of reverse ports
    NoConfig   \* a nil *protocol.NodeConfig

\* What config.Load lets through: keys are unique and a port's node exists.
IsConfig(c) ==
    /\ DOMAIN c.nodes \subseteq Nodes
    /\ \A m, n \in DOMAIN c.nodes : c.nodes[m].key = c.nodes[n].key => m = n
    /\ DOMAIN c.ports \subseteq Ports
    /\ \A p \in DOMAIN c.ports : c.ports[p].node \in DOMAIN c.nodes

PortsOf(c, n) == {p \in DOMAIN c.ports : c.ports[p].node = n}

\* The blob pushed to a node in welcome and reload_config.
NodeConfig(c, n) ==
    IF n \notin DOMAIN c.nodes THEN NoConfig
    ELSE [ports |-> [p \in PortsOf(c, n) |-> c.ports[p].remote],
          channels |-> c.nodes[n].channels,
          wire |-> c.wire]

\* DiffConfig, one field of the Diff at a time.
Survivors(old, cur) == DOMAIN old.nodes \cap DOMAIN cur.nodes

AddedNodes(old, cur) == DOMAIN cur.nodes \ DOMAIN old.nodes
RemovedNodes(old, cur) == DOMAIN old.nodes \ DOMAIN cur.nodes

KeyChangedNodes(old, cur) ==
    {n \in Survivors(old, cur) : old.nodes[n].key # cur.nodes[n].key}

\* A port that moved to another node is removed and added.
Moved(old, cur, p) == old.ports[p].node # cur.ports[p].node

RemovedPorts(old, cur) ==
    {p \in DOMAIN old.ports : p \notin DOMAIN cur.ports \/ Moved(old, cur, p)}

AddedPorts(old, cur) ==
    {p \in DOMAIN cur.ports : p \notin DOMAIN old.ports \/ Moved(old, cur, p)}

\* Mutant of ChangedNodes: only the channel count is compared.
ChangedCounts(old, cur) ==
    {n \in Survivors(old, cur) \ KeyChangedNodes(old, cur) :
        old.nodes[n].channels # cur.nodes[n].channels}

\* Who needs a push: a new node gets its config at the handshake, a node whose
\* key changed is disconnected anyway.
ChangedNodes(old, cur) ==
    {n \in Survivors(old, cur) \ KeyChangedNodes(old, cur) :
        NodeConfig(old, n) # NodeConfig(cur, n)}

SettingsChanged(old, cur) ==
    old.wire # cur.wire \/ old.queueTimeout # cur.queueTimeout

-----------------------------------------------------------------------------
\* What applyReload may rely on.

\* Stopping the removed and starting the added ports turns the listeners of the
\* old snapshot into those of the new one: none is missing, none is left over,
\* none is owned by its former node.
ListenersReachNew(old, cur) ==
    LET kept == DOMAIN old.ports \ RemovedPorts(old, cur)
    IN  /\ kept \cup AddedPorts(old, cur) = DOMAIN cur.ports
        /\ kept \cap AddedPorts(old, cur) = {}
        /\ \A p \in kept : old.ports[p].node = cur.ports[p].node

\* Every listener of a node that goes away is among the removed ports, and no
\* listener is added for it.
RemovedNodesLoseTheirPorts(old, cur) ==
    \A n \in RemovedNodes(old, cur) :
        /\ PortsOf(old, n) \subseteq RemovedPorts(old, cur)
        /\ \A p \in AddedPorts(old, cur) : cur.ports[p].node # n

\* The client of a node that is neither new, nor removed, nor disconnected, nor
\* pushed to knows all there is to know: its ports, where each of them leads,
\* its channels and the settings on the wire are what they were.
SilentNodesUpToDate(old, cur) ==
    \A n \in Survivors(old, cur) \ (KeyChangedNodes(old, cur) \cup ChangedNodes(old, cur)) :
        /\ \A p \in DOMAIN old.ports \cup DOMAIN cur.ports :
             (p \in DOMAIN old.ports /\ old.ports[p].node = n)
                <=> (p \in DOMAIN cur.ports /\ cur.ports[p].node = n)
        /\ \A p \in PortsOf(cur, n) : old.ports[p].remote = cur.ports[p].remote
        /\ old.nodes[n] = cur.nodes[n]
        /\ old.wire = cur.wire
=============================================================================
