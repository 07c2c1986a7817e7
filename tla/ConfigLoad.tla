------------------------------ MODULE ConfigLoad ------------------------------
(***************************************************************************)
(* The walk of config.Load over a document (src/internal/config/config.go): *)
(* first the nodes, then the ports, entry by entry in document order, and  *)
(* each entry is kept or dropped.  The result is a snapshot of ConfigDiff. *)
(*                                                                         *)
(* A document is external.  What is wrong with an entry is abstracted to   *)
(* what Load tells apart: a body that does not decode, a key that is       *)
(* empty, a remote that is no host and port, a number that is zero where   *)
(* it is absent or cannot be parsed.  Ports are the numbers 1..65535; an   *)
(* entry under any other key has NoPort.  Warnings are left out.           *)
(***************************************************************************)
EXTENDS ConfigDiff, Integers, Sequences

CONSTANTS
    Keys, NoKey,          \* the keys of nodes, and the empty one
    Remotes, BadRemote,   \* the remote addresses, and what is none
    NoPort,               \* what is no port number
    Documents             \* what the file may hold

\* One entry under `nodes`, and one under `ports`.
NodeEntries == [name : Nodes, decodes : BOOLEAN, key : Keys \cup {NoKey}, channels : Int]
PortEntries == [port : Ports \cup {NoPort}, decodes : BOOLEAN, node : Nodes,
                remote : Remotes \cup {BadRemote}]
RawSettings == [heartbeat : Int, dialTimeout : Int, queueTimeout : Int, maxStreams : Int]

\* A document that can be read and parsed or not, with or without `listen`.  A
\* section that is no mapping is one without entries (mappingPairs).
IsDocument(d) ==
    /\ d.parses \in BOOLEAN /\ d.listens \in BOOLEAN
    /\ {d.listen, d.status} \subseteq Ports \cup {NoPort}
    /\ d.settings \in RawSettings
    /\ d.nodes \in Seq(NodeEntries)
    /\ d.ports \in Seq(PortEntries)

ASSUME DocumentsAssumption == \A d \in Documents : IsDocument(d)
ASSUME NoneAssumption == NoPort \notin Ports /\ NoKey \notin Keys /\ BadRemote \notin Remotes

VARIABLES
    doc,        \* raw
    at,         \* where Load is
    i,          \* the entry it comes to
    settings,   \* cfg.Settings
    reserved,   \* the ports of the endpoints
    nodes,      \* cfg.Nodes
    keyOwner,   \* the node that claimed each key
    ports       \* cfg.Ports

vars == <<doc, at, i, settings, reserved, nodes, keyOwner, ports>>

\* What Load returns, as the rest of the server sees it.
Snapshot ==
    [nodes |-> nodes, ports |-> ports, queueTimeout |-> settings.queueTimeout,
     wire |-> [heartbeat |-> settings.heartbeat, dialTimeout |-> settings.dialTimeout,
               maxStreams |-> settings.maxStreams]]

-----------------------------------------------------------------------------
\* The defaults of settings.*, in seconds, of max_streams_per_conn and channels.
Defaults == [heartbeat |-> 15, dialTimeout |-> 10, queueTimeout |-> 5, maxStreams |-> 256]
DefaultChannels == 4

\* parseDuration, and the checks of the two counts.
PositiveOr(v, default) == IF v > 0 THEN v ELSE default

With(f, x, v) == [y \in DOMAIN f \cup {x} |-> IF y = x THEN v ELSE f[y]]

\* Neither a readable document nor `listen` is optional: Load returns an error.
Refuse ==
    /\ at = "begin"
    /\ ~(doc.parses /\ doc.listens)
    /\ at' = "failed"
    /\ UNCHANGED <<doc, i, settings, reserved, nodes, keyOwner, ports>>

\* The settings are completed and the ports of the endpoints reserved.
Begin ==
    /\ at = "begin"
    /\ doc.parses /\ doc.listens
    /\ at' = "nodes"
    /\ settings' = [s \in DOMAIN Defaults |-> PositiveOr(doc.settings[s], Defaults[s])]
    /\ reserved' = {doc.listen, doc.status} \ {NoPort}
    /\ UNCHANGED <<doc, i, nodes, keyOwner, ports>>

\* One turn of the first loop.
NodeSpec(e) == [key |-> e.key, channels |-> PositiveOr(e.channels, DefaultChannels)]

\* The name is new, there is a key and nobody has claimed it.
KeepsNode(e) ==
    /\ e.decodes
    /\ e.name \notin DOMAIN nodes
    /\ e.key # NoKey
    /\ e.key \notin DOMAIN keyOwner

\* Mutant of NodeEntry: an entry that is dropped for its name claims its key.
NodeEntryClaims ==
    /\ at = "nodes"
    /\ i <= Len(doc.nodes)
    /\ LET e == doc.nodes[i]
       IN  /\ nodes' = IF KeepsNode(e) THEN With(nodes, e.name, NodeSpec(e)) ELSE nodes
           /\ keyOwner' = IF e.decodes /\ e.key # NoKey /\ e.key \notin DOMAIN keyOwner
                          THEN With(keyOwner, e.key, e.name) ELSE keyOwner
    /\ i' = i + 1
    /\ UNCHANGED <<doc, at, settings, reserved, ports>>

NodeEntry ==
    /\ at = "nodes"
    /\ i <= Len(doc.nodes)
    /\ LET e == doc.nodes[i]
       IN  IF KeepsNode(e)
           THEN /\ nodes' = With(nodes, e.name, NodeSpec(e))
                /\ keyOwner' = With(keyOwner, e.key, e.name)
           ELSE UNCHANGED <<nodes, keyOwner>>
    /\ i' = i + 1
    /\ UNCHANGED <<doc, at, settings, reserved, ports>>

NodesDone ==
    /\ at = "nodes"
    /\ i > Len(doc.nodes)
    /\ at' = "ports"
    /\ i' = 1
    /\ UNCHANGED <<doc, settings, reserved, nodes, keyOwner, ports>>

\* One turn of the second loop.
PortSpec(e) == [node |-> e.node, remote |-> e.remote]

\* Mutant of IsUsable: a node is looked for in the document, not among the kept.
IsUsableByDocument(e) ==
    /\ e.port \in Ports \ reserved
    /\ e.decodes
    /\ \E j \in DOMAIN doc.nodes : doc.nodes[j].name = e.node
    /\ e.remote # BadRemote

\* A number of its own, a node that was kept and a remote that can be dialled.
IsUsable(e) ==
    /\ e.port \in Ports \ reserved
    /\ e.decodes
    /\ e.node \in DOMAIN nodes
    /\ e.remote # BadRemote

PortEntry ==
    /\ at = "ports"
    /\ i <= Len(doc.ports)
    /\ LET e == doc.ports[i]
       IN  ports' = IF IsUsable(e) /\ e.port \notin DOMAIN ports
                    THEN With(ports, e.port, PortSpec(e)) ELSE ports
    /\ i' = i + 1
    /\ UNCHANGED <<doc, at, settings, reserved, nodes, keyOwner>>

PortsDone ==
    /\ at = "ports"
    /\ i > Len(doc.ports)
    /\ at' = "loaded"
    /\ UNCHANGED <<doc, i, settings, reserved, nodes, keyOwner, ports>>

-----------------------------------------------------------------------------
Empty == [x \in {} |-> x]

Init ==
    /\ doc \in Documents
    /\ at = "begin" /\ i = 1
    /\ settings = Defaults /\ reserved = {}
    /\ nodes = Empty /\ keyOwner = Empty /\ ports = Empty

Next == Refuse \/ Begin \/ NodeEntry \/ NodesDone \/ PortEntry \/ PortsDone

Spec == Init /\ [][Next]_vars

-----------------------------------------------------------------------------
\* Properties.

TypeOK ==
    /\ doc \in Documents
    /\ at \in {"begin", "nodes", "ports", "loaded", "failed"}
    /\ i \in Nat /\ i >= 1
    /\ settings \in [DOMAIN Defaults -> Nat]
    /\ reserved \subseteq Ports
    /\ DOMAIN nodes \subseteq Nodes
    /\ nodes \in [DOMAIN nodes -> [key : Keys, channels : Nat]]
    /\ DOMAIN keyOwner \subseteq Keys
    /\ keyOwner \in [DOMAIN keyOwner -> Nodes]
    /\ DOMAIN ports \subseteq Ports
    /\ ports \in [DOMAIN ports -> [node : Nodes, remote : Remotes]]

\* Whatever the file holds, the rest of the server may rely on what Load returns:
\* keys lead to one node (authenticate goes by the key alone), no reverse port is
\* without its node or takes the port of an endpoint, and no count, interval or
\* timeout is zero or less (config.go:5-6, "a bad entry never blocks startup").
SnapshotIsSound ==
    at = "loaded" =>
        /\ IsConfig(Snapshot)
        /\ \A n \in DOMAIN nodes : nodes[n].key # NoKey /\ nodes[n].channels >= 1
        /\ {doc.listen, doc.status} \cap DOMAIN ports = {}
        /\ \A s \in DOMAIN settings : settings[s] >= 1

\* "keep the first occurrence" (config.go:6): an entry with nothing wrong in itself is in
\* force unless an earlier one that is in force has its name, key or number, and
\* nothing is in force that no entry says.  An entry that was dropped itself
\* stands in nobody's way.
IsGood(e) == e.decodes /\ e.key # NoKey
InForce(ns, e) == IsGood(e) /\ e.name \in DOMAIN ns /\ ns[e.name] = NodeSpec(e)
PortInForce(ps, e) == IsUsable(e) /\ e.port \in DOMAIN ps /\ ps[e.port] = PortSpec(e)

EarlierEntriesWin ==
    at = "loaded" =>
        /\ \A j \in DOMAIN doc.nodes :
             LET e == doc.nodes[j]
             IN  IsGood(e) => \/ InForce(nodes, e)
                              \/ \E k \in 1..(j - 1) :
                                    /\ InForce(nodes, doc.nodes[k])
                                    /\ doc.nodes[k].name = e.name \/ doc.nodes[k].key = e.key
        /\ \A j \in DOMAIN doc.ports :
             LET e == doc.ports[j]
             IN  IsUsable(e) => \/ PortInForce(ports, e)
                                \/ \E k \in 1..(j - 1) :
                                      /\ PortInForce(ports, doc.ports[k])
                                      /\ doc.ports[k].port = e.port
        /\ \A n \in DOMAIN nodes : \E j \in DOMAIN doc.nodes :
             InForce(nodes, doc.nodes[j]) /\ doc.nodes[j].name = n
        /\ \A p \in DOMAIN ports : \E j \in DOMAIN doc.ports :
             PortInForce(ports, doc.ports[j]) /\ doc.ports[j].port = p
=============================================================================
