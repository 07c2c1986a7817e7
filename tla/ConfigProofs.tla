----------------------------- MODULE ConfigProofs -----------------------------
(***************************************************************************)
(* Theorems about DiffConfig, for any two snapshots config.Load lets       *)
(* through, and about config.Load, for any document.                       *)
(***************************************************************************)
EXTENDS ConfigLoad, TLAPS

\* The snapshots Load may return, as the records the diff looks at.
Snapshots ==
    [nodes : UNION {[S -> [key : Keys, channels : Nat]] : S \in SUBSET Nodes},
     ports : UNION {[S -> [node : Nodes, remote : Remotes]] : S \in SUBSET Ports},
     wire : [heartbeat : Nat, dialTimeout : Nat, maxStreams : Nat],
     queueTimeout : Nat]

-----------------------------------------------------------------------------
\* The removed and the added ports lead from the listeners of any snapshot to
\* those of any other, moved ports included (DiffConfig, diff.go:66-77).
THEOREM DiffMovesListeners ==
    ASSUME NEW old, NEW cur
    PROVE  ListenersReachNew(old, cur)
<1> DEFINE kept == DOMAIN old.ports \ RemovedPorts(old, cur)
<1>1. \A p : p \in kept <=>
         /\ p \in DOMAIN old.ports /\ p \in DOMAIN cur.ports
         /\ old.ports[p].node = cur.ports[p].node
  BY DEF RemovedPorts, Moved
<1>2. \A p : p \in AddedPorts(old, cur) <=>
         /\ p \in DOMAIN cur.ports
         /\ p \notin DOMAIN old.ports \/ old.ports[p].node # cur.ports[p].node
  BY DEF AddedPorts, Moved
<1>3. kept \cup AddedPorts(old, cur) = DOMAIN cur.ports
  BY <1>1, <1>2
<1>4. kept \cap AddedPorts(old, cur) = {}
  BY <1>1, <1>2
<1>5. \A p \in kept : old.ports[p].node = cur.ports[p].node
  BY <1>1
<1> QED
  BY <1>3, <1>4, <1>5 DEF ListenersReachNew

\* When a node is removed the diff names all of its ports and adds none for it:
\* Load refuses a port whose node does not exist (config.go:209-212).
THEOREM DiffStripsRemovedNodes ==
    ASSUME NEW old, NEW cur, IsConfig(cur)
    PROVE  RemovedNodesLoseTheirPorts(old, cur)
<1> SUFFICES ASSUME NEW n \in RemovedNodes(old, cur)
             PROVE  /\ PortsOf(old, n) \subseteq RemovedPorts(old, cur)
                    /\ \A p \in AddedPorts(old, cur) : cur.ports[p].node # n
  BY DEF RemovedNodesLoseTheirPorts
<1>1. \A p \in DOMAIN cur.ports : cur.ports[p].node # n
  BY DEF IsConfig, RemovedNodes
<1>2. PortsOf(old, n) \subseteq RemovedPorts(old, cur)
  BY <1>1 DEF PortsOf, RemovedPorts, Moved
<1>3. \A p \in AddedPorts(old, cur) : cur.ports[p].node # n
  BY <1>1 DEF AddedPorts
<1> QED
  BY <1>2, <1>3

\* A client the diff leaves alone misses nothing, although the diff compares
\* node configs as a whole and never a port or a setting by itself
\* (diff.go:80-97, NodeConfig.Equal in message.go:88-105).
THEOREM DiffSparesOnlyUnchanged ==
    ASSUME NEW old \in Snapshots, NEW cur \in Snapshots
    PROVE  SilentNodesUpToDate(old, cur)
<1> SUFFICES ASSUME NEW n \in Survivors(old, cur),
                    n \notin KeyChangedNodes(old, cur), n \notin ChangedNodes(old, cur)
             PROVE  /\ \A p \in DOMAIN old.ports \cup DOMAIN cur.ports :
                         (p \in DOMAIN old.ports /\ old.ports[p].node = n)
                            <=> (p \in DOMAIN cur.ports /\ cur.ports[p].node = n)
                    /\ \A p \in PortsOf(cur, n) : old.ports[p].remote = cur.ports[p].remote
                    /\ old.nodes[n] = cur.nodes[n]
                    /\ old.wire = cur.wire
  BY DEF SilentNodesUpToDate
<1> DEFINE RemotesOf(c) == [p \in PortsOf(c, n) |-> c.ports[p].remote]
<1>1. n \in DOMAIN old.nodes /\ n \in DOMAIN cur.nodes
  BY DEF Survivors
<1>2. NodeConfig(old, n) = NodeConfig(cur, n) /\ old.nodes[n].key = cur.nodes[n].key
  BY DEF ChangedNodes, KeyChangedNodes
<1>3. /\ NodeConfig(old, n) = [ports |-> RemotesOf(old), channels |-> old.nodes[n].channels,
                               wire |-> old.wire]
      /\ NodeConfig(cur, n) = [ports |-> RemotesOf(cur), channels |-> cur.nodes[n].channels,
                               wire |-> cur.wire]
  BY <1>1 DEF NodeConfig
<1> HIDE DEF RemotesOf
<1>4. /\ RemotesOf(old) = RemotesOf(cur)
      /\ old.wire = cur.wire
      /\ old.nodes[n].channels = cur.nodes[n].channels
  <2>1. NodeConfig(old, n).ports = NodeConfig(cur, n).ports
    BY <1>2
  <2>2. NodeConfig(old, n).wire = NodeConfig(cur, n).wire
    BY <1>2
  <2>3. NodeConfig(old, n).channels = NodeConfig(cur, n).channels
    BY <1>2
  <2>4. /\ NodeConfig(old, n).ports = RemotesOf(old)
        /\ NodeConfig(old, n).wire = old.wire
        /\ NodeConfig(old, n).channels = old.nodes[n].channels
    BY <1>3
  <2>5. /\ NodeConfig(cur, n).ports = RemotesOf(cur)
        /\ NodeConfig(cur, n).wire = cur.wire
        /\ NodeConfig(cur, n).channels = cur.nodes[n].channels
    BY <1>3
  <2> QED
    BY <2>1, <2>2, <2>3, <2>4, <2>5
<1>5. DOMAIN RemotesOf(old) = PortsOf(old, n) /\ DOMAIN RemotesOf(cur) = PortsOf(cur, n)
  BY DEF RemotesOf
<1>6. PortsOf(old, n) = PortsOf(cur, n)
  BY <1>4, <1>5
<1>7. \A p \in PortsOf(cur, n) : old.ports[p].remote = cur.ports[p].remote
  <2> TAKE p \in PortsOf(cur, n)
  <2>1. RemotesOf(old)[p] = old.ports[p].remote /\ RemotesOf(cur)[p] = cur.ports[p].remote
    BY <1>6 DEF RemotesOf
  <2> QED
    BY <1>4, <2>1
<1>8. old.nodes[n] = cur.nodes[n]
  <2>1. old.nodes[n] \in [key : Keys, channels : Nat]
    BY <1>1 DEF Snapshots
  <2>2. cur.nodes[n] \in [key : Keys, channels : Nat]
    BY <1>1 DEF Snapshots
  <2> QED
    BY <1>2, <1>4, <2>1, <2>2
<1>9. \A p \in DOMAIN old.ports \cup DOMAIN cur.ports :
         (p \in DOMAIN old.ports /\ old.ports[p].node = n)
            <=> (p \in DOMAIN cur.ports /\ cur.ports[p].node = n)
  BY <1>6 DEF PortsOf
<1> QED
  BY <1>4, <1>7, <1>8, <1>9

-----------------------------------------------------------------------------
(***************************************************************************)
(* config.Load, for any document.                                          *)
(***************************************************************************)

\* The entries the loops have behind them.
NodesPassed ==
    IF at \in {"begin", "failed"} THEN {}
    ELSE IF at = "nodes" THEN 1..(i - 1) ELSE DOMAIN doc.nodes
PortsPassed ==
    IF at = "ports" THEN 1..(i - 1)
    ELSE IF at = "loaded" THEN DOMAIN doc.ports ELSE {}

\* keyOwner is the inverse of cfg.Nodes.
KeysClaimed ==
    /\ \A n \in DOMAIN nodes : nodes[n].key \in DOMAIN keyOwner /\ keyOwner[nodes[n].key] = n
    /\ \A k \in DOMAIN keyOwner : \E n \in DOMAIN nodes : nodes[n].key = k

\* An entry the first loop passed is in force or gave way to one that is.
GaveWay(j) ==
    \E k \in 1..(j - 1) :
        /\ InForce(nodes, doc.nodes[k])
        /\ doc.nodes[k].name = doc.nodes[j].name \/ doc.nodes[k].key = doc.nodes[j].key
NodesSelected ==
    /\ \A j \in NodesPassed : IsGood(doc.nodes[j]) => InForce(nodes, doc.nodes[j]) \/ GaveWay(j)
    /\ \A n \in DOMAIN nodes : \E j \in NodesPassed :
         InForce(nodes, doc.nodes[j]) /\ doc.nodes[j].name = n

\* The same of the second loop.
PortGaveWay(j) ==
    \E k \in 1..(j - 1) :
        PortInForce(ports, doc.ports[k]) /\ doc.ports[k].port = doc.ports[j].port
PortsSelected ==
    /\ \A j \in PortsPassed :
         IsUsable(doc.ports[j]) => PortInForce(ports, doc.ports[j]) \/ PortGaveWay(j)
    /\ \A p \in DOMAIN ports : \E j \in PortsPassed :
         PortInForce(ports, doc.ports[j]) /\ doc.ports[j].port = p

\* The ports of the endpoints are known before the first entry is looked at.
EndpointsReserved ==
    at \notin {"begin", "failed"} => reserved = {doc.listen, doc.status} \ {NoPort}

\* Each loop starts with the first entry and does not go beyond the last.
InBounds ==
    /\ at = "begin" => i = 1
    /\ at = "nodes" => i <= Len(doc.nodes) + 1
    /\ at = "ports" => i <= Len(doc.ports) + 1

\* No count, interval or timeout is zero or less.
CountsPositive ==
    /\ \A s \in DOMAIN settings : settings[s] >= 1
    /\ \A n \in DOMAIN nodes : nodes[n].channels >= 1

LoadInv ==
    /\ TypeOK /\ InBounds /\ CountsPositive /\ KeysClaimed /\ EndpointsReserved
    /\ NodesSelected /\ PortsSelected

-----------------------------------------------------------------------------
\* An extended function keeps its type.
LEMMA WithType ==
    ASSUME NEW S, NEW T, NEW f, f \in [DOMAIN f -> T], DOMAIN f \subseteq S,
           NEW x \in S, NEW v \in T
    PROVE  /\ DOMAIN With(f, x, v) \subseteq S
           /\ With(f, x, v) \in [DOMAIN With(f, x, v) -> T]
BY DEF With

\* The entries of a document.
LEMMA Entries ==
    ASSUME TypeOK
    PROVE  /\ Len(doc.nodes) \in Nat /\ Len(doc.ports) \in Nat
           /\ DOMAIN doc.nodes = 1..Len(doc.nodes)
           /\ DOMAIN doc.ports = 1..Len(doc.ports)
           /\ \A j \in DOMAIN doc.nodes : doc.nodes[j] \in NodeEntries
           /\ \A j \in DOMAIN doc.ports : doc.ports[j] \in PortEntries
<1>1. doc.nodes \in Seq(NodeEntries) /\ doc.ports \in Seq(PortEntries)
  BY DocumentsAssumption DEF TypeOK, IsDocument
<1> QED
  BY <1>1

\* A count that is absent or invalid is replaced.
LEMMA PositiveOrIsPositive ==
    ASSUME NEW v \in Int, NEW default \in Nat, default >= 1
    PROVE  PositiveOr(v, default) \in Nat /\ PositiveOr(v, default) >= 1
BY DEF PositiveOr

\* The document has not been looked at.
LEMMA LoadInit == Init => LoadInv
<1> SUFFICES ASSUME Init PROVE LoadInv
  OBVIOUS
<1> USE DEF Init
<1>1. TypeOK
  BY DEF TypeOK, Defaults, Empty
<1>2. CountsPositive
  BY DEF CountsPositive, Defaults, Empty
<1>3. KeysClaimed
  BY DEF KeysClaimed, Empty
<1>4. EndpointsReserved /\ InBounds
  BY DEF EndpointsReserved, InBounds
<1>5. NodesSelected
  BY DEF NodesSelected, NodesPassed, Empty
<1>6. PortsSelected
  BY DEF PortsSelected, PortsPassed, Empty
<1> QED
  BY <1>1, <1>2, <1>3, <1>4, <1>5, <1>6 DEF LoadInv

\* The settings are read.
LEMMA BeginLoads == LoadInv /\ (Refuse \/ Begin) => LoadInv'
<1> SUFFICES ASSUME LoadInv, Refuse \/ Begin PROVE LoadInv'
  OBVIOUS
<1>1. CASE Refuse
  <2> USE <1>1 DEF Refuse, LoadInv
  <2>1. TypeOK' /\ InBounds' /\ CountsPositive' /\ KeysClaimed' /\ EndpointsReserved'
    BY DEF TypeOK, InBounds, CountsPositive, KeysClaimed, EndpointsReserved
  <2>2. NodesSelected' /\ PortsSelected'
    BY DEF NodesSelected, PortsSelected, NodesPassed, PortsPassed, InForce, GaveWay, IsGood,
           NodeSpec, IsUsable, PortInForce, PortGaveWay, PortSpec
  <2> QED
    BY <2>1, <2>2
<1>2. CASE Begin
  <2> USE <1>2 DEF Begin, LoadInv
  <2>1. doc.settings \in RawSettings /\ {doc.listen, doc.status} \subseteq Ports \cup {NoPort}
    BY DocumentsAssumption DEF TypeOK, IsDocument
  <2>2. \A s \in DOMAIN Defaults : settings'[s] \in Nat /\ settings'[s] >= 1
    <3> TAKE s \in DOMAIN Defaults
    <3>1. doc.settings[s] \in Int
      BY <2>1 DEF RawSettings, Defaults
    <3>2. Defaults[s] \in Nat /\ Defaults[s] >= 1
      BY DEF Defaults
    <3>3. settings'[s] = PositiveOr(doc.settings[s], Defaults[s])
      OBVIOUS
    <3> QED
      BY <3>1, <3>2, <3>3, PositiveOrIsPositive
  <2>3. settings' \in [DOMAIN Defaults -> Nat] /\ DOMAIN settings' = DOMAIN Defaults
    BY <2>2
  <2>4. TypeOK'
    BY <2>1, <2>3 DEF TypeOK
  <2>5. CountsPositive'
    BY <2>2, <2>3 DEF CountsPositive
  <2>6. KeysClaimed' /\ EndpointsReserved' /\ InBounds'
    <3>1. i' = 1 /\ at' = "nodes" /\ doc' = doc /\ Len(doc.nodes) \in Nat
      BY Entries DEF InBounds
    <3>2. InBounds'
      BY <3>1 DEF InBounds
    <3> QED
      BY <3>2 DEF KeysClaimed, EndpointsReserved
  <2>7. nodes = nodes' /\ DOMAIN nodes = {} /\ DOMAIN ports = {}
    BY DEF NodesSelected, NodesPassed, PortsSelected, PortsPassed
  <2>8. NodesPassed' = {} /\ PortsPassed' = {}
    <3>1. at' = "nodes" /\ i' = 1
      BY DEF InBounds
    <3> QED
      BY <3>1 DEF NodesPassed, PortsPassed
  <2>9. NodesSelected' /\ PortsSelected'
    BY <2>7, <2>8 DEF NodesSelected, PortsSelected
  <2> QED
    BY <2>4, <2>5, <2>6, <2>9
<1> QED
  BY <1>1, <1>2


\* An entry that is kept: what was in force stays so, and it is now.
LEMMA KeepingNode ==
    ASSUME NEW e, KeepsNode(e), nodes' = With(nodes, e.name, NodeSpec(e))
    PROVE  /\ \A f : InForce(nodes, f) => InForce(nodes', f)
           /\ InForce(nodes', e)
           /\ DOMAIN nodes' = DOMAIN nodes \cup {e.name}
           /\ nodes'[e.name] = NodeSpec(e)
           /\ \A n \in DOMAIN nodes : n # e.name /\ nodes'[n] = nodes[n]
<1>1. /\ DOMAIN nodes' = DOMAIN nodes \cup {e.name}
      /\ nodes'[e.name] = NodeSpec(e)
      /\ \A n \in DOMAIN nodes : n # e.name /\ nodes'[n] = nodes[n]
  BY DEF With, KeepsNode
<1>2. \A f : InForce(nodes, f) => InForce(nodes', f)
  BY <1>1 DEF InForce
<1>3. InForce(nodes', e)
  BY <1>1 DEF InForce, IsGood, KeepsNode
<1> QED
  BY <1>1, <1>2, <1>3

\* Its key is claimed for it.
LEMMA ClaimingKey ==
    ASSUME KeysClaimed, NEW e, KeepsNode(e),
           nodes' = With(nodes, e.name, NodeSpec(e)),
           keyOwner' = With(keyOwner, e.key, e.name)
    PROVE  KeysClaimed'
<1>1. /\ DOMAIN nodes' = DOMAIN nodes \cup {e.name}
      /\ nodes'[e.name] = NodeSpec(e)
      /\ \A n \in DOMAIN nodes : n # e.name /\ nodes'[n] = nodes[n]
  BY KeepingNode
<1>2. /\ DOMAIN keyOwner' = DOMAIN keyOwner \cup {e.key}
      /\ keyOwner'[e.key] = e.name
      /\ \A k \in DOMAIN keyOwner : k # e.key /\ keyOwner'[k] = keyOwner[k]
  BY DEF With, KeepsNode
<1>3. nodes'[e.name].key = e.key
  BY <1>1 DEF NodeSpec
<1>4. \A n \in DOMAIN nodes' :
        nodes'[n].key \in DOMAIN keyOwner' /\ keyOwner'[nodes'[n].key] = n
  BY <1>1, <1>2, <1>3 DEF KeysClaimed
<1>5. \A k \in DOMAIN keyOwner' : \E n \in DOMAIN nodes' : nodes'[n].key = k
  BY <1>1, <1>2, <1>3 DEF KeysClaimed
<1> QED
  BY <1>4, <1>5 DEF KeysClaimed

\* A good entry that is not kept gives way to an earlier one.
LEMMA DroppedNodeGaveWay ==
    ASSUME LoadInv, at = "nodes", NEW e, e = doc.nodes[i], IsGood(e), ~KeepsNode(e)
    PROVE  GaveWay(i)
<1>1. PICK n \in DOMAIN nodes : n = e.name \/ nodes[n].key = e.key
  BY DEF KeepsNode, IsGood, LoadInv, KeysClaimed
<1>2. PICK k \in 1..(i - 1) : InForce(nodes, doc.nodes[k]) /\ doc.nodes[k].name = n
  BY DEF LoadInv, NodesSelected, NodesPassed
<1>3. doc.nodes[k].key = nodes[n].key
  BY <1>2 DEF InForce, NodeSpec
<1> QED
  BY <1>1, <1>2, <1>3 DEF GaveWay

\* One turn of the first loop.
LEMMA NodeEntryLoads == LoadInv /\ NodeEntry => LoadInv'
<1> SUFFICES ASSUME LoadInv, NodeEntry PROVE LoadInv'
  OBVIOUS
<1>1. /\ at = "nodes" /\ at' = "nodes" /\ doc' = doc /\ i' = i + 1 /\ i \in DOMAIN doc.nodes
      /\ UNCHANGED <<settings, reserved, ports>>
      /\ i \in Nat /\ i >= 1
  <2>1. i \in Nat /\ i >= 1 /\ i <= Len(doc.nodes) /\ Len(doc.nodes) \in Nat
    BY Entries DEF NodeEntry, LoadInv, TypeOK
  <2>2. i \in DOMAIN doc.nodes
    BY <2>1, Entries DEF LoadInv
  <2> QED
    BY <2>1, <2>2 DEF NodeEntry
<1>2. PICK e \in NodeEntries : e = doc.nodes[i]
  BY <1>1, Entries DEF LoadInv
<1>3. NodesPassed = 1..(i - 1) /\ NodesPassed' = 1..i
  BY <1>1 DEF NodesPassed
<1>4. PortsPassed = {} /\ PortsPassed' = {} /\ DOMAIN ports = {}
  BY <1>1 DEF PortsPassed, LoadInv, PortsSelected
<1>5. PortsSelected' /\ EndpointsReserved' /\ InBounds'
  <2>1. InBounds'
    BY <1>1, Entries DEF InBounds, LoadInv
  <2> QED
    BY <1>1, <1>4, <2>1 DEF PortsSelected, EndpointsReserved, LoadInv
<1>6. 1..i = 1..(i - 1) \cup {i}
  BY <1>1
<1>7. CASE KeepsNode(e)
  <2>1. nodes' = With(nodes, e.name, NodeSpec(e)) /\ keyOwner' = With(keyOwner, e.key, e.name)
    BY <1>2, <1>7 DEF NodeEntry
  <2>2. /\ e.name \in Nodes /\ e.key \in Keys /\ e.channels \in Int
    BY <1>2, <1>7 DEF NodeEntries, KeepsNode
  <2>3. /\ NodeSpec(e) \in [key : Keys, channels : Nat]
        /\ NodeSpec(e).channels >= 1
    <3>1. PositiveOr(e.channels, DefaultChannels) \in Nat
          /\ PositiveOr(e.channels, DefaultChannels) >= 1
      BY <2>2 DEF DefaultChannels, PositiveOr
    <3> QED
      BY <2>2, <3>1 DEF NodeSpec
  <2>4. /\ \A f : InForce(nodes, f) => InForce(nodes', f)
        /\ InForce(nodes', e)
        /\ DOMAIN nodes' = DOMAIN nodes \cup {e.name}
        /\ nodes'[e.name] = NodeSpec(e)
        /\ \A n \in DOMAIN nodes : n # e.name /\ nodes'[n] = nodes[n]
    BY <1>7, <2>1, KeepingNode
  <2>5. TypeOK'
    <3>1. DOMAIN nodes' \subseteq Nodes /\ nodes' \in [DOMAIN nodes' -> [key : Keys, channels : Nat]]
      <4> DEFINE T == [key : Keys, channels : Nat]
      <4>1. /\ DOMAIN nodes \subseteq Nodes /\ nodes \in [DOMAIN nodes -> T]
            /\ NodeSpec(e) \in T
        BY <2>3 DEF LoadInv, TypeOK
      <4>2. DOMAIN nodes' \subseteq Nodes /\ nodes' \in [DOMAIN nodes' -> T]
        <5> HIDE DEF T
        <5> QED
          BY <2>1, <2>2, <4>1, WithType
      <4> QED
        BY <4>2
    <3>2. DOMAIN keyOwner' \subseteq Keys /\ keyOwner' \in [DOMAIN keyOwner' -> Nodes]
      <4>1. DOMAIN keyOwner \subseteq Keys /\ keyOwner \in [DOMAIN keyOwner -> Nodes]
        BY DEF LoadInv, TypeOK
      <4> QED
        BY <2>1, <2>2, <4>1, WithType
    <3> QED
      BY <1>1, <3>1, <3>2 DEF LoadInv, TypeOK
  <2>6. CountsPositive'
    BY <1>1, <2>3, <2>4 DEF LoadInv, CountsPositive
  <2>7. KeysClaimed'
    BY <1>7, <2>1, ClaimingKey DEF LoadInv
  <2>8. NodesSelected'
    <3>1. ASSUME NEW j \in 1..i, IsGood(doc.nodes[j])
          PROVE  \/ InForce(nodes', doc.nodes[j])
                 \/ \E k \in 1..(j - 1) :
                      /\ InForce(nodes', doc.nodes[k])
                      /\ doc.nodes[k].name = doc.nodes[j].name \/ doc.nodes[k].key = doc.nodes[j].key
      <4>1. CASE j = i
        BY <4>1, <1>2, <2>4
      <4>2. CASE j # i
        <5>1. InForce(nodes, doc.nodes[j]) \/ GaveWay(j)
          BY <4>2, <3>1, <1>3, <1>6 DEF LoadInv, NodesSelected
        <5> QED
          BY <5>1, <2>4 DEF GaveWay
      <4> QED
        BY <4>1, <4>2
    <3>2. ASSUME NEW n \in DOMAIN nodes'
          PROVE  \E j \in 1..i : InForce(nodes', doc.nodes[j]) /\ doc.nodes[j].name = n
      <4>1. CASE n = e.name
        BY <4>1, <1>2, <1>6, <2>4
      <4>2. CASE n # e.name
        <5>1. PICK j \in 1..(i - 1) : InForce(nodes, doc.nodes[j]) /\ doc.nodes[j].name = n
          BY <4>2, <2>4, <1>3 DEF LoadInv, NodesSelected
        <5> QED
          BY <5>1, <1>6, <2>4
      <4> QED
        BY <4>1, <4>2
    <3> QED
      BY <1>1, <1>3, <3>1, <3>2 DEF NodesSelected, GaveWay
  <2> QED
    BY <1>5, <2>5, <2>6, <2>7, <2>8 DEF LoadInv
<1>8. CASE ~KeepsNode(e)
  <2>1. UNCHANGED <<nodes, keyOwner>>
    BY <1>2, <1>8 DEF NodeEntry
  <2>2. TypeOK' /\ CountsPositive' /\ KeysClaimed'
    BY <1>1, <2>1 DEF LoadInv, TypeOK, CountsPositive, KeysClaimed
  <2>3. IsGood(e) => GaveWay(i)
    BY <1>1, <1>2, <1>8, DroppedNodeGaveWay
  <2>4. \A j \in 1..i : IsGood(doc.nodes[j]) => InForce(nodes, doc.nodes[j]) \/ GaveWay(j)
    BY <1>2, <1>3, <1>6, <2>3 DEF LoadInv, NodesSelected
  <2>5. \A n \in DOMAIN nodes : \E j \in 1..i :
          InForce(nodes, doc.nodes[j]) /\ doc.nodes[j].name = n
    BY <1>3, <1>6 DEF LoadInv, NodesSelected
  <2>6. NodesSelected'
    BY <1>1, <1>3, <2>1, <2>4, <2>5 DEF NodesSelected, GaveWay
  <2> QED
    BY <1>5, <2>2, <2>6 DEF LoadInv
<1> QED
  BY <1>7, <1>8

\* The first loop is left for the second.
LEMMA NodesDoneLoads == LoadInv /\ NodesDone => LoadInv'
<1> SUFFICES ASSUME LoadInv, NodesDone PROVE LoadInv'
  OBVIOUS
<1>1. /\ at = "nodes" /\ at' = "ports" /\ i' = 1
      /\ UNCHANGED <<doc, settings, reserved, nodes, keyOwner, ports>>
  BY DEF NodesDone
<1>2. 1..(i - 1) = DOMAIN doc.nodes /\ Len(doc.ports) \in Nat
  <2>1. i \in Nat /\ i > Len(doc.nodes) /\ i <= Len(doc.nodes) + 1 /\ Len(doc.nodes) \in Nat
    BY <1>1, Entries DEF NodesDone, LoadInv, TypeOK, InBounds
  <2>2. i - 1 = Len(doc.nodes)
    BY <2>1
  <2> QED
    BY <2>2, Entries DEF LoadInv
<1>3. InBounds'
  BY <1>1, <1>2 DEF InBounds
<1>4. TypeOK' /\ CountsPositive' /\ KeysClaimed' /\ EndpointsReserved'
  BY <1>1 DEF LoadInv, TypeOK, CountsPositive, KeysClaimed, EndpointsReserved
<1>5. NodesPassed' = NodesPassed /\ PortsPassed = {} /\ PortsPassed' = {}
  BY <1>1, <1>2 DEF NodesPassed, PortsPassed
<1>6. NodesSelected'
  BY <1>1, <1>5 DEF LoadInv, NodesSelected, GaveWay
<1>7. PortsSelected'
  BY <1>1, <1>5 DEF LoadInv, PortsSelected
<1> QED
  BY <1>3, <1>4, <1>6, <1>7 DEF LoadInv

\* One turn of the second loop.
LEMMA PortEntryLoads == LoadInv /\ PortEntry => LoadInv'
<1> SUFFICES ASSUME LoadInv, PortEntry PROVE LoadInv'
  OBVIOUS
<1>1. /\ at = "ports" /\ at' = "ports" /\ doc' = doc /\ i' = i + 1 /\ i \in DOMAIN doc.ports
      /\ UNCHANGED <<settings, reserved, nodes, keyOwner>>
      /\ i \in Nat /\ i >= 1
  <2>1. i \in Nat /\ i >= 1 /\ i <= Len(doc.ports) /\ Len(doc.ports) \in Nat
    BY Entries DEF PortEntry, LoadInv, TypeOK
  <2>2. i \in DOMAIN doc.ports
    BY <2>1, Entries DEF LoadInv
  <2> QED
    BY <2>1, <2>2 DEF PortEntry
<1>2. PICK e \in PortEntries : e = doc.ports[i]
  BY <1>1, Entries DEF LoadInv
<1>3. PortsPassed = 1..(i - 1) /\ PortsPassed' = 1..i /\ NodesPassed' = NodesPassed
  BY <1>1 DEF PortsPassed, NodesPassed
<1>4. 1..i = 1..(i - 1) \cup {i}
  BY <1>1
<1>5. /\ CountsPositive' /\ KeysClaimed' /\ EndpointsReserved'
      /\ NodesSelected'
  BY <1>1, <1>3
  DEF LoadInv, CountsPositive, KeysClaimed, EndpointsReserved, NodesSelected, GaveWay
<1>6. InBounds'
  BY <1>1, Entries DEF InBounds, LoadInv
<1>7. \A f : IsUsable(f)' <=> IsUsable(f)
  BY <1>1 DEF IsUsable
<1>8. CASE IsUsable(e) /\ e.port \notin DOMAIN ports
  <2>1. ports' = With(ports, e.port, PortSpec(e))
    BY <1>2, <1>8 DEF PortEntry
  <2>2. e.port \in Ports /\ PortSpec(e) \in [node : Nodes, remote : Remotes]
    BY <1>2, <1>8 DEF PortEntries, IsUsable, PortSpec
  <2>3. /\ DOMAIN ports' = DOMAIN ports \cup {e.port}
        /\ ports'[e.port] = PortSpec(e)
        /\ \A p \in DOMAIN ports : p # e.port /\ ports'[p] = ports[p]
    BY <1>8, <2>1 DEF With
  <2>4. \A f : PortInForce(ports, f) => PortInForce(ports', f)
    BY <2>3 DEF PortInForce
  <2>5. PortInForce(ports', e)
    BY <1>8, <2>3 DEF PortInForce
  <2>6. TypeOK'
    <3> DEFINE T == [node : Nodes, remote : Remotes]
    <3>1. DOMAIN ports \subseteq Ports /\ ports \in [DOMAIN ports -> T] /\ PortSpec(e) \in T
      BY <2>2 DEF LoadInv, TypeOK
    <3>2. DOMAIN ports' \subseteq Ports /\ ports' \in [DOMAIN ports' -> T]
      <4> HIDE DEF T
      <4> QED
        BY <2>1, <2>2, <3>1, WithType
    <3> QED
      BY <1>1, <3>2 DEF LoadInv, TypeOK
  <2>7. ASSUME NEW j \in 1..i, IsUsable(doc.ports[j])
        PROVE  \/ PortInForce(ports', doc.ports[j])
               \/ \E k \in 1..(j - 1) :
                    PortInForce(ports', doc.ports[k]) /\ doc.ports[k].port = doc.ports[j].port
    <3>1. CASE j = i
      BY <3>1, <1>2, <2>5
    <3>2. CASE j # i
      <4>1. PortInForce(ports, doc.ports[j]) \/ PortGaveWay(j)
        BY <3>2, <2>7, <1>3, <1>4 DEF LoadInv, PortsSelected
      <4> QED
        BY <4>1, <2>4 DEF PortGaveWay
    <3> QED
      BY <3>1, <3>2
  <2>8. ASSUME NEW p \in DOMAIN ports'
        PROVE  \E j \in 1..i : PortInForce(ports', doc.ports[j]) /\ doc.ports[j].port = p
    <3>1. CASE p = e.port
      BY <3>1, <1>2, <1>4, <2>5
    <3>2. CASE p # e.port
      <4>1. PICK j \in 1..(i - 1) : PortInForce(ports, doc.ports[j]) /\ doc.ports[j].port = p
        BY <3>2, <2>3, <1>3 DEF LoadInv, PortsSelected
      <4> QED
        BY <4>1, <1>4, <2>4
    <3> QED
      BY <3>1, <3>2
  <2>9. PortsSelected'
    BY <1>1, <1>3, <2>7, <2>8 DEF PortsSelected, PortGaveWay, PortInForce, IsUsable
  <2> QED
    BY <1>5, <1>6, <2>6, <2>9 DEF LoadInv
<1>9. CASE ~(IsUsable(e) /\ e.port \notin DOMAIN ports)
  <2>1. ports' = ports
    BY <1>2, <1>9 DEF PortEntry
  <2>2. TypeOK'
    BY <1>1, <2>1 DEF LoadInv, TypeOK
  <2>3. IsUsable(e) => PortGaveWay(i)
    <3> SUFFICES ASSUME IsUsable(e) PROVE PortGaveWay(i)
      OBVIOUS
    <3>1. e.port \in DOMAIN ports
      BY <1>9
    <3>2. PICK k \in 1..(i - 1) : PortInForce(ports, doc.ports[k]) /\ doc.ports[k].port = e.port
      BY <3>1, <1>3 DEF LoadInv, PortsSelected
    <3> QED
      BY <1>2, <3>2 DEF PortGaveWay
  <2>4. \A j \in 1..i :
          IsUsable(doc.ports[j]) => PortInForce(ports, doc.ports[j]) \/ PortGaveWay(j)
    BY <1>2, <1>3, <1>4, <2>3 DEF LoadInv, PortsSelected
  <2>5. \A p \in DOMAIN ports : \E j \in 1..i :
          PortInForce(ports, doc.ports[j]) /\ doc.ports[j].port = p
    BY <1>3, <1>4 DEF LoadInv, PortsSelected
  <2>6. PortsSelected'
    BY <1>1, <1>3, <2>1, <2>4, <2>5 DEF PortsSelected, PortGaveWay, PortInForce, IsUsable
  <2> QED
    BY <1>5, <1>6, <2>2, <2>6 DEF LoadInv
<1> QED
  BY <1>8, <1>9

\* The second loop is left.
LEMMA PortsDoneLoads == LoadInv /\ PortsDone => LoadInv'
<1> SUFFICES ASSUME LoadInv, PortsDone PROVE LoadInv'
  OBVIOUS
<1>1. /\ at = "ports" /\ at' = "loaded" /\ i' = i
      /\ UNCHANGED <<doc, settings, reserved, nodes, keyOwner, ports>>
  BY DEF PortsDone
<1>2. 1..(i - 1) = DOMAIN doc.ports
  <2>1. i \in Nat /\ i > Len(doc.ports) /\ i <= Len(doc.ports) + 1 /\ Len(doc.ports) \in Nat
    BY <1>1, Entries DEF PortsDone, LoadInv, TypeOK, InBounds
  <2>2. i - 1 = Len(doc.ports)
    BY <2>1
  <2> QED
    BY <2>2, Entries DEF LoadInv
<1>3. TypeOK' /\ InBounds' /\ CountsPositive' /\ KeysClaimed' /\ EndpointsReserved'
  BY <1>1 DEF LoadInv, TypeOK, InBounds, CountsPositive, KeysClaimed, EndpointsReserved
<1>4. NodesPassed' = NodesPassed /\ PortsPassed' = PortsPassed
  BY <1>1, <1>2 DEF NodesPassed, PortsPassed
<1>5. NodesSelected'
  BY <1>1, <1>4 DEF LoadInv, NodesSelected, GaveWay
<1>6. PortsSelected'
  BY <1>1, <1>4 DEF LoadInv, PortsSelected, PortGaveWay, PortInForce, IsUsable
<1> QED
  BY <1>3, <1>5, <1>6 DEF LoadInv

\* Every step.
LEMMA LoadNext == LoadInv /\ [Next]_vars => LoadInv'
<1> SUFFICES ASSUME LoadInv, [Next]_vars PROVE LoadInv'
  OBVIOUS
<1>1. CASE Next
  BY <1>1, BeginLoads, NodeEntryLoads, NodesDoneLoads, PortEntryLoads, PortsDoneLoads DEF Next
<1>2. CASE UNCHANGED vars
  <2> USE <1>2 DEF vars, LoadInv
  <2>1. TypeOK' /\ InBounds' /\ CountsPositive' /\ KeysClaimed' /\ EndpointsReserved'
    BY DEF TypeOK, InBounds, CountsPositive, KeysClaimed, EndpointsReserved
  <2>2. NodesPassed' = NodesPassed /\ PortsPassed' = PortsPassed
    BY DEF NodesPassed, PortsPassed
  <2>3. NodesSelected'
    BY <2>2 DEF NodesSelected, GaveWay
  <2>4. PortsSelected'
    BY <2>2 DEF PortsSelected, PortGaveWay, PortInForce, IsUsable
  <2> QED
    BY <2>1, <2>3, <2>4
<1> QED
  BY <1>1, <1>2

-----------------------------------------------------------------------------
\* The loop invariant.
THEOREM LoadInvariant == Spec => []LoadInv
BY LoadInit, LoadNext, PTL DEF Spec

\* Every variable of Load keeps its type.
THEOREM TypeCorrect == Spec => []TypeOK
<1>1. LoadInv => TypeOK
  BY DEF LoadInv
<1> QED
  BY LoadInvariant, <1>1, PTL

\* What Load returns meets what the server assumes of a snapshot: unique keys,
\* ports of nodes that exist and not of the endpoints, positive counts and times
\* (config.go:150-220).
THEOREM LoadedSnapshotIsSound == Spec => []SnapshotIsSound
<1>1. LoadInv => SnapshotIsSound
  <2> SUFFICES ASSUME LoadInv, at = "loaded"
               PROVE  /\ IsConfig(Snapshot)
                      /\ \A n \in DOMAIN nodes : nodes[n].key # NoKey /\ nodes[n].channels >= 1
                      /\ {doc.listen, doc.status} \cap DOMAIN ports = {}
                      /\ \A s \in DOMAIN settings : settings[s] >= 1
    BY DEF SnapshotIsSound
  <2>1. \A m, n \in DOMAIN nodes : nodes[m].key = nodes[n].key => m = n
    BY DEF LoadInv, KeysClaimed
  <2>2. \A p \in DOMAIN ports : p \in Ports \ reserved /\ ports[p].node \in DOMAIN nodes
    <3> TAKE p \in DOMAIN ports
    <3>1. PICK e : IsUsable(e) /\ ports[p] = PortSpec(e) /\ e.port = p
      BY DEF LoadInv, PortsSelected, PortInForce
    <3> QED
      BY <3>1 DEF IsUsable, PortSpec
  <2>3. IsConfig(Snapshot)
    BY <2>1, <2>2 DEF IsConfig, Snapshot, LoadInv, TypeOK
  <2>4. \A n \in DOMAIN nodes : nodes[n].key # NoKey /\ nodes[n].channels >= 1
    BY NoneAssumption DEF LoadInv, TypeOK, CountsPositive
  <2>5. {doc.listen, doc.status} \cap DOMAIN ports = {}
    BY <2>2, NoneAssumption DEF LoadInv, EndpointsReserved
  <2> QED
    BY <2>3, <2>4, <2>5 DEF LoadInv, CountsPositive
<1> QED
  BY LoadInvariant, <1>1, PTL

\* Document order decides: the first of two entries that exclude each other is kept,
\* and a dropped one excludes nobody (config.go:150-220).
THEOREM DocumentOrderDecides == Spec => []EarlierEntriesWin
<1>1. LoadInv => EarlierEntriesWin
  <2> SUFFICES ASSUME LoadInv, at = "loaded" PROVE EarlierEntriesWin
    BY DEF EarlierEntriesWin
  <2>1. NodesPassed = DOMAIN doc.nodes /\ PortsPassed = DOMAIN doc.ports
    BY DEF NodesPassed, PortsPassed
  <2> QED
    BY <2>1
    DEF LoadInv, NodesSelected, PortsSelected, GaveWay, PortGaveWay, EarlierEntriesWin
<1> QED
  BY LoadInvariant, <1>1, PTL

\* So the theorems about DiffConfig above are about whatever two documents a reload
\* goes between.
THEOREM LoadedIsSnapshot == Spec => [](at = "loaded" => Snapshot \in Snapshots)
<1>1. LoadInv => Snapshot \in Snapshots
  <2> SUFFICES ASSUME TypeOK PROVE Snapshot \in Snapshots
    BY DEF LoadInv
  <2>1. nodes \in UNION {[S -> [key : Keys, channels : Nat]] : S \in SUBSET Nodes}
    BY DEF TypeOK
  <2>2. ports \in UNION {[S -> [node : Nodes, remote : Remotes]] : S \in SUBSET Ports}
    BY DEF TypeOK
  <2>3. /\ settings.heartbeat \in Nat /\ settings.dialTimeout \in Nat
        /\ settings.queueTimeout \in Nat /\ settings.maxStreams \in Nat
    BY DEF TypeOK, Defaults
  <2> QED
    BY <2>1, <2>2, <2>3 DEF Snapshot, Snapshots
<1> QED
  BY LoadInvariant, <1>1, PTL
=============================================================================
