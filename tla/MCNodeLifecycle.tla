-------------------------- MODULE MCNodeLifecycle ---------------------------
(* The snapshots the runs of NodeLifecycle reload between.                   *)
EXTENDS NodeLifecycle, TLC

CONSTANTS n1, n2, p1, k1, k2, k3, remote, w1, w2

Snapshot(nodes, ports, wire) ==
    [nodes |-> nodes, ports |-> ports, wire |-> wire, queueTimeout |-> 1]
Node(key) == [key |-> key, channels |-> 1]
To(n) == [node |-> n, remote |-> remote]

Nothing == [x \in {} |-> x]

\* One node with one port ...
Base == Snapshot(n1 :> Node(k1), p1 :> To(n1), w1)
\* ... that is removed, gets another key, loses its port, is sent new settings.
Emptied == Snapshot(Nothing, Nothing, w1)
Rekeyed == Snapshot(n1 :> Node(k2), p1 :> To(n1), w1)
Portless == Snapshot(n1 :> Node(k1), Nothing, w1)
Resettled == Snapshot(n1 :> Node(k1), p1 :> To(n1), w2)

\* A node that is removed while its port moves to another node.
PortAtFirst ==
    Snapshot((n1 :> Node(k1)) @@ (n2 :> Node(k2)), p1 :> To(n1), w1)
SecondTakesOver == Snapshot(n2 :> Node(k2), p1 :> To(n2), w1)

\* The first node gets another key.
FirstRekeyed ==
    Snapshot((n1 :> Node(k3)) @@ (n2 :> Node(k2)), p1 :> To(n1), w1)

\* The least instance on which OfflineNodeReleasesPorts can fail.
PortChange == {Portless, Base}
TakingOver == {PortAtFirst, SecondTakesOver, FirstRekeyed}
Everything == {Base, Emptied, Rekeyed, Portless, Resettled}

InterchangeableHandlers == Permutations(Handlers)
=============================================================================
