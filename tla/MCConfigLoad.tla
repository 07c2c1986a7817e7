----------------------------- MODULE MCConfigLoad -----------------------------
(* ConfigLoad over every document of a few short entries. *)
EXTENDS ConfigLoad, SequencesExt

CONSTANTS n1, n2, n3, k1, k2, remote

SomeNodes ==
    [name : {n1, n2}, decodes : {TRUE}, key : {k1, k2}, channels : {2}]
        \cup {[name |-> n1, decodes |-> TRUE, key |-> NoKey, channels |-> 2],
              [name |-> n2, decodes |-> FALSE, key |-> k1, channels |-> 2],
              [name |-> n3, decodes |-> TRUE, key |-> k1, channels |-> -1]}

SomePorts ==
    [port : {1, 2}, decodes : {TRUE}, node : {n1, n2}, remote : {remote}]
        \cup {[port |-> NoPort, decodes |-> TRUE, node |-> n1, remote |-> remote],
              [port |-> 3, decodes |-> TRUE, node |-> n1, remote |-> remote],
              [port |-> 1, decodes |-> FALSE, node |-> n1, remote |-> remote],
              [port |-> 1, decodes |-> TRUE, node |-> n3, remote |-> BadRemote]}

\* The settings are absent, invalid or given; port 3 is reserved, and port 2 where
\* the status endpoint has it.
SomeDocuments ==
    [parses : {TRUE}, listens : {TRUE}, listen : {3}, status : {NoPort, 2},
     settings : {[heartbeat |-> 0, dialTimeout |-> -1, queueTimeout |-> 1, maxStreams |-> 0]},
     nodes : BoundedSeq(SomeNodes, 3), ports : BoundedSeq(SomePorts, 2)]
        \cup [parses : BOOLEAN, listens : {FALSE}, listen : {NoPort}, status : {NoPort},
              settings : {[heartbeat |-> 0, dialTimeout |-> 0, queueTimeout |-> 0,
                           maxStreams |-> 0]},
              nodes : {<<>>}, ports : {<<>>}]
=============================================================================
