CONSTANTS
    Streams = {s1}
    Counts = {0, 2}
    MaxWorkers = 3
    MaxSessions = 2
SPECIFICATION FairSpec
\* A client that has left does nothing any more.
CHECK_DEADLOCK FALSE
INVARIANTS ExactlyTarget NothingCarriedOver ByeAfterStreams
PROPERTIES TeardownEnds LeavingEnds
