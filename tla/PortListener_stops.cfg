CONSTANTS
    Listeners = {l1, l2}
    Conns = {c1}
    NoListener = NoListener
    Graceful = {TRUE}
SPECIFICATION FairSpec
\* Every listener and connection is used once.
CHECK_DEADLOCK FALSE
INVARIANTS ListeningIsTrue
PROPERTIES SeenSocketStaysClosed WantedPortIsBound ForcedStopCutsTracked
