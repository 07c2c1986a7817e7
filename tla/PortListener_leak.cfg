CONSTANTS
    Listeners = {l1, l2}
    Conns = {c1}
    NoListener = NoListener
    Graceful = {}
SPECIFICATION FairSpec
\* Every listener and connection is used once.
CHECK_DEADLOCK FALSE
PROPERTY StoppedPortIsReleased
