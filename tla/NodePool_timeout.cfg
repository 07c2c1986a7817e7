CONSTANTS
    Requests = {r1, r2}
    Channels = {c1}
    NoChannel = NoChannel
    Limits = {1}
    InitLimit = 1
SPECIFICATION FairSpec
\* Requests are made once and a closed session has nothing left to do.
CHECK_DEADLOCK FALSE
PROPERTY QueueTimeoutHonoured
