CONSTANTS
    Requests = {r1, r2}
    Channels = {c1, c2}
    NoChannel = NoChannel
    Limits = {1, 2}
    InitLimit = 1
SPECIFICATION Spec
SYMMETRY Interchangeable
\* Requests are made once and a closed session has nothing left to do.
CHECK_DEADLOCK FALSE
INVARIANTS CountersExact WorkConserving QueueExact
PROPERTIES BookingsWithinLimit FifoSpec
