CONSTANTS
    a1 = a1  a2 = a2
    Addrs = {a1, a2}
    Off = Off
    Broken = Broken
    Configs <- Moving
    MaxWrites = 2
    MaxFailures = 1
SPECIFICATION FairSpec
\* The process exits.
CHECK_DEADLOCK FALSE
INVARIANTS NeverDeaf NoStray ServedAsPublished
PROPERTIES ReloadCatchesUp ShutdownEnds
