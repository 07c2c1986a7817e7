CONSTANTS
    n1 = n1
    n2 = n2
    n3 = n3
    k1 = k1
    k2 = k2
    remote = remote
    Nodes = {n1, n2, n3}
    Ports = {1, 2, 3}
    NoConfig = NoConfig
    Keys = {k1, k2}
    NoKey = NoKey
    Remotes = {remote}
    BadRemote = BadRemote
    NoPort = NoPort
    Documents <- SomeDocuments
SPECIFICATION Spec
\* Load returns once.
CHECK_DEADLOCK FALSE
INVARIANTS SnapshotIsSound EarlierEntriesWin
