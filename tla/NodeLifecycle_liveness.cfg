CONSTANTS
    n1 = n1  n2 = n2  p1 = p1  k1 = k1  k2 = k2  k3 = k3
    w1 = w1  w2 = w2  remote = remote
    Nodes = {n1}
    Ports = {p1}
    Handlers = {h1, h2}
    Configs <- Everything
    InitConfig <- Base
    MaxReloads = 1
    Reloader = Reloader
    NoConfig = NoConfig
    NoSession = NoSession
    NoNode = NoNode
SPECIFICATION FairSpec
\* Every connection is used once and the process may have exited.
CHECK_DEADLOCK FALSE
PROPERTIES ClosedSessionMakesRoom OnlineNodeHasItsPorts OutdatedSessionIsClosed
    ServedNodeGetsConfig SessionStaysCurrent
