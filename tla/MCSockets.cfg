SPECIFICATION FairSpec
CONSTANTS
    c1 = c1  c2 = c2  s1 = s1  s2 = s2  direct = direct  proxy = proxy
    Anonymous = Anonymous  Nobody = Nobody  NoPermit = NoPermit
    Conns <- TwoConns
    IPs <- OneAddress
    Sessions <- OneSession
    Servers <- MCServers
    MaxPending = 1
    MaxPerPrincipal = 1
    MaxAnonymous = 1
    MaxAnonymousPerIp = 1
    MaxCalls = 1
INVARIANTS
    PlacesExact
    SocketsWithinQuotas
PROPERTIES
    StopEndsAll
    SignOutCloses
\* A stopped server's connections may all be over.
CHECK_DEADLOCK FALSE
