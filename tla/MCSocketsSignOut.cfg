SPECIFICATION Spec
CONSTANTS
    c1 = c1  c2 = c2  s1 = s1  s2 = s2  direct = direct  proxy = proxy
    Anonymous = Anonymous  Nobody = Nobody  NoPermit = NoPermit
    Conns <- OneConn
    IPs <- TwoAddresses
    Sessions <- TwoSessions
    Servers <- SignedIn
    MaxPending = 1
    MaxPerPrincipal = 1
    MaxAnonymous = 1
    MaxAnonymousPerIp = 1
    MaxCalls = 1
INVARIANT
    OwnSignOutOnly
CHECK_DEADLOCK FALSE
