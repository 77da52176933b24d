SPECIFICATION Spec
CONSTANTS
    Clients = {"c"}
    Loopback = {"p"}
    Proxies = {"p", "q"}
    NetSets = {{}, {"q"}, {"p", "q"}}
    MaxForged = 1
    MaxRelays = 2
    MaxItems = 2
    MaxBytes = 3
    Sizes = {1, 2}
    Timeout = 1
    MaxBuffered = 2
    MaxProgress = 1
INVARIANTS
    NamesWhoConnected
    SecureIsAProxysWord
    ExtractorsAgree
    NoCallWithoutKey
    RefusedIsNotAnonymous
    OkIsWhole
