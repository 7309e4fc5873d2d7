\* Two requests at a time, two sessions, room for one, one credential.
SPECIFICATION FairSpec
CONSTANTS
    Handlers = {h1, h2}
    Visitors = {v}
    MaxSessions = 1
    MaxConnections = 2
    Window = 1
    Ttl = 1
    VaultChoices = {TRUE}
    MaxConnects = 2
    MaxCreds = 1
CHECK_DEADLOCK FALSE
INVARIANTS TypeOK NoClientForgotten NoneLeftBehind
PROPERTIES ClientsClosed CloseReturns
