\* Two requests at a time: a quota of one, three clients, two buckets.
SPECIFICATION FairSpec
CONSTANTS
    Clients = {c1, c2, c3}
    Handlers = {h1, h2}
    Rate = 1
    Burst = 1
    MaxClients = 2
    Idle = 1
    Limit = 1
    Failures = TRUE
    MaxTime = 2
    MaxRequests = 4
CHECK_DEADLOCK FALSE
INVARIANTS TypeOK QuotaHeld
PROPERTIES RequestsEnd
