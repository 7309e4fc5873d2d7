\* One client against its token bucket.
SPECIFICATION Spec
CONSTANTS
    Clients = {c1}
    Handlers = {h1}
    Rate = 1
    Burst = 2
    MaxClients = 2
    Idle = 30
    Limit = 2
    Failures = FALSE
    MaxTime = 2
    MaxRequests = 5
CHECK_DEADLOCK FALSE
INVARIANTS RateBounded
