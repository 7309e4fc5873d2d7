\* Two instances, one Redis lease, finitely many faults of every kind.
SPECIFICATION FairSpec
CONSTANTS
    None = None
    Instances = {i1, i2}
    Ids = {a}
    Interval = 2
    Ttl = 5
    MaxDelay = 1
    Concurrency = 1
    MaxFaults = 2
INVARIANTS TypeOK OneSweeper
PROPERTIES NeverStolen EventuallyRenewed ShutdownCompletes
