\* Concurrent callers, in-memory store, no vault.
SPECIFICATION FairSpec
CONSTANTS
    a = a
    b = b
    i1 = i1
    i2 = i2
    t1 = t1
    t2 = t2
    aws = aws
    Ids = {a, b}
    Instances = {i1}
    Threads = {t1, t2}
    Host <- OneHost
    Providers = {aws}
    ProviderOf <- SameProvider
    Discovered <- DiscoverA
    Ops = {"provision", "rotate", "retire", "delete"}
    NativeResults = {"unsupported"}
    CommonResults = {"unsupported"}
    PerKeySecrets = FALSE
    FillOnCreate = {}
    PersistResults = {"none"}
    NoticeCap = 0
    MaxOps = 3
CHECK_DEADLOCK FALSE
PROPERTIES KeysDieByRetirement FollowsLifecycle CallsReturn
