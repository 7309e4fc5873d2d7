\* Two instances that share a repository and reload on notifications.
SPECIFICATION Spec
CONSTANTS
    a = a
    b = b
    i1 = i1
    i2 = i2
    t1 = t1
    t2 = t2
    aws = aws
    Ids = {a, b}
    Instances = {i1, i2}
    Threads = {t1, t2}
    Host <- TwoHosts
    Providers = {aws}
    ProviderOf <- SameProvider
    Discovered <- DiscoverA
    Ops = {"register", "rotate", "retire", "delete"}
    NativeResults = {"unsupported"}
    CommonResults = {"unsupported"}
    PerKeySecrets = FALSE
    FillOnCreate = {}
    PersistResults = {"ok", "unpublished", "lost"}
    NoticeCap = 1
    MaxOps = 3
CHECK_DEADLOCK FALSE
INVARIANTS IdsUnique RunsExplained
PROPERTIES RenewingUndisturbed
