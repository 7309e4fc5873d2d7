\* One caller at a time: every operation, vault and repository outcome, restarts.
SPECIFICATION Spec
CONSTANTS
    a = a
    b = b
    i1 = i1
    i2 = i2
    t1 = t1
    t2 = t2
    aws = aws
    Ids = {a, b}
    Instances = {i1}
    Threads = {t1}
    Host <- OneHost
    Providers = {aws}
    ProviderOf <- SameProvider
    Discovered <- DiscoverA
    Ops = {"provision", "register", "rotate", "retire", "delete", "use"}
    NativeResults = {"ok", "unsupported", "error"}
    CommonResults = {"ok", "unsupported", "error"}
    PerKeySecrets = TRUE
    FillOnCreate = {aws}
    PersistResults = {"ok", "unpublished", "lost"}
    NoticeCap = 0
    MaxOps = 3
CHECK_DEADLOCK FALSE
INVARIANTS TypeOK NoneStuck NoOrphanEvents VaultHoldsItsKey
 
