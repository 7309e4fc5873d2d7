\* A Retire between a rotation and its write-back.
SPECIFICATION FairSpec
CONSTANTS
    a = a
    b = b
    i1 = i1
    i2 = i2
    t1 = t1
    t2 = t2
    aws = aws
    Ids = {a}
    Instances = {i1}
    Threads = {t1, t2}
    Host <- OneHost
    Providers = {aws}
    ProviderOf <- SameProvider
    Discovered <- DiscoverA
    Ops = {"rotate", "retire"}
    NativeResults = {"ok"}
    CommonResults = {"unsupported"}
    PerKeySecrets = FALSE
    FillOnCreate = {}
    PersistResults = {"none"}
    NoticeCap = 0
    MaxOps = 2
CHECK_DEADLOCK FALSE
PROPERTIES RetiredIsFinal
