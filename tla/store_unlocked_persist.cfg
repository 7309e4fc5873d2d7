\* Provision persists while another call is rotating.
SPECIFICATION Spec
CONSTANTS
    a = a
    b = b
    i1 = i1
    i2 = i2
    t1 = t1
    t2 = t2
    aws = aws
    Ids = {a, b}
    Instances = {i1}
    Threads = {t1, t2}
    Host <- OneHost
    Providers = {aws}
    ProviderOf <- SameProvider
    Discovered <- DiscoverA
    Ops = {"provision", "rotate"}
    NativeResults = {"unsupported"}
    CommonResults = {"unsupported"}
    PerKeySecrets = FALSE
    FillOnCreate = {}
    PersistResults = {"ok"}
    NoticeCap = 0
    MaxOps = 2
CHECK_DEADLOCK FALSE
INVARIANTS NoneStuck
