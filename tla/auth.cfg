\* Two tabs of one browser, two signing keys, answers that take one unit of time.
SPECIFICATION FairSpec
CONSTANTS
    Handlers = {h1, h2}
    Browsers = {b}
    StateTtl = 1
    SessionTtl = 1
    KeyTtl = 2
    MaxDelay = 1
    MaxLogins = 2
    MaxKeys = 2
INVARIANTS TypeOK PublishedKeyKnown CookieNamesSession
PROPERTIES WithdrawnKeyExpires RequestsEnd
