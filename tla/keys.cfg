\* Creation, rotations and retirement on every provider, with failures and crashes.
SPECIFICATION FairSpec
CONSTANTS
    Kinds = {"aws", "gcp", "azure"}
    Ceiling <- Ceilings
    Retires = TRUE
    MaxRotations = 3
    MaxFaults = 3
CHECK_DEADLOCK FALSE
INVARIANTS TypeOK RetiredKeyless AsPlanned
PROPERTIES InUseUntilReplaced OneKeyAfterRotation RecordedKeyWorks RetrySucceeds
