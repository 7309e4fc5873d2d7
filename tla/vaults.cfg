\* Two concurrent calls, three keys, one lost answer or changed permission.
SPECIFICATION Spec
CONSTANTS
    Kinds = {"aws", "gcp", "azure"}
    Callers = {c1, c2}
    MaxKeys = 3
    MaxFaults = 1
SYMMETRY Symmetry
CHECK_DEADLOCK FALSE
INVARIANTS TypeOK StaleOnlyByOverlap RevokedIsUnreadable LoneDeliveryLands
