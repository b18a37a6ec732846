SPECIFICATION Spec
CONSTANTS
    Requests = {r1, r2, r3}
    Fingerprints = {f1}
    NoFingerprint = NoFingerprint
    TTL = 2
    ProcessingTimeout = 1
    FailedRetryBackoff = 1
    MaxTime = 4
SYMMETRY RequestSymmetry
INVARIANT SingleSideEffect
CHECK_DEADLOCK FALSE
