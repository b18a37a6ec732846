SPECIFICATION Spec
CONSTANTS
    Requests = {r1, r2, r3}
    Fingerprints = {f1, f2}
    NoFingerprint = NoFingerprint
    TTL = 3
    ProcessingTimeout = 2
    FailedRetryBackoff = 1
    MaxTime = 5
SYMMETRY RequestSymmetry
INVARIANTS OneExecution EffectOnce
PROPERTIES ReplayIsOwn
CHECK_DEADLOCK FALSE
