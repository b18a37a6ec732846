SPECIFICATION SlotsSpec
CONSTANTS
    a = a
    b = b
    a1 = a1
    b1 = b1
    b2 = b2
    Requests = {a1, b1, b2}
    Instances = {a, b}
    InstanceOf <- Serving
    MaxConcurrency = 2
    MaxWait = 2
    SlotTTL = 2
    WaitQueueTTL = 2
    MaxTime = 3
    MaxErrors = 1
    MaxRestarts = 1
SYMMETRY RequestSymmetry
INVARIANTS LimitHolds ServedHasSlot QueueIsBounded CountIsExplained
CHECK_DEADLOCK FALSE
