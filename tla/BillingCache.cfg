SPECIFICATION Spec
CONSTANTS
    Requests = {r1, r2}
    Workers = {w1, w2}
    MaxCharges = 2
    Credits = {c1}
    FirstBalance = 1
    QueueSize = 1
    Nil = Nil
    MaxFaults = 1
SYMMETRY Symmetry
INVARIANTS ChargesAreCounted CreditsAreSeen CountedOnce StopLeavesNothing
