SPECIFICATION Spec
CONSTANTS
    Requests = {r1, r2}
    Flushers = {f1, f2}
    Limits = {1, 2}
    NoLimit = NoLimit
    NoDay = NoDay
    Nil = Nil
    Modes = {TRUE, FALSE}
    FirstRows <- Rows
    MaxCharges = 2
    MaxDay = 1
    MaxAdmin = 1
    MaxFaults = 1
SYMMETRY Symmetry
INVARIANTS UsageIsCounted RowIsRight ChangeHolds
CHECK_DEADLOCK FALSE
