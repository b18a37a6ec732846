CONSTANTS
    c1 = c1
    c2 = c2
    c3 = c3
    c4 = c4
    i1 = i1
    i2 = i2
    f1 = f1
    f2 = f2
    Cmds = {c1, c2, c3, c4}
    Ids = {i1, i2}
    Fps = {f1, f2}
    NoFp = NoFp
    Updates = {u1, u2}
    IdOf <- ThisId
    FpOf <- ThisFp
    RowsOf <- ThisRows
    KeyCost <- Cost
    AccountCost <- Cost
    Quotas = {1, 3}
    FirstQuota = 3
    AccountLimit = 2
SPECIFICATION Spec
SYMMETRY DeliverySymmetry
INVARIANTS ChargedOnce ChargedWhole AnswerIsTrue LimitIsAnnounced UsageIsCounted
PROPERTIES ChargeClosesKey ImplementsBillingLedger
CHECK_DEADLOCK FALSE
