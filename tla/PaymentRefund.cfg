SPECIFICATION FairSpec
CONSTANTS
    Orders = {o1}
    Handlers = {h1, h2}
    NoOrder = NoOrder
    Amount = 2
    Balance = 3
    MaxSpent = 1
    MaxErrors = 1
    MaxLost = 1
    MaxAborts = 1
INVARIANTS PaidBackOnce RefundIsTruthful FailureCostsNothing TakesNoMoreThanPaidBack
PROPERTIES RefundingEnds
CHECK_DEADLOCK FALSE
