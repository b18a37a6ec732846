SPECIFICATION FairSpec
CONSTANTS
  Orders = {o1}
  Handlers = {h1, h2}
  NoOrder = NoOrder
  MaxErrors = 1
  MaxAborts = 1
CHECK_DEADLOCK FALSE
INVARIANTS
  CreditedAtMostOnce
  CompletedIsSettled
  RebatesAreAccounted
PROPERTIES
  PaymentIsNotLost
  PaymentIsFulfilled
  ImplementsLedger
