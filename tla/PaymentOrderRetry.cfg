SPECIFICATION Spec
CONSTANTS
  Orders = {o1}
  Handlers = {h1}
  NoOrder = NoOrder
  MaxErrors = 0
  MaxAborts = 1
CHECK_DEADLOCK FALSE
INVARIANT
  PaidOrderCanBeRetried
