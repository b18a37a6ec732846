SPECIFICATION Spec
CONSTANTS
    o12 = o12
    o120 = o120
    Orders = {o12, o120, o7}
    LongerIds <- ShortId
    Handlers = {h1, h2, h3}
    NoOrder = NoOrder
    MaxExpiries = 1
    MaxErrors = 1
    MaxAborts = 1
SYMMETRY HandlerSymmetry
INVARIANTS GrantedOnce CompletedIsGranted TermIsNoted
CHECK_DEADLOCK FALSE
