SPECIFICATION Spec
CONSTANTS
    o12 = o12
    o120 = o120
    Orders = {o12, o120, o7}
    LongerIds <- DistinctIds
    Handlers = {h1, h2}
    NoOrder = NoOrder
    MaxExpiries = 0
    MaxErrors = 0
    MaxAborts = 0
PROPERTIES ExtendsCurrentTerm
CHECK_DEADLOCK FALSE
