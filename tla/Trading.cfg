SPECIFICATION MCSpec
CONSTANTS
    Callers = {c1, c2}
    NoCaller = NoCaller
    Orders = {b1, b2}
    NoOrder = NoOrder
    Qty <- MCQty
    b1 = b1
    b2 = b2
    MaxRetries = 1
    MaxFaults = 1
    MaxDowns = 1
    Symbols = {btc}
    PaperOrders = {o1, o2}
    Sessions = {A, B}
    NoSession = NoSession
    MaxQty = 2
    MinRequests = 2
    HalfOpenMax = 2
    MaxRequests = 2
    MaxCrashes = 1
CONSTRAINT Bound
SYMMETRY Symmetry
INVARIANTS FillsAreBooked  TableFollowsExchange
PROPERTIES EndsAreKept
CHECK_DEADLOCK FALSE
