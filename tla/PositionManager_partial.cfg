SPECIFICATION Spec
CONSTANTS
    Symbols = {btc}
    Sessions = {A}
    NoSession = NoSession
    MaxFill = 2
    MaxQty = 2
    MaxIds = 2
    MaxFaults = 0
INVARIANT OpenRowsAreThePosition
CHECK_DEADLOCK FALSE
