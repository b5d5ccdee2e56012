SPECIFICATION Spec
CONSTANTS
    Symbols = {btc, eth}
    Sessions = {A, B}
    NoSession = NoSession
    MaxFill = 2
    MaxQty = 2
    MaxIds = 3
    MaxFaults = 2
SYMMETRY Symmetry
INVARIANTS TypeOK RowsAgree
PROPERTIES ClosedRowsAreFinal ImplementsNetPosition
CHECK_DEADLOCK FALSE
