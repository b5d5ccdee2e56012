SPECIFICATION Spec
CONSTANTS
    Names = {"a", "b", "c", "d"}
    Swaps = {"s1", "s2", "s3"}
    Started = {"a", "b"}
    Spares = {"r1"}
    Restarting = {"a", "c"}
    MaxReports = 2
    OldName <- Old
    NewName <- New
INVARIANTS TypeOK SuccessorIsUpToDate TerminatedOnlyIfReplaced SwapsAreWhole
CHECK_DEADLOCK FALSE
