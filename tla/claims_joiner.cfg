\* The configuration of claims_shared, smaller: is every holder told?
SPECIFICATION Spec
CONSTANTS
    Names = {n}
    Adaptors = {a, b}
    FlagSets <- MCFlagged
    MaxToken = 2
    MaxQueue = 2
    CallsMayTimeOut = FALSE
    LinkMayDrop = FALSE
INVARIANT HoldersInformed
CHECK_DEADLOCK FALSE
