\* One adaptor slot, plain or flagged: is every released name withdrawn?
SPECIFICATION Spec
CONSTANTS
    Names = {n}
    Adaptors = {a}
    FlagSets <- MCFlagSets
    MaxToken = 4
    MaxQueue = 2
    CallsMayTimeOut = FALSE
    LinkMayDrop = FALSE
INVARIANT NoGhostOwner
CHECK_DEADLOCK FALSE
