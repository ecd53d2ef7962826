\* Two flagged adaptor slots that share one name.
SPECIFICATION Spec
CONSTANTS
    Names = {n}
    Adaptors = {a, b}
    FlagSets <- MCFlagged
    MaxToken = 5
    MaxQueue = 2
    CallsMayTimeOut = TRUE
    LinkMayDrop = FALSE
INVARIANTS OwnedIsAnnounced NoLostWake RefsCountHolders OwnershipAgrees NoGhostOwner
CHECK_DEADLOCK FALSE
