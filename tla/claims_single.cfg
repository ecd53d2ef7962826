\* One adaptor slot, plain or flagged, on a connection that may die and with
\* blocking calls that may time out.
SPECIFICATION FairSpec
CONSTANTS
    Names = {n}
    Adaptors = {a}
    FlagSets <- MCFlagSets
    MaxToken = 4
    MaxQueue = 2
    CallsMayTimeOut = TRUE
    LinkMayDrop = TRUE
INVARIANTS TypeOK HoldersInformed ToldInTurn
PROPERTY NoticeSettles
\* The application may attach nothing any more, and a dead connection brings nothing.
CHECK_DEADLOCK FALSE
