\* Three calls of any kind; the application may destroy what it was given.
SPECIFICATION Spec
CONSTANTS
    MaxReplies = 3
    Names = {n}
    CallMakers = {"proxy"}
    Handlers = {"plain", "capturing"}
    NoReply = NoReply
INVARIANTS AnswersTheLiving
\* Nothing is left to do when all calls are made and answered.
CHECK_DEADLOCK FALSE
