\* Every element in turn, between two names at each of two peers.
SPECIFICATION Spec
CONSTANTS
    Kinds <- AllKinds
    Peers = {d1, d2}
    Session = d1
    Names = {n, m}
    Nowhere = Nowhere
    Items = {i, j}
    None = None
    CrossAnswers = FALSE
    MoveWhilePinged = FALSE
    Budgets <- MCBudgets
INVARIANTS TypeOK RightAtRest ExactlyOnce ProbeStands
PROPERTY LossIsNoticed
\* Nothing happens any more once the bounds are used up.
CHECK_DEADLOCK FALSE
