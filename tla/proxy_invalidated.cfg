\* One object that invalidates two properties at once.
SPECIFICATION Spec
CONSTANTS
    t1 = t1
    t2 = t2
    Targets = {t1}
    Services = {s1}
    ServiceOf <- OneService
    PlaceOf <- OwnPlace
    Props = {p, q}
    Values = {v, w}
    Unsendable = {}
    Null = Null
    Nowhere = Nowhere
    MaxInvalidated = 2
    WriteKinds = {TRUE}
    CrossWrites = FALSE
    Budgets <- MCInvalidated
INVARIANTS Converges
CHECK_DEADLOCK FALSE
