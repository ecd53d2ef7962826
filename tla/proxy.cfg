\* Two objects of one service, one property; writes to one object at a time.
SPECIFICATION Spec
CONSTANTS
    t1 = t1
    t2 = t2
    Targets = {t1, t2}
    Services = {s1}
    ServiceOf <- OneService
    PlaceOf <- OwnPlace
    Props = {p}
    Values = {v, w}
    Unsendable = {u}
    Null = Null
    Nowhere = Nowhere
    MaxInvalidated = 1
    WriteKinds = {TRUE}
    CrossWrites = FALSE
    Budgets <- MCBudgets
INVARIANTS TypeOK Converges OneSetOnTheWire WritesGoWhereAimed NeverDeaf
\* All is said and done once the bounds are used up.
CHECK_DEADLOCK FALSE
