\* The same property is written at one object and then at another.
SPECIFICATION Spec
CONSTANTS
    t1 = t1
    t2 = t2
    Targets = {t1, t2}
    Services = {s1}
    ServiceOf <- OneService
    PlaceOf <- OwnPlace
    Props = {p}
    Values = {v, w}
    Unsendable = {}
    Null = Null
    Nowhere = Nowhere
    MaxInvalidated = 1
    WriteKinds = {TRUE}
    CrossWrites = TRUE
    Budgets <- MCCross
INVARIANTS WritesGoWhereAimed
CHECK_DEADLOCK FALSE
