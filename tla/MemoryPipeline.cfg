CONSTANTS
    t1 = t1  t2 = t2  p1 = p1  p2 = p2
    Turns = {t1, t2}
    Observations = {o1}
    Projects = {p1, p2}
    ProjectOf <- TwoTurns
    None = None
SPECIFICATION Spec
INVARIANTS
    TypeOK
    CreditedOnce
    NothingOverlooked
    NoneLost
    LinkedOnce
    NothingStranded
PROPERTIES
    PendingDrains
\* Every turn may be over.
CHECK_DEADLOCK FALSE
