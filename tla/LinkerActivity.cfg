CONSTANTS
    Linkers = {l1, l2}
    Relations = {r1, r2}
SPECIFICATION Spec
SYMMETRY Symmetry
INVARIANTS
    NoIdleGap
    IdleInTheEnd
\* Every linker may be over.
CHECK_DEADLOCK FALSE
