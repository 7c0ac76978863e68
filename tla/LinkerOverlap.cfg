CONSTANTS
    Linkers = {l1, l2}
    Relations = {r1, r2}
SPECIFICATION Spec
INVARIANT CountsReflectUpdates
\* Every linker may be over.
CHECK_DEADLOCK FALSE
