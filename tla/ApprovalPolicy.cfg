CONSTANTS
    Sessions = {s1, s2}
    Batches <- MixedBatches
    Configs <- FourConfigs
SPECIFICATION Spec
SYMMETRY AnySession
INVARIANTS
    CountsMatch
    RefusedNeverRuns
    DecisionsHold
    DangerIsApproved
