CONSTANTS
    Threads = {c1, c2}
    Tasks = {a}
    MaxRuns = 2
    None = None
SPECIFICATION Spec
INVARIANTS
    TypeOK
    InjectedAtHome
PROPERTIES
    OncePerRun
    EndsReachTheAgent
