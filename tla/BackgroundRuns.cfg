CONSTANTS
    l1 = l1  l2 = l2
    Launches = {l1, l2}
    MaxPollFailures = 3
    DeleteThreadOnFinish = TRUE
    Faults <- EitherClient
SPECIFICATION Spec
INVARIANTS
    NoStrayRun
    NoThreadLeft
PROPERTIES
    LifecycleSafety
    TrackedRunsEnd
    WorkingThreadsKept
\* Every launch may have ended.
CHECK_DEADLOCK FALSE
