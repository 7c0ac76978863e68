CONSTANTS
    t1 = t1  t2 = t2
    Threads = {t1, t2}
    Shared = {t1}
    First = t1
    MaxMessages = 1
    MaxCommands = 2
    MaxFaults = 1
    MaxRestarts = 2
    \* Each fault and each restart can leave a cron thread behind.
    MaxCrons = 5
    None = None
SPECIFICATION Spec
INVARIANTS
    TypeOK
    OnePushPerMessage
PROPERTIES
    QuietStaysQuiet
    CronServes
\* Serve may be stopped for good.
CHECK_DEADLOCK FALSE
