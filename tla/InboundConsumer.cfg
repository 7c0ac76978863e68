CONSTANTS
    m1 = m1  m2 = m2  m3 = m3  m4 = m4  m5 = m5
    a = a  b = b  s1 = s1  s2 = s2 
    Messages = {m1, m2, m3, m4, m5}
    Arrivals <- Five
    Chats = {a, b}
    ChatOf <- InTwoChats
    Senders = {s1, s2}
    SenderOf <- ByTwo
    Workers = {w1, w2, w3}
    MaxPending = 2
    MaxHumanRounds = 1
    MaxRounds = 3
    CreateSuspends = FALSE
    CloseFails = TRUE
    MayStop = TRUE
    None = None
    Sentinel = Sentinel
SPECIFICATION Spec
SYMMETRY AnyWorker
INVARIANTS
    TypeOK
    SerialPerChat
    PromptsReachable
    FreshTurnsNotParked
PROPERTIES
    TurnsInOrder
\* All messages may be handled.
CHECK_DEADLOCK FALSE
