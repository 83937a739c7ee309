SPECIFICATION MCSpec
CONSTANTS
    Posix = FALSE
    Procs = {p1, p2}
    Threads = {t1}
    Keep = 1
    Budget = 2
    SizeOf <- SizeOfId
    MaxId = 5
    NoThread = NoThread
    Turns = {a, b}
    NoTurn = NoTurn
    Sequences1 = {1, 2}
    Attempts = {0, 1}
    MaxEvents = 3
    MsgIds = {m1, m2}
    Internal = {m2}
    MaxWrites = 3
    MaxOps = 2
    MaxTurns = 3
    MaxMessages = 4
CONSTRAINT Focus
SYMMETRY Symmetry
INVARIANTS
    ReadsBackWhatWasWritten
    HistoryOrSummary
    
PROPERTIES
    RetentionIsSound
    AttemptsSendTheSame
CHECK_DEADLOCK FALSE
