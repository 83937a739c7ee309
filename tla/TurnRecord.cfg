SPECIFICATION MCSpec
CONSTANTS
    Calls = {c1, c2}
    MaxTurns = 2
    MaxRuns = 3
    NoTurn = 0
    CallIds = {k1, k2}
    Workers = {w}
    Outcomes = {"ok", "exit", "rejected"}
    Reports = {"running", "failed", "missing"}
    Numbered = FALSE
    MaxFrames = 5
    MaxAttempts = 2
    Processes = {s1, s2}
    Themes = {black, light}
    Projects = {d1, d2, d3}
    Callers = {a1, a2}
    LocksWork = TRUE
    Limit = 2
    MaxSettings = 2
    MaxOpened = 3
    MaxLogins = 2
    Rungs <- MCRungs
    MaxEntries = 3
    Escaping = 2
    ResumeLimit = 8
    ClippedText = 1
    NoteSize = 2
    ReadLimit = 4
    HeaderSize = 1
    Chats <- MCChats
    Queries = {1, 4}
    Results = {0, 1, 4}
    PartialTexts = {0, 4}
    Files <- MCFiles
    MaxEvents = 3
    MaxStarts = 3
CONSTRAINT Focus
INVARIANTS
    UnfinishedTurnIsKept
    ResumeIsFaithful
    CommittedTurnIsWhole
    TranscriptIsFaithful
    
    FilesAreSound
    
CHECK_DEADLOCK FALSE
