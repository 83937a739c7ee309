SPECIFICATION MCSpec
CONSTANTS
    MaxPrompts = 2
    MaxCancels = 1
    MaxUsage = 1
    Overlap = FALSE
    Calls = {k1, k2}
    Hosts = {"tui", "acp", "nobody", "validate"}
    QuestionTimeout = 1
    ResultWindow = 2
    Threads = {"t1", "t2"}
    ChatModels = {"m"}
    Workspaces = {"w1", "w2"}
    Skilled = {"w1"}
    Selector = TRUE
    MaxChoices = 3
    Tokens <- MCTokens
    Typed <- MCTyped
    KindOf <- MCKind
    Finds <- MCFinds
    Folders = {"w1", "w2"}
    Contents <- MCContents
    MaxKeys = 3
    MaxMoves = 1
    MaxPieces = 3
INVARIANTS
    StopReasonFollowsCancel
    AnswersMatchTheThread
    NothingRunsUnapproved
    
    
PROPERTIES
    CancelEndsThePrompt
CHECK_DEADLOCK FALSE
