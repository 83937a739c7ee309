SPECIFICATION ContextSpec
CONSTANTS
    MaxTurns = 3
    MaxMessages = 5
INVARIANT
    EveryAnswerIsSent
CHECK_DEADLOCK FALSE
