SPECIFICATION TranscriptSpec
CONSTANTS
    NoTurn = 0
    CallIds = {k1, k2}
    Workers = {}
    Outcomes = {"ok", "error"}
    Reports = {}
    Numbered = TRUE
    MaxFrames = 4
    MaxAttempts = 2
INVARIANT
    StreamIsDrawn
CHECK_DEADLOCK FALSE
