SPECIFICATION MCSpec
CONSTANTS
    Chats = {c1}
    NoChat = NoChat
    MaxTasks = 3
    MaxShown = 2
    MaxInFlight = 2
    MaxDenials = 2
    MaxAsked = 3
INVARIANTS
    LiveTaskIsTracked
    ScreenIsSettled
PROPERTIES
    CtrlCEndsTheTask
    EveryQuestionIsAnswered
CHECK_DEADLOCK FALSE
