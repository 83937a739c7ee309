SPECIFICATION Spec
CONSTANTS
    Chats = {c1}
    NoChat = NoChat
    MaxTasks = 1
INVARIANTS
    CancelDoesNotCrash
CHECK_DEADLOCK FALSE
