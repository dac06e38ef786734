SPECIFICATION MCSpec
CONSTANTS
    m1 = m1
    m2 = m2
    Message = {m1, m2}
    SystemPrompt = SystemPrompt
    ContextNote = ContextNote
    Summary = Summary
    Legacy <- OldConversations
    KeepRecent = 1
    MaxMessages = 3
    MaxContext = 2
    WatchCap = 1
    MaxChanges = 3
    MaxPresses = 2
    Places = 1
    EventCap = 1
    MaxCalls = 2
    MaxLines = 2
    MaxPieces = 2
CONSTRAINT Bounded
PROPERTY CompactedRecovery
CHECK_DEADLOCK FALSE
