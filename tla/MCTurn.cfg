SPECIFICATION UserSpec
CONSTANTS
    read = read
    write = write
    base = base
    fast = fast
    Tools = {read, write}
    ReadOnly = {read}
    Models = {base, fast}
    Base = base
    NoModel = NoModel
    Route <- Routes
    NoCall = NoCall
    Approver <- UserOnly
    SystemPrompt = SystemPrompt
    ContextNote = ContextNote
    Summary = Summary
    KeepRecent = 2
    MaxTurns = 1
    MaxRounds = 2
    MaxCalls = 2
    MaxCrashes = 1
    MaxFaults = 1
INVARIANTS TypeOK OneLateCall ResultsFollowCalls ResultsAreTrue CompleteIsAnswered EffectsAreRecorded ModelRestored
PROPERTIES CancelEndsTurn LogSpec
