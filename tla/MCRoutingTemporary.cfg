SPECIFICATION Spec
CONSTANTS
    read = read
    write = write
    base = base
    fast = fast
    Tools = {read, write}
    ReadOnly = {read}
    Models = {base, fast}
    Base = base
    NoModel = NoModel
    Route <- Routes
    NoCall = NoCall
    Approver <- UserOnly
    SystemPrompt = SystemPrompt
    ContextNote = ContextNote
    Summary = Summary
    KeepRecent = 2
    MaxTurns = 1
    MaxRounds = 1
    MaxCalls = 1
    MaxCrashes = 0
    MaxFaults = 0
INVARIANT RoutingIsTemporary
