SPECIFICATION MCSpec
CONSTANTS
    c1 = c1
    c2 = c2
    Clients = {c1, c2}
    Requests = {"auto", "shutdown"}
    Watcher = Watcher
    Signal = Signal
    NoTask = NoTask
    Capacity = 1
    ReplyCap = 1
    WireCap = 1
    MaxEvents = 1
    MaxChanges = 0
    write = write
    base = base
    NoModel = NoModel
    NoCall = NoCall
    SystemPrompt = SystemPrompt
    ContextNote = ContextNote
    Summary = Summary
INVARIANT ExitZeroIsSuccess
