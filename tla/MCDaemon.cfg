SPECIFICATION MCSpec
CONSTANTS
    c1 = c1
    c2 = c2
    Clients = {c1, c2}
    Requests = {"auto", "ask", "status", "shutdown"}
    Watcher = Watcher
    Signal = Signal
    NoTask = NoTask
    Capacity = 1
    ReplyCap = 1
    WireCap = 1
    MaxEvents = 2
    MaxChanges = 1
    write = write
    base = base
    NoModel = NoModel
    NoCall = NoCall
    SystemPrompt = SystemPrompt
    ContextNote = ContextNote
    Summary = Summary
SYMMETRY AnyOrder
INVARIANTS ExitCodeIsTrue OutputIsTurn AcknowledgedIsStopping NoUnapprovedMutation
