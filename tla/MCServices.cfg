SPECIFICATION MCSpec
CONSTANTS
    s1 = s1
    p1 = p1
    p2 = p2
    Servers = {s1}
    Pids = {p1, p2}
    NoPid = NoPid
    NoOp = NoOp
    Note = Note
    MaxCalls = 2
    MaxNotes = 1
    MaxSpawns = 2
    c1 = c1
    Clients = {c1}
    Requests = {"auto", "ask", "status", "shutdown"}
    Watcher = Watcher
    Signal = Signal
    NoTask = NoTask
    TaskCap = 1
    ReplyCap = 1
    WireCap = 1
    MaxTurnEvents = 2
    MaxChanges = 1
    Callers = {"ralph", "autonomous"}
    MaxIterations = 3
    RalphTokens = 3
    EventCap = 2
    RalphEvents = 3
    RalphPerTurn = 2
    Earlier = {0, 2, 3}
    MaxSprints = 2
    MaxAttempts = 2
    MaxTokens = 1
    TurnLimit = 1
    MaxPlan = 3
    PerTurn = 1
    MaxRuns = 2
    x = x
    y = y
    open = open
    save = save
    NoName = NoName
    Replies <- MCReplies
    ChunkCap = 1
    MaxRetries = 2
    MaxRequests = 2
INVARIANTS ServicesTypeOK LimitsBound OutcomeIsTrue StatusIsTrue FeedbackIsCurrent
    AnswersMatch CleanupIsExact AnswerIsWhole
PROPERTIES TurnsEnd StopEnds ClientsAreServed WaitsEnd
