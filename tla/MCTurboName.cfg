SPECIFICATION MCSpec
CONSTANTS
    f1 = f1
    f2 = f2
    Absent = Absent
    File = {f1, f2}
    NoFile = NoFile
    Capacity = 1
    MaxEvents = 2
    MaxWrites = 1
    MaxChanges = 2
    MaxOpens = 1
    Procs = {"q1", "q2"}
    None = "none"
    Personas = {"sparkle", "homelab"}
    Kids = {"sparkle"}
    Skills = {"kids-first", "infra"}
    KidsSkills = {"kids-first"}
    AutoSkills <- MCAutoSkills
    EnvOf <- MCEnvOf
    Models = {"m1", "m2"}
    Default = "m1"
    Profiled = {"m1"}
    Profiles <- MCProfiles
    Foreign = "foreign"
    MaxSessions = 2
    MaxStarts = 2
    MaxCommands = 2
    MaxTurns = 2
    MaxLives = 3
    Paths = {"file", "nested", "outside"}
    Elsewhere = {"outside"}
    Nested = {"nested"}
    Texts <- MCTexts
    Missing = Absent
    NoTool = Absent
    old = "old"
    new = "new"
    MaxCalls = 2
    MaxSaves = 1
    Terminals = {"p", "q"}
    Asking = {"shell", "file_write"}
    ToolGoal = 2
    TalkGoal = 2
    MaxTalks = 2
    MaxOpened = 2
    Tool = {"shell", "grep"}
    Threshold = 1
    MaxLines = 2
    MaxOutputs = 3
    MaxSecond = 1
    Root = "root"
    Sub = "sub"
    NoDir = "no folder"
    Items <- MCItems
    MaxInits = 2
    MaxLoads = 2
    MaxEdits = 1
    Project = {"quiz", "robot"}
    Steps <- MCSteps
    NoProject = "no project"
    MaxNext = 4
    Prompts = {"p", "q"}
    Plain = {"plain"}
    Bracketed = {"[word]"}
    Empty = ""
    MaxSeconds = 1
    MaxNotes = 2
INVARIANT TurboNameMatches
CHECK_DEADLOCK FALSE
