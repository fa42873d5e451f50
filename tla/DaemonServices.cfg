SPECIFICATION MCSpec
CONSTANTS
    p1 = p1
    h1 = h1
    w1 = w1
    w2 = w2
    a = a
    b = b
    c1 = c1
    c2 = c2
    u = u
    t1 = t1
    Workers = {w1, w2}
    MaxLinks = 2
    MaxGames = 1
    MaxExpire = 1
    Panels = {p1}
    Handlers = {h1}
    MaxEdits = 2
    MaxTrouble = 1
    Paths = {a, b}
    Contents = {c1, c2}
    Uploaded = u
    UploadPath = a
    Size = 3
    Chunk = 2
    MaxAttempts = 2
    MaxOps = 1
    MaxWrites = 1
    MaxCrashes = 1
    MaxIOFaults = 1
    MaxLost = 2
    MaxExpired = 1
    MaxMishaps = 3
    Builds = {1, 2}
    MaxRequests = 3
    MaxStarts = 3
    MaxDeaths = 1
    MaxDiskFaults = 2
    Terminals = {t1}
    LineBuffer = 1
    ConsoleLines = 2
    MaxLines = 2
    MaxSessions = 2
    MaxAttaches = 2
    MaxBoots = 1
    MaxDrops = 1
INVARIANTS
    RevisionMeansContent
    FilesRecoverable
    RequestsAreKept
    ConsoleIsContiguous
PROPERTIES
    OperatorsConverge
    UploadEnds
    FlagSettles
    TerminalCatchesUp
CHECK_DEADLOCK FALSE
