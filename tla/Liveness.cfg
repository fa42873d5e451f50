SPECIFICATION MCSpec
CONSTANTS
    a = a
    b = b
    image = image
    InstanceCount = 1
    Tasks <- MCTasks
    Image = image
    NoTask = NoTask
    Mutator = Mutator
    Original = Original
    MaxFaults = 1
    MaxCrash = 1
    k1 = k1
    s1 = s1
    Calls = {k1}
    Socks = {s1}
    NoSock = NoSock
    QueueLimit = 1
    WireLimit = 1
    main = main
    http = http
    n1 = n1
    n2 = n2
    Clients = {n1, n2}
    NoClient = NoClient
    Requests = {main, http}
    Main = main
    MaxSaves = 2
    MaxOutages = 1
    o1 = o1
    o2 = o2
    FileOps = {o1, o2}
    MaxStops = 2
    MaxDbFaults = 1
    SyncItems = 2
    MaxRetries = 1
    g1 = g1
    g2 = g2
    a1 = a1
    none = none
    Games = {g1, g2}
    NetAccounts = {a1}
    NoAccountSaved = none
    Batch = 1
    MaxRuns = 1
    MaxAccountSaves = 1
    MaxRemoteFaults = 1
    MaxPanelStops = 1
    h1 = h1
    w1 = w1
    w2 = w2
    SyncRequests = {h1}
    Workers = {w1, w2}
    MaxLinks = 2
    MaxGames = 1
    MaxExpire = 1
    MaxPxTrouble = 1
CHECK_DEADLOCK FALSE
INVARIANTS
    AuditIsTrue
    CompletedItemsArrived
PROPERTIES
    TasksEnd
    CallsEnd
    KeepsPromise
    Converges
    EveryOperationIsAudited
    FileSyncEnds
    EveryGameIsTried
    ProxyKeepsUp
