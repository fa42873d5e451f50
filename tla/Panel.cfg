SPECIFICATION MCSpec
CONSTANTS
    t = t
    x = x
    Tasks = {t}
    Targets = {x}
    MaxRuns = 2
    Kinds = {"once", "interval"}
    NoTask = NoTask
    Never = Never
    MaxTime = 2
    Period = 1
    Grace = 0
    MaxEdits = 2
    MaxFaults = 1
    MaxCrash = 1
    main = main
    r1 = r1
    r2 = r2
    n1 = n1
    n2 = n2
    Clients = {n1, n2}
    NoClient = NoClient
    Requests = {main, r1, r2}
    Main = main
    MaxSaves = 2
    MaxOutages = 1
    k1 = k1
    s1 = s1
    s2 = s2
    Calls = {k1}
    Socks = {s1, s2}
    NoSock = NoSock
    QueueLimit = 1
    WireLimit = 1
    u1 = u1
    u2 = u2
    t1 = t1
    t2 = t2
    none = none
    Users = {u1, u2}
    AccRequests = {r1, r2}
    Tokens = {t1, t2}
    NoUser = NoUser
    NoToken = NoToken
    Unlocked = Unlocked
    LoginLimit = 1
    MaxAccRequests = 2
    j1 = j1
    j2 = j2
    z1 = z1
    p1 = p1
    Jars = {j1, j2}
    Zips = {z1}
    NoJarFile = NoJarFile
    NoZip = NoZip
    PanelRequests = {p1}
    FirstScan = FirstScan
    MaxReleases = 3
    MaxRepoOps = 3
    MaxRepoFaults = 1
    MaxRepoStops = 1
    MaxByHand = 1
    a = a
    FwRules = {r1}
    Addresses = {a}
    NoAddress = none
    Logins = {s1, s2}
    Ttls = {2}
    TicketTtl = 1
    MaxTroubles = 2
CHECK_DEADLOCK FALSE
INVARIANTS
    CommandOnce
    RunsAreTrue
    ClientsAreRows
    WaitersAreServed
    AccessIsKept
    RepositoryIsSound
    KernelFollowsState
PROPERTIES
    GrantsSurvive
