SPECIFICATION Spec
CONSTANTS
    h1 = h1
    h2 = h2
    h3 = h3
    k1 = k1
    k2 = k2
    k3 = k3
    main = main
    t1 = t1
    t2 = t2
    i1 = i1
    NoHost = NoHost
    NoInstance = NoInstance
    NoConn = NoConn
    Free = Free
    Main = main
    Instances <- MCInstances
    Hosts <- MCHosts2
    Conns <- MCConns3
    Callers <- MCCallers2
    Jobs <- EveryJob
    AutoRestart <- MCInstances
    AutoStart <- NoInstances
    RestartLimit = 1
    SlowBoot = TRUE
    QuietBoot = TRUE
    MaxLoss = 0
    MaxCrash = 0
    SerialStarts = TRUE
    MaxClients = 2
    MaxStuck = 0
    MaxServiceCrash = 0
SYMMETRY Identities
ACTION_CONSTRAINTS
    ThirdAlone
INVARIANTS
    OperationsExclude
    StoppedIsQuiet
PROPERTIES
    KeepsLifecycle
