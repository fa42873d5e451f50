SPECIFICATION FairSpec
CONSTANTS
    h1 = h1
    h2 = h2
    h3 = h3
    k1 = k1
    k2 = k2
    k3 = k3
    main = main
    t1 = t1
    t2 = t2
    i1 = i1
    NoHost = NoHost
    NoInstance = NoInstance
    NoConn = NoConn
    Free = Free
    Main = main
    Instances <- MCInstances
    Hosts <- MCHosts2
    Conns <- MCConns2
    Callers <- MCCallers1
    Jobs <- RestartOnly
    AutoRestart <- NoInstances
    AutoStart <- NoInstances
    RestartLimit = 1
    SlowBoot = TRUE
    QuietBoot = TRUE
    MaxLoss = 0
    MaxCrash = 1
    SerialStarts = TRUE
    MaxClients = 1
    MaxStuck = 1
    MaxServiceCrash = 0
PROPERTIES
    OperationsSettle
    ProcessIsOwned
    KeepsLifecycle
