SPECIFICATION SessSpec
CONSTANTS
    h1 = h1
    h2 = h2
    h3 = h3
    c1 = c1
    c2 = c2
    i1 = i1
    Instances <- MCInstances1
    Hosts <- MCHosts2
    Callers <- MCCallers
    NoHost = NoHost
    NoInstance = NoInstance
    SerialStarts = TRUE
    MaxClients = 1
    MaxStuck = 1
    MaxServiceCrash = 1
INVARIANTS
    SessionsAreRestored
