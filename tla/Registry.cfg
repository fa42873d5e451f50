SPECIFICATION RegSpec
CONSTANTS
    group = group
    single = single
    c = c
    p = p
    q = q
    Servers <- MCServers
    MaxCount <- MCCount
    Mirrors = {group}
    Ports <- MCPorts
    NoPort = NoPort
    DaemonPort = DaemonPort
    Callers = {c}
    Operated <- MCOperated
    NoOne = NoOne
    Leaked = Leaked
    Gens = {1, 2}
SYMMETRY PortSymmetry
INVARIANTS
    RegInv
    DaemonRestarts
PROPERTIES
    WorkIsSpared
