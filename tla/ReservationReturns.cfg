SPECIFICATION FairRegSpec
CONSTANTS
    group = group
    single = single
    c = c
    p = p
    q = q
    Servers = {group}
    MaxCount <- MCGroupCount
    Mirrors = {group}
    Ports <- MCPorts
    NoPort = NoPort
    DaemonPort = DaemonPort
    Callers = {c}
    Operated = {}
    NoOne = NoOne
    Leaked = Leaked
    Gens = {1, 2}
PROPERTIES
    ReservationReturns
