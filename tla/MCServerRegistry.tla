--------------------------- MODULE MCServerRegistry ---------------------------
(* A mirror group of up to two instances and a single server, two ports.   *)
EXTENDS ServerRegistry, TLC

CONSTANTS group, single, c, p, q

MCServers == {group, single}
MCCount   == [s \in MCServers |-> IF s = group THEN 2 ELSE 1]
MCGroupCount == [s \in {group} |-> 2]
\* The instance a smaller count of the group takes away; a deployment is about both.
MCOperated == {<<group, 2>>}
MCPorts    == {p, q}
PortSymmetry == Permutations(MCPorts)
=============================================================================
