------------------------------- MODULE MCPanel -------------------------------
(* The safety of six parts that share no variable: of the panel, scheduled    *)
(* tasks (one task, one target, two runs, three moments), a node with two     *)
(* HTTP requests at a time, a call over the control connection with two       *)
(* sockets, two users with their sessions, and the plugin repository; and the *)
(* firewall of a node with its tickets.  A behaviour chooses the part that    *)
(* moves, as in MCLiveness.                                                   *)
EXTENDS Schedule, NodeConnections, ControlLink, Accounts, PluginRepository, Firewall

CONSTANTS t, x, main, r1, r2, n1, n2, k1, s1, s2, u1, u2, t1, t2, none, j1, j2, z1, p1, a

VARIABLE moves

allVars == <<schedVars, nodeVars, linkVars, accVars, repoVars, fwVars, moves>>

\* Either nobody is registered, or two users with a session each are.
AccountsBegin ==
    \/ \A u \in Users : ~Exists(u)
    \/ /\ \A u \in Users : Exists(u)
       /\ \A tk \in Tokens : sessionRow[tk].status = "live"
       /\ \A tk, other \in Tokens : sessionRow[tk].user = sessionRow[other].user => tk = other

MCInit ==
    /\ moves \in {"schedule", "node", "link", "accounts", "repository", "firewall"}
    /\ SchedInit
    /\ NodeInit
    /\ LinkInit
    /\ AccInit
    /\ RepoInit
    /\ FwInit
    /\ moves # "node" => row = NoNode
    /\ IF moves = "accounts" THEN AccountsBegin ELSE \A u \in Users : ~Exists(u)

\* Bounds of a step.  With trouble the task is saved once, and a statement fails
\* only as long as there is one run.
EditsOrTrouble ==
    /\ faults' + crashes' > 0 => task'[t].version + (IF saving' = NoSaving THEN 0 ELSE 1) <= 1
    /\ faults' > 0 => run'[2] = NoRun

\* Requests overlap before an outage; run liveness has one after it.
RequestsOrOutages == outages' > 0 => req'[r1].at = "idle" /\ req'[r2].at = "idle"

\* The panel gives up its client while one socket at most is in use.
CancelsAlone ==
    ctxDone' => Cardinality(broken' \cup {s \in Socks : server'[s] # "left"}) <= 1

\* After a trouble one session at most has done something, after a second one none.
Busy(l) == login'[l] # "active" \/ ask'[l] # NoAsk

TicketsOrTroubles ==
    /\ troubles' > 0 => Cardinality({l \in Logins : Busy(l)}) <= 1
    /\ troubles' > 1 => ask' = [l \in Logins |-> NoAsk] /\ grants' = {} /\ tickets' = {}

MCNext ==
    \/ /\ moves = "schedule" /\ SchedNext /\ EditsOrTrouble
       /\ UNCHANGED <<nodeVars, linkVars, accVars, repoVars, fwVars, moves>>
    \/ /\ moves = "node" /\ NodeNext /\ RequestsOrOutages
       /\ UNCHANGED <<schedVars, linkVars, accVars, repoVars, fwVars, moves>>
    \/ /\ moves = "link" /\ LinkNext /\ CancelsAlone
       /\ UNCHANGED <<schedVars, nodeVars, accVars, repoVars, fwVars, moves>>
    \/ /\ moves = "accounts" /\ AccNext
       /\ UNCHANGED <<schedVars, nodeVars, linkVars, repoVars, fwVars, moves>>
    \/ /\ moves = "repository" /\ RepoNext
       /\ UNCHANGED <<schedVars, nodeVars, linkVars, accVars, fwVars, moves>>
    \/ /\ moves = "firewall" /\ FwNext /\ TicketsOrTroubles
       /\ UNCHANGED <<schedVars, nodeVars, linkVars, accVars, repoVars, moves>>

MCSpec == MCInit /\ [][MCNext]_allVars
=============================================================================
