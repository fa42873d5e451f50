------------------------------ MODULE MCLiveness ------------------------------
(* What has to end or to settle in the panel and between it and its daemons,  *)
(* under fairness: deployment tasks, calls of the panel to a daemon, the      *)
(* connection of a node, file operations and their audit, file                *)
(* synchronisations, the collector of network games, and the backends of a    *)
(* proxy.  The parts share no variable.  A behaviour chooses the one that     *)
(* moves; the others stay in an initial state, so a run is their sum and not  *)
(* their product.                                                             *)
EXTENDS Deployment, ControlLink, NodeConnections, FileOperations, FileSync, Collector, ProxySync

CONSTANTS a, b, image, k1, s1, main, http, n1, n2, o1, o2, g1, g2, a1, none, h1, w1, w2

MCTasks == {a, b}

VARIABLE moves

proxyVars == <<pxVars, plVars>>
allVars   == <<depVars, linkVars, nodeVars, foVars, fsyVars, ngVars, proxyVars, moves>>

MCInit ==
    /\ moves \in {"deployment", "link", "node", "operations", "sync", "games", "proxy"}
    /\ DepInit
    /\ LinkInit
    /\ NodeInit
    /\ FoInit
    /\ FsyInit
    /\ NgInit
    /\ PxInit
    /\ moves # "deployment" => running = {}
    /\ moves # "node" => row = NoNode
    /\ moves # "games" => savedAs.memory = NoAccountSaved
    /\ IF moves = "proxy" THEN (expired = 0) # (pxCount = 0) ELSE expired = 0 /\ pxCount = 0

\* Bound of a step: a file operation fails, or the daemon stops, once.
OneTrouble == faults' + crashes' <= 1

MCNext ==
    \/ /\ moves = "deployment" /\ DepNext /\ OneTrouble
       /\ UNCHANGED <<linkVars, nodeVars, foVars, fsyVars, ngVars, proxyVars, moves>>
    \/ /\ moves = "link" /\ LinkNext
       /\ UNCHANGED <<depVars, nodeVars, foVars, fsyVars, ngVars, proxyVars, moves>>
    \/ /\ moves = "node" /\ NodeNext
       /\ UNCHANGED <<depVars, linkVars, foVars, fsyVars, ngVars, proxyVars, moves>>
    \/ /\ moves = "operations" /\ FoNext
       /\ UNCHANGED <<depVars, linkVars, nodeVars, fsyVars, ngVars, proxyVars, moves>>
    \/ /\ moves = "sync" /\ FsyNext
       /\ UNCHANGED <<depVars, linkVars, nodeVars, foVars, ngVars, proxyVars, moves>>
    \/ /\ moves = "games" /\ NgNext
       /\ UNCHANGED <<depVars, linkVars, nodeVars, foVars, fsyVars, proxyVars, moves>>
    \/ /\ moves = "proxy" /\ PxNext
       /\ UNCHANGED <<depVars, linkVars, nodeVars, foVars, fsyVars, ngVars, moves>>

\* The fairness of the part that moves: of each goroutine where a part has several
\* that must not starve each other, of the part as a whole where that is enough.
MCFairness ==
    /\ \A t \in Tasks : WF_depVars(moves = "deployment" /\ TaskStep(t))
    /\ \A k \in Calls : WF_linkVars(moves = "link" /\ CallStep(k))
    /\ WF_linkVars(moves = "link" /\ RunnerStep)
    /\ WF_linkVars(moves = "link" /\ WatcherStep)
    /\ \A s \in Socks :
         /\ WF_linkVars(moves = "link" /\ HandlerStep(s))
         /\ WF_linkVars(moves = "link" /\ WriterStep(s))
         /\ \A k \in Calls : WF_linkVars(moves = "link" /\ Execute(s, k))
    /\ \A r \in Requests : WF_nodeVars(moves = "node" /\ RequestStep(r))
    /\ \A c \in Clients :
         /\ WF_nodeVars(moves = "node" /\ ClientStep(c))
         /\ WF_nodeVars(moves = "node" /\ WatcherCloses(c))
    /\ WF_nodeVars(moves = "node" /\ OutageEnds)
    /\ WF_foVars(moves = "operations" /\ FoStep)
    /\ WF_fsyVars(moves = "sync" /\ FsyStep)
    /\ WF_ngVars(moves = "games" /\ CollectionSteps)
    /\ WF_ngVars(moves = "games" /\ RefreshSteps)
    /\ WF_ngVars(moves = "games" /\ DetailTick)
    /\ \A d \in Delays : WF_ngVars(moves = "games" /\ RefreshBegins(d))
    /\ WF_proxyVars(moves = "proxy" /\ PxStep)

MCSpec == MCInit /\ [][MCNext]_allVars /\ MCFairness
=============================================================================
