------------------------------- MODULE ProxySync -------------------------------
(***************************************************************************)
(* The backend servers of a proxy: the panel computes the catalogue from   *)
(* the selection rules of the proxy and the ports of the running backends  *)
(* (api/selection.go, api/proxy_sync_handlers.go), stamps it with the time *)
(* and sends it to the proxy's daemon, which keeps the newest in memory    *)
(* and hands it to the plugin (supervisor/proxy.go, VelocityBackendRegistry *)
(* and BungeeBackendRegistry).  One proxy and one backend server, on two   *)
(* nodes.                                                                  *)
(***************************************************************************)
EXTENDS PluginLink

CONSTANTS
    SyncRequests,  \* requests and goroutines of the panel that synchronise
    MaxPxTrouble   \* bound: changed rules and ports, lost nodes and connections, ends of the
                   \* proxy, restarts of the daemon

ASSUME ProxyConstants == MaxPxTrouble \in Nat

VARIABLES
    rules,     \* proxy_sync_rules, as the number of their change
    port,      \* the backend's port, as configured and as it runs
    pxUp,      \* the nodes that are ONLINE
    sync,      \* what a request does
    syncMu,    \* the request holding proxySyncMu, or "free"
    clock,     \* time.Now of the panel
    pxCalls,   \* proxy.backends.sync on their way
    proxyCatalog, proxySync,  \* of the instance
    pxRestoring,  \* connections whose goroutine has not read the catalogue
    backends,  \* the plugin's currentRevision and currentCatalog
    pxCount    \* what the bounds count

pxVars == <<rules, port, pxUp, sync, syncMu, clock, pxCalls, proxyCatalog, proxySync, pxRestoring,
            backends, pxCount>>

PxNodes   == {"proxy", "backend"}
IdleSync  == [at |-> "idle", all |-> FALSE, port |-> 0, rules |-> 0]
NoCatalog == [rev |-> 0, port |-> 0, rules |-> 0]

PxInit ==
    /\ PlInit
    /\ rules = 1
    /\ port = [cfg |-> 1, run |-> 1]
    /\ pxUp = {}
    /\ sync = [h \in SyncRequests |-> IdleSync]
    /\ syncMu = "free"
    /\ clock = 0
    /\ pxCalls = {}
    /\ proxyCatalog = NoCatalog
    /\ proxySync = [rev |-> 0, state |-> "unconfigured"]
    /\ pxRestoring = {}
    /\ backends = NoCatalog
    /\ pxCount \in {0, MaxPxTrouble}

pxPanel  == <<rules, port, pxUp, sync, syncMu, clock>>
pxDaemon == <<proxyCatalog, proxySync, pxRestoring>>

PxTrouble == pxCount < MaxPxTrouble /\ pxCount' = pxCount + 1

-----------------------------------------------------------------------------
(* The panel.                                                              *)

FreeRequests == {h \in SyncRequests : sync[h].at = "idle"}
\* A request or a goroutine begins; one that synchronises all waits for proxySyncMu.
StartsSync(all) ==
    /\ FreeRequests # {}
    /\ sync' = [sync EXCEPT ![CHOOSE h \in FreeRequests : TRUE] =
                    [IdleSync EXCEPT !.at = IF all THEN "lock" ELSE "begin", !.all = all]]

\* handleProxySyncRules, handleTargetProxyRules: the rules are replaced.
PutsRules ==
    /\ PxTrouble
    /\ rules' = rules + 1
    /\ StartsSync(FALSE)
    /\ UNCHANGED <<port, pxUp, syncMu, clock, pxCalls, pxDaemon, backends, plVars>>

\* handleServer: the configuration of the backend is updated.
PutsPort ==
    /\ "backend" \in pxUp
    /\ PxTrouble
    /\ port' = [port EXCEPT !.cfg = @ + 1]
    /\ StartsSync(TRUE)
    /\ UNCHANGED <<rules, pxUp, syncMu, clock, pxCalls, pxDaemon, backends, plVars>>

\* The backend starts again and has its configured port.
BackendStarts ==
    /\ port.run # port.cfg
    /\ port' = [port EXCEPT !.run = port.cfg]
    /\ UNCHANGED <<rules, pxUp, sync, syncMu, clock, pxCalls, pxDaemon, backends, pxCount, plVars>>

\* reconcileAllProxies.
LocksAll(h) ==
    /\ sync[h].at = "lock"
    /\ syncMu = "free"
    /\ syncMu' = h
    /\ sync' = [sync EXCEPT ![h].at = "begin"]
    /\ UNCHANGED <<rules, port, pxUp, clock, pxCalls, pxDaemon, backends, pxCount, plVars>>

SyncEnds(h) ==
    /\ sync' = [sync EXCEPT ![h] = IdleSync]
    /\ syncMu' = IF syncMu = h THEN "free" ELSE syncMu

\* loadCatalog asks every node; resolveProxyBackends fails for a backend whose
\* node did not answer, syncProxy for a proxy it does not find.
LoadsCatalog(h) ==
    /\ sync[h].at = "begin"
    /\ IF pxUp = PxNodes
         THEN /\ sync' = [sync EXCEPT ![h].at = "rules", ![h].port = port.run]
              /\ UNCHANGED syncMu
         ELSE SyncEnds(h)
    /\ UNCHANGED <<rules, port, pxUp, clock, pxCalls, pxDaemon, backends, pxCount, plVars>>

\* ProxySyncRules.
ReadsRules(h) ==
    /\ sync[h].at = "rules"
    /\ sync' = [sync EXCEPT ![h].at = "call", ![h].rules = rules]
    /\ UNCHANGED <<rules, port, pxUp, syncMu, clock, pxCalls, pxDaemon, backends, pxCount, plVars>>

\* connections.Call: the revision is the time.
SendsCatalog(h) ==
    /\ sync[h].at = "call"
    /\ clock' = clock + 1
    /\ IF "proxy" \in pxUp
         THEN /\ pxCalls' = pxCalls \cup {[h |-> h, rev |-> clock + 1, port |-> sync[h].port, rules |-> sync[h].rules]}
              /\ sync' = [sync EXCEPT ![h].at = "called"]
              /\ UNCHANGED syncMu
         ELSE SyncEnds(h) /\ UNCHANGED pxCalls
    /\ UNCHANGED <<rules, port, pxUp, pxDaemon, backends, pxCount, plVars>>

\* The answer, or the end of the connection or of the context.
SyncAnswered(h) ==
    /\ sync[h].at = "called"
    /\ \/ (\A c \in pxCalls : c.h # h) /\ UNCHANGED pxCount
       \/ (\E c \in pxCalls : c.h = h) /\ PxTrouble
    /\ SyncEnds(h)
    /\ UNCHANGED <<rules, port, pxUp, clock, pxCalls, pxDaemon, backends, plVars>>

\* The status callback.
NodeUp(n) ==
    /\ n \notin pxUp
    /\ pxUp' = pxUp \cup {n}
    /\ StartsSync(TRUE)
    /\ UNCHANGED <<rules, port, syncMu, clock, pxCalls, pxDaemon, backends, pxCount, plVars>>

NodeDown(n) ==
    /\ n \in pxUp
    /\ PxTrouble
    /\ pxUp' = pxUp \ {n}
    /\ pxCalls' = IF n = "proxy" THEN {} ELSE pxCalls
    /\ UNCHANGED <<rules, port, sync, syncMu, clock, pxDaemon, backends, plVars>>

-----------------------------------------------------------------------------
(* The proxy's daemon.                                                     *)

pxLinkOnly == <<game, gen, linked, conns, sock, authed, plWire, platform, answers, seq, expired>>
NewCatalog(c) == [rev |-> c.rev, port |-> c.port, rules |-> c.rules]

\* applyProxyCatalog begins, with the connection of this moment.
Applies(cat) ==
    /\ FreeWorkers # {}
    /\ plWork' = [plWork EXCEPT ![FreeWorker] = [IdleWork EXCEPT !.at = "begin", !.cat = cat, !.link = gen]]

\* SyncProxyBackends: no two calls have the same revision.
TakesCatalog(c) ==
    /\ c \in pxCalls
    /\ pxCalls' = pxCalls \ {c}
    /\ IF c.rev < proxyCatalog.rev
         THEN UNCHANGED <<proxyCatalog, proxySync, plWork>>
         ELSE /\ proxyCatalog' = NewCatalog(c)
              /\ proxySync' = [rev |-> c.rev, state |-> "pending"]
              /\ IF linked THEN Applies(proxyCatalog') ELSE UNCHANGED plWork
    /\ UNCHANGED <<pxPanel, pxRestoring, backends, pxCount, pxLinkOnly>>

\* Mutant: a plugin that comes back is not told.
ProxyConnectsOnly ==
    /\ Registers
    /\ UNCHANGED plWork
    /\ UNCHANGED pxVars

\* RegisterPlugin and the goroutine for RestoreProxyBackends.
ProxyConnects ==
    /\ Registers
    /\ pxRestoring' = pxRestoring \cup {gen + 1}
    /\ UNCHANGED <<pxPanel, pxCalls, proxyCatalog, proxySync, backends, pxCount, plWork>>

RestoresCatalog(l) ==
    /\ l \in pxRestoring
    /\ pxRestoring' = pxRestoring \ {l}
    /\ IF linked /\ proxyCatalog # NoCatalog THEN Applies(proxyCatalog) ELSE UNCHANGED plWork
    /\ UNCHANGED <<pxPanel, pxCalls, proxyCatalog, proxySync, backends, pxCount, pxLinkOnly>>

SyncBegins(w) ==
    /\ plWork[w].at = "begin"
    /\ plWork' = [plWork EXCEPT ![w].at = "send"]
    /\ proxySync' = [proxySync EXCEPT !.state = "syncing"]
    /\ UNCHANGED <<pxPanel, pxCalls, proxyCatalog, pxRestoring, backends, pxCount, pxLinkOnly>>

\* Whatever revision was sent.
SyncDone(w) ==
    /\ plWork[w].at \in {"ok", "failed"}
    /\ plWork' = [plWork EXCEPT ![w] = IdleWork]
    /\ proxySync' = [proxySync EXCEPT !.state = IF plWork[w].at = "ok" THEN "synced" ELSE "failed"]
    /\ UNCHANGED <<pxPanel, pxCalls, proxyCatalog, pxRestoring, backends, pxCount, pxLinkOnly>>

\* The catalogue is only in memory.
ProxyDaemonRestarts ==
    /\ PxTrouble
    /\ LinkForgotten
    /\ proxyCatalog' = NoCatalog
    /\ proxySync' = [rev |-> 0, state |-> "unconfigured"]
    /\ pxRestoring' = {}
    /\ pxCalls' = {}
    /\ pxUp' = pxUp \ {"proxy"}
    /\ UNCHANGED <<rules, port, sync, syncMu, clock, backends>>

-----------------------------------------------------------------------------
(* The proxy.                                                              *)

\* ProxyBackendRegistry.replace: an older revision is refused.
ReplacesBackends(c) ==
    /\ c \in platform
    /\ IF c.cat.rev < backends.rev
         THEN CommandRuns(c, FALSE) /\ UNCHANGED backends
         ELSE CommandRuns(c, TRUE) /\ backends' = c.cat
    /\ UNCHANGED <<pxPanel, pxCalls, pxDaemon, pxCount>>

ProxyStarts == GameStarts /\ backends' = NoCatalog /\ UNCHANGED <<pxPanel, pxCalls, pxDaemon, pxCount>>
ProxyEnds   == GameEnds /\ PxTrouble /\ backends' = NoCatalog /\ UNCHANGED <<pxPanel, pxCalls, pxDaemon>>
-----------------------------------------------------------------------------
PxStep ==
    \/ \E h \in SyncRequests :
           LocksAll(h) \/ LoadsCatalog(h) \/ ReadsRules(h) \/ SendsCatalog(h) \/ SyncAnswered(h)
    \/ \E n \in PxNodes : NodeUp(n)
    \/ \E c \in pxCalls : TakesCatalog(c)
    \/ ProxyConnects
    \/ \E l \in pxRestoring : RestoresCatalog(l)
    \/ \E w \in Workers : SyncBegins(w) \/ SyncDone(w)
    \/ \E l \in conns : Closes(l) /\ UNCHANGED pxVars
    \/ LinkStep /\ UNCHANGED pxVars
    \/ \E c \in platform : ReplacesBackends(c)

PxNext ==
    \/ PxStep
    \/ PutsRules
    \/ PutsPort
    \/ BackendStarts
    \/ \E n \in PxNodes : NodeDown(n)
    \/ \E c \in platform : CommandExpires(c) /\ UNCHANGED pxVars
    \/ LinkBreaks /\ PxTrouble /\ UNCHANGED <<pxPanel, pxCalls, pxDaemon, backends>>
    \/ ProxyStarts
    \/ ProxyEnds
    \/ ProxyDaemonRestarts
-----------------------------------------------------------------------------
\* Once the plugin keeps its connection it gets the newest catalogue the daemon
\* has, though connections break under the requests, catalogues overtake each
\* other and the daemon forgets its own in a restart (RestoreProxyBackends,
\* reconcileAllProxies).
ProxyKeepsUp ==
    <>[](sock # 0 /\ pxUp = PxNodes) => <>[](proxyCatalog # NoCatalog /\ backends = proxyCatalog)
==============================================================================
