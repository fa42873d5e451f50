----------------------------- MODULE OperatorSync -----------------------------
(***************************************************************************)
(* The operators of a Minecraft server, from the panels that manage them    *)
(* to the server: a panel (store/operators.go, api/operator_handlers.go)   *)
(* sends its list with its revision to the daemon, which merges the lists  *)
(* of its panels under a revision of its own, saves them                   *)
(* (supervisor/operators.go, store/operator_store.go) and hands the        *)
(* catalogue to the plugin of every server (SpigotOperatorRegistry.java).  *)
(*                                                                         *)
(* A list is identified with the revision of the panel's database that has *)
(* it; one server and one node are modelled.                               *)
(***************************************************************************)
EXTENDS PluginLink

CONSTANTS
    Panels,     \* panels that know the node
    Handlers,   \* requests and goroutines of a panel that reconcile
    MaxEdits,   \* bound: revisions of a panel
    MaxTrouble  \* bound: lost connections of a panel or the plugin, ends of the server,
                \* restarts of a panel or of the registry, failed saves, changes of
                \* the server's own list

ASSUME OperatorConstants ==
    MaxEdits \in Nat /\ MaxTrouble \in Nat

VARIABLES
    panel,     \* a panel's database and configuration, and whether the node is ONLINE
    task,      \* what a handler does
    opMu,      \* the handler holding operatorMu of a panel, or "free"
    calls,     \* commands the daemon has not begun
    operators, \* Manager.operators: revision and the list of each source, 0: none
    disk,      \* operators.json
    restoring, \* connections whose goroutine has not read the registry
    opLock,    \* the call for which Manager.operatorMu is held
    opSync,    \* operatorSync of the instance
    plugin,    \* SpigotOperatorRegistry: revision, active, desired
    actual,    \* the operators of the server
    osCount    \* [all, saves]: what MaxTrouble counts, and the failed saves among it

osVars == <<panel, task, opMu, calls, operators, disk, restoring, opLock, opSync, plugin, actual, osCount>>

IdleTask == [at |-> "idle", rev |-> 0, list |-> 0]
NoCall   == [panel |-> "none"]
NoList   == [p \in Panels |-> 0]
Fresh    == [rev |-> 0, active |-> FALSE, ops |-> NoList]

OsInit ==
    /\ PlInit
    /\ panel = [p \in Panels |-> [rev |-> 0, on |-> FALSE, manage |-> TRUE, online |-> FALSE]]
    /\ task = [p \in Panels |-> [h \in Handlers |-> IdleTask]]
    /\ opMu = [p \in Panels |-> "free"]
    /\ calls = {}
    /\ operators = [rev |-> 0, src |-> [p \in Panels |-> IdleTask]]
    /\ disk = operators
    /\ restoring = {}
    /\ opLock = [call |-> NoCall, saved |-> FALSE]
    /\ opSync = [state |-> "none", rev |-> 0]
    /\ plugin = Fresh
    /\ actual = NoList
    /\ osCount \in [all : {0, MaxTrouble}, saves : {0}]

panelVars == <<panel, task, opMu>>
storeVars == <<operators, disk, restoring, opLock>>
gameVars  == <<plugin, actual>>

Troubles(saves) ==
    /\ osCount.all < MaxTrouble
    /\ osCount' = [all |-> osCount.all + 1, saves |-> osCount.saves + saves]
Trouble == Troubles(0)

-----------------------------------------------------------------------------
(* A panel.                                                                *)

AtTask(p, h, label) == task' = [task EXCEPT ![p][h].at = label]

FreeHandlers(p) == {h \in Handlers : task[p][h].at = "idle"}
FreeHandler(p)  == CHOOSE h \in FreeHandlers(p) : TRUE

\* PutOperator, DeleteOperator: the list and the revision in one transaction.
\* Only a managed and initialised list is reconciled.
Edits(p) ==
    /\ panel[p].rev < MaxEdits
    /\ FreeHandlers(p) # {}
    /\ panel' = [panel EXCEPT ![p].rev = @ + 1]
    /\ IF panel[p].on /\ panel[p].manage THEN AtTask(p, FreeHandler(p), "begin") ELSE UNCHANGED task
    /\ UNCHANGED <<opMu, calls, storeVars, opSync, gameVars, osCount, plVars>>

\* activateOperators.
Activates(p) ==
    /\ panel[p].manage
    /\ ~panel[p].on
    /\ panel[p].rev < MaxEdits
    /\ FreeHandlers(p) # {}
    /\ panel' = [panel EXCEPT ![p].rev = @ + 1, ![p].on = TRUE]
    /\ AtTask(p, FreeHandler(p), "begin")
    /\ UNCHANGED <<opMu, calls, storeVars, opSync, gameVars, osCount, plVars>>

\* Store.OperatorState: first the revision ...
ReadsRevision(p, h) ==
    /\ task[p][h].at = "begin"
    /\ task' = [task EXCEPT ![p][h] = [at |-> "list", rev |-> panel[p].rev, list |-> 0]]
    /\ UNCHANGED <<panel, opMu, calls, storeVars, opSync, gameVars, osCount, plVars>>

\* ... and then, with a query of its own, the list.
ReadsList(p, h) ==
    /\ task[p][h].at = "list"
    /\ task' = [task EXCEPT ![p][h].at = "lock", ![p][h].list = panel[p].rev]
    /\ UNCHANGED <<panel, opMu, calls, storeVars, opSync, gameVars, osCount, plVars>>

\* reconcileOperatorState: one at a time calls the node, if it is ONLINE.
Calls(p, h) ==
    /\ task[p][h].at = "lock"
    /\ opMu[p] = "free"
    /\ IF panel[p].online /\ (panel[p].manage => panel[p].on)
         THEN /\ calls' = calls \cup {[panel |-> p, h |-> h, rev |-> task[p][h].rev,
                                       list |-> task[p][h].list, drop |-> ~panel[p].manage]}
              /\ opMu' = [opMu EXCEPT ![p] = h]
              /\ AtTask(p, h, "called")
         ELSE /\ task' = [task EXCEPT ![p][h] = IdleTask]
              /\ UNCHANGED <<calls, opMu>>
    /\ UNCHANGED <<panel, storeVars, opSync, gameVars, osCount, plVars>>

\* The call is answered or fails with its connection, or takes 20 s.
Pending(p, h) == \E c \in calls \cup {opLock.call} : c.panel = p /\ c # NoCall /\ c.h = h
CallEnds(p, h) ==
    /\ task[p][h].at = "called"
    /\ IF Pending(p, h) THEN Trouble ELSE UNCHANGED osCount
    /\ task' = [task EXCEPT ![p][h] = IdleTask]
    /\ opMu' = [opMu EXCEPT ![p] = "free"]
    /\ UNCHANGED <<panel, calls, storeVars, opSync, gameVars, plVars>>

\* Mutant: nothing is sent again when the connection is back.
GoesOnlineSilent(p) ==
    /\ ~panel[p].online
    /\ FreeHandlers(p) # {}
    /\ panel' = [panel EXCEPT ![p].online = TRUE]
    /\ UNCHANGED <<task, opMu, calls, storeVars, opSync, gameVars, osCount, plVars>>

\* The status callback of NewServer: ONLINE starts reconcileOperators.
GoesOnline(p) ==
    /\ ~panel[p].online
    /\ FreeHandlers(p) # {}
    /\ panel' = [panel EXCEPT ![p].online = TRUE]
    /\ AtTask(p, FreeHandler(p), "begin")
    /\ UNCHANGED <<opMu, calls, storeVars, opSync, gameVars, osCount, plVars>>

Lost(ps) == {c \in calls : c.panel \notin ps}

GoesOffline(p) ==
    /\ panel[p].online
    /\ Trouble
    /\ panel' = [panel EXCEPT ![p].online = FALSE]
    /\ calls' = Lost({p})
    /\ UNCHANGED <<task, opMu, storeVars, opSync, gameVars, plVars>>

\* The panel restarts, perhaps with manage_operators changed.
PanelRestarts(p, m) ==
    /\ Trouble
    /\ panel' = [panel EXCEPT ![p].online = FALSE, ![p].manage = m]
    /\ task' = [task EXCEPT ![p] = [h \in Handlers |-> IdleTask]]
    /\ opMu' = [opMu EXCEPT ![p] = "free"]
    /\ calls' = Lost({p})
    /\ UNCHANGED <<storeVars, opSync, gameVars, plVars>>

-----------------------------------------------------------------------------
(* The daemon: sources.                                                    *)

Source(c) == IF c.drop THEN IdleTask ELSE [at |-> "idle", rev |-> c.rev, list |-> c.list]

\* ReplaceOperatorSource, RemoveOperatorSource: what changes the registry.
Accepted(c) ==
    IF c.drop THEN operators.src[c.panel] # IdleTask
              ELSE c.rev > operators.src[c.panel].rev

Refuses(c) ==
    /\ c \in calls
    /\ opLock.call = NoCall
    /\ ~Accepted(c)
    /\ calls' = calls \ {c}
    /\ UNCHANGED <<panelVars, storeVars, opSync, gameVars, osCount, plVars>>

Takes(c) ==
    /\ c \in calls
    /\ opLock.call = NoCall
    /\ Accepted(c)
    /\ calls' = calls \ {c}
    /\ opLock' = [call |-> c, saved |-> FALSE]
    /\ UNCHANGED <<panelVars, operators, disk, restoring, opSync, gameVars, osCount, plVars>>

Changed(c) == [rev |-> operators.rev + 1, src |-> [operators.src EXCEPT ![c.panel] = Source(c)]]

\* Mutant: the catalogue is applied before it is saved.
SavesLater ==
    /\ opLock.call # NoCall
    /\ ~opLock.saved
    /\ opLock' = [opLock EXCEPT !.saved = TRUE]
    /\ UNCHANGED <<panelVars, calls, operators, disk, restoring, opSync, gameVars, osCount, plVars>>

\* persistOperatorsLocked.
SavesSources ==
    /\ opLock.call # NoCall
    /\ ~opLock.saved
    /\ opLock' = [opLock EXCEPT !.saved = TRUE]
    /\ disk' = Changed(opLock.call)
    /\ UNCHANGED <<panelVars, calls, operators, restoring, opSync, gameVars, osCount, plVars>>

\* The write fails before or after the new file is in place.
SaveFails ==
    /\ opLock.call # NoCall
    /\ ~opLock.saved
    /\ Troubles(1)
    /\ disk' \in {disk, Changed(opLock.call)}
    /\ opLock' = [call |-> NoCall, saved |-> FALSE]
    /\ UNCHANGED <<panelVars, calls, operators, restoring, opSync, gameVars, plVars>>

Catalog(state) ==
    [rev |-> state.rev,
     active |-> \E p \in Panels : state.src[p] # IdleTask,
     ops |-> [p \in Panels |-> state.src[p].list]]

\* The registry has changed; applyOperatorCatalog begins.
Installs ==
    /\ opLock.saved
    /\ operators' = Changed(opLock.call)
    /\ opLock' = [call |-> NoCall, saved |-> FALSE]
    /\ Spawn(Catalog(operators'))
    /\ UNCHANGED <<panelVars, calls, disk, restoring, opSync, gameVars, osCount,
                   game, gen, linked, conns, sock, authed, plWire, platform, answers, seq, expired>>

-----------------------------------------------------------------------------
(* The daemon: the server.                                                 *)

linkOnly == <<game, gen, linked, conns, sock, authed, plWire, platform, answers, seq, expired>>

\* RegisterPlugin and the goroutine for RestoreOperators.
PluginConnects ==
    /\ Registers
    /\ restoring' = restoring \cup {gen + 1}
    /\ UNCHANGED <<panelVars, calls, operators, disk, opLock, opSync, gameVars, osCount, plWork>>

\* RestoreOperators reads the registry.
Restores(l) ==
    /\ l \in restoring
    /\ opLock.call = NoCall
    /\ restoring' = restoring \ {l}
    /\ IF operators.rev = 0 THEN UNCHANGED plWork ELSE Spawn(Catalog(operators))
    /\ UNCHANGED <<panelVars, calls, operators, disk, opLock, opSync, gameVars, osCount, linkOnly>>

\* applyOperatorToInstance up to the request.
ApplyBegins(w) ==
    /\ plWork[w].at = "begin"
    /\ opSync' = IF opSync.rev <= plWork[w].cat.rev
                   THEN [state |-> IF linked THEN "syncing" ELSE "pending", rev |-> plWork[w].cat.rev]
                   ELSE opSync
    /\ plWork' = [plWork EXCEPT ![w] = IF linked THEN [plWork[w] EXCEPT !.at = "send", !.link = gen]
                                             ELSE IdleWork]
    /\ UNCHANGED <<panelVars, calls, storeVars, gameVars, osCount, linkOnly>>

\* ... and after it.
ApplyEnds(w) ==
    /\ plWork[w].at \in {"ok", "failed"}
    /\ opSync' = IF opSync.rev <= plWork[w].cat.rev
                   THEN [state |-> IF plWork[w].at = "ok" THEN "synced" ELSE "failed", rev |-> plWork[w].cat.rev]
                   ELSE opSync
    /\ plWork' = [plWork EXCEPT ![w] = IdleWork]
    /\ UNCHANGED <<panelVars, calls, storeVars, gameVars, osCount, linkOnly>>

\* PluginConnection.Close also takes the status back.
ConnectionCloses(l) ==
    /\ Closes(l)
    /\ opSync' = IF l = gen /\ opSync.state # "none" THEN [opSync EXCEPT !.state = "pending"] ELSE opSync
    /\ UNCHANGED <<panelVars, calls, storeVars, gameVars, osCount>>

-----------------------------------------------------------------------------
(* The server.                                                             *)

Content(r) == [active |-> r.active, ops |-> r.ops]

\* SpigotOperatorRegistry.replace.
Replaces(c) ==
    /\ c \in platform
    /\ \/ /\ c.cat.rev < plugin.rev
          /\ CommandRuns(c, FALSE)
          /\ UNCHANGED gameVars
       \/ /\ c.cat.rev = plugin.rev
          /\ CommandRuns(c, Content(c.cat) = Content(plugin))
          /\ UNCHANGED gameVars
       \/ /\ c.cat.rev > plugin.rev
          /\ CommandRuns(c, TRUE)
          /\ plugin' = c.cat
          /\ actual' = IF c.cat.active THEN c.cat.ops ELSE actual
    /\ UNCHANGED <<panelVars, calls, storeVars, opSync, osCount>>

\* Somebody changes ops.json or calls setOp.
Drifts ==
    /\ game.on
    /\ Trouble
    /\ actual' = [p \in Panels |-> MaxEdits + 1]
    /\ UNCHANGED <<panelVars, calls, storeVars, opSync, plugin, plVars>>

\* reconcileDrift, every five seconds.
Corrects ==
    /\ game.on
    /\ plugin.active
    /\ actual # plugin.ops
    /\ actual' = plugin.ops
    /\ UNCHANGED <<panelVars, calls, storeVars, opSync, plugin, osCount, plVars>>

\* A new process has no catalogue.
ServerStarts == GameStarts /\ plugin' = Fresh /\ UNCHANGED <<panelVars, calls, storeVars, opSync, actual, osCount>>
ServerEnds   ==
    /\ GameEnds
    /\ Trouble
    /\ plugin' = Fresh
    /\ UNCHANGED <<panelVars, calls, storeVars, opSync, actual>>

\* The daemon restarts: ConfigureOperators reads the file, every panel sees it
\* go OFFLINE.
RegistryRestarts ==
    /\ Trouble
    /\ LinkForgotten
    /\ operators' = disk
    /\ opLock' = [call |-> NoCall, saved |-> FALSE]
    /\ opSync' = [state |-> "none", rev |-> 0]
    /\ calls' = {}
    /\ restoring' = {}
    /\ panel' = [p \in Panels |-> [panel[p] EXCEPT !.online = FALSE]]
    /\ UNCHANGED <<task, opMu, disk, gameVars>>
-----------------------------------------------------------------------------
\* What the code does by itself.
OsStep ==
    \/ \E p \in Panels, h \in Handlers :
           ReadsRevision(p, h) \/ ReadsList(p, h) \/ Calls(p, h) \/ CallEnds(p, h)
    \/ \E p \in Panels : GoesOnline(p)
    \/ \E c \in calls : Refuses(c) \/ Takes(c)
    \/ SavesSources
    \/ \E w \in Workers :
           ApplyBegins(w) \/ ApplyEnds(w)
    \/ \E l \in restoring : Restores(l)
    \/ Installs
    \/ PluginConnects
    \/ \E l \in conns : ConnectionCloses(l)
    \/ LinkStep /\ UNCHANGED osVars
    \/ \E c \in platform : Replaces(c)
    \/ Corrects

OsNext ==
    \/ OsStep
    \/ \E p \in Panels : Edits(p) \/ Activates(p)
    \/ \E p \in Panels : GoesOffline(p) \/ \E m \in BOOLEAN : PanelRestarts(p, m)
    \/ SaveFails
    \/ \E c \in platform : CommandExpires(c) /\ UNCHANGED osVars
    \/ /\ LinkBreaks
       /\ Trouble
       /\ UNCHANGED <<panelVars, calls, storeVars, opSync, gameVars>>
    \/ Drifts
    \/ ServerStarts
    \/ ServerEnds
    \/ RegistryRestarts

OsSpec == OsInit /\ [][OsNext]_<<osVars, plVars>>
-----------------------------------------------------------------------------
\* Every catalogue anywhere between the registry and the server.
Catalogs ==
    {Catalog(operators), plugin} \cup {c.cat : c \in platform}
        \cup {plWork[w].cat : w \in Workers \ FreeWorkers}

\* A revision of the registry means one catalogue, whoever holds it and through
\* every restart, and is never newer than the file: a plugin that outlives the
\* daemon never meets its revision again with other operators
\* (ReplaceOperatorSource saves before it installs; REVISION_CONFLICT).
RevisionMeansContent ==
    \A c, d \in Catalogs : c.rev <= disk.rev /\ (c.rev = d.rev => Content(c) = Content(d))

\* The revision a daemon reports for a server does not go back while it runs,
\* though answers to older catalogues arrive late (applyOperatorToInstance).
StatusGoesForward ==
    [][opSync'.rev >= opSync.rev \/ opSync'.state = "none"]_opSync

\* Once every panel keeps its connection and the plugin its own, the server has
\* the operators of the panels that manage them, although a panel sends its
\* list only after a change and when the node comes ONLINE, nothing is sent
\* twice, and every answer may be lost.  (A list whose save failed waits for the
\* next change or the next connection: nobody repeats it.)
Wanted(p) == IF panel[p].manage /\ panel[p].on THEN panel[p].rev ELSE 0
OperatorsSettle ==
    <>[](osCount.saves = 0 /\ sock # 0 /\ \A p \in Panels : panel[p].online)
        => <>[](/\ plugin.ops = [p \in Panels |-> Wanted(p)]
                /\ plugin.active => actual = plugin.ops)

\* What the panels ask for reaches the servers, and what is told of it moves on.
OperatorsConverge == OperatorsSettle /\ StatusGoesForward
=============================================================================
