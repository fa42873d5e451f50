---------------------------- MODULE NodeConnections ----------------------------
(***************************************************************************)
(* The connections of a panel to its nodes: nodes.Service and the table of *)
(* nodes (panel/internal/nodes, panel/internal/store/nodes.go), the        *)
(* connection Manager (panel/internal/daemon/manager.go) and the life of   *)
(* the Clients it starts (client.go; their calls are in ControlLink).      *)
(*                                                                         *)
(* Nodes share nothing but maps, so this is about one node.  A request     *)
(* saves the row and then replaces the client: the old one leaves the map, *)
(* its context is cancelled, a new one is inserted.  Every Client has two  *)
(* goroutines, Run and the one that closes the connection when the context *)
(* ends; it reports its status by a callback, outside of all locks, which  *)
(* writes Manager.statuses and then the runtime columns of the row.        *)
(*                                                                         *)
(* Each connection setting (URL and token) ever saved has a version.       *)
(***************************************************************************)
EXTENDS Naturals, FiniteSets

CONSTANTS
    Clients,   \* identities of Clients, never used twice
    NoClient,
    Requests,  \* goroutines that change nodes: HTTP requests and main
    Main,      \* the goroutine that starts the panel
    MaxSaves,  \* bound on how often the row is saved
    MaxOutages \* bound on how often the daemon or the network fails or refuses

ASSUME NodeConstants ==
    /\ NoClient \notin Clients
    /\ Main \in Requests
    /\ MaxSaves \in Nat \ {0}
    /\ Cardinality(Clients) >= MaxSaves \* every save starts at most one client
    /\ MaxOutages \in Nat

VARIABLES
    row,       \* the node in the table; `known` is the setting daemon_id belongs to
    saves,     \* how often it was saved
    req,       \* what a request is doing
    managed,   \* Manager.connections of the node
    shown,    \* Manager.statuses of the node
    client,    \* the Clients
    reachable, \* the daemon can be reached
    outages,
    races      \* history: what happened that nothing orders

tableVars  == <<row, saves>>
shownVars  == <<managed, shown>>
outageVars == <<reachable, outages>>
nodeVars   == <<tableVars, req, shownVars, client, outageVars, races>>

Versions == 0 .. MaxSaves
NoNode   == [exists |-> FALSE, ver |-> 0, enabled |-> FALSE, known |-> 0]
NoStatus == [state |-> "none", of |-> 0]
Idle     == [at |-> "idle", ver |-> 0, enabled |-> FALSE, known |-> 0, old |-> NoClient]
\* `watched` is the second goroutine of Run, `conn` Client.conn, `sock` whether
\* the connection connect() works with is open, `seen` Client.nodeID is set.
Unstarted == [at |-> "free", ver |-> 0, ended |-> FALSE, watched |-> FALSE,
              conn |-> FALSE, sock |-> FALSE, seen |-> FALSE]

NodeTypeOK ==
    /\ row \in [exists : BOOLEAN, ver : Versions, enabled : BOOLEAN, known : Versions]
    /\ saves \in Versions
    /\ req \in [Requests -> [at : {"idle", "read", "saved", "removed", "inserts", "deleted", "cancels"},
                             ver : Versions, enabled : BOOLEAN, known : Versions,
                             old : Clients \cup {NoClient}]]
    /\ managed \in Clients \cup {NoClient}
    /\ shown \in [state : {"none", "DISABLED", "CONNECTING", "ONLINE", "OFFLINE"}, of : Versions]
    /\ client \in [Clients -> [at : {"free", "dials", "asks", "shows", "records", "reads", "closes",
                                     "lost", "complains", "notes", "waits"},
                               ver : Versions, ended : BOOLEAN, watched : BOOLEAN,
                               conn : BOOLEAN, sock : BOOLEAN, seen : BOOLEAN]]
    /\ \A c \in Clients :
         client[c].conn => client[c].at \in {"shows", "records", "reads", "closes"}
    /\ reachable \in BOOLEAN
    /\ outages \in 0 .. MaxOutages
    /\ races \subseteq {"overlap", "late report"}

\* A new panel without nodes, or one that finds a node in its table.
NodeInit ==
    /\ \/ /\ row = NoNode
          /\ saves = 0
          /\ req = [r \in Requests |-> Idle]
       \/ \E on \in BOOLEAN, known \in {0, 1} :
          /\ row = [exists |-> TRUE, ver |-> 1, enabled |-> on, known |-> known]
          /\ saves = 1
          /\ req = [r \in Requests |->
                      IF r = Main THEN [Idle EXCEPT !.at = "saved", !.ver = 1, !.enabled = on]
                                  ELSE Idle]
    /\ managed = NoClient
    /\ shown = NoStatus
    /\ client = [c \in Clients |-> Unstarted]
    /\ reachable = TRUE
    /\ outages = 0
    /\ races = {}

-----------------------------------------------------------------------------
(* nodes.Service.                                                          *)

\* The HTTP server starts after Manager.Start; nothing keeps the requests for
\* one node apart.
Begins(r) ==
    /\ r # Main
    /\ req[r].at = "idle"
    /\ req[Main].at = "idle"
    /\ races' = IF \A q \in Requests : req[q].at = "idle" THEN races ELSE races \cup {"overlap"}

CreateNode(r, on) ==
    /\ Begins(r)
    /\ saves = 0
    /\ saves' = 1
    /\ row' = [exists |-> TRUE, ver |-> 1, enabled |-> on, known |-> 0]
    /\ req' = [req EXCEPT ![r] = [Idle EXCEPT !.at = "saved", !.ver = 1, !.enabled = on]]
    /\ UNCHANGED <<shownVars, client, outageVars>>

\* GetNode: the row as it was when the request read it.
UpdateReads(r) ==
    /\ Begins(r)
    /\ row.exists
    /\ req' = [req EXCEPT ![r] = [Idle EXCEPT !.at = "read", !.ver = row.ver, !.known = row.known]]
    /\ UNCHANGED <<tableVars, shownVars, client, outageVars>>

\* UpdateNode writes every column: the runtime ones as they were read, or empty
\* when the connection setting changes.
UpdateSaves(r, changed, on) ==
    /\ req[r].at = "read"
    /\ row.exists
    /\ saves < MaxSaves
    /\ saves' = saves + 1
    /\ LET ver == IF changed THEN saves + 1 ELSE req[r].ver
       IN /\ row' = [exists |-> TRUE, ver |-> ver, enabled |-> on,
                     known |-> IF changed THEN 0 ELSE req[r].known]
          /\ req' = [req EXCEPT ![r] = [Idle EXCEPT !.at = "saved", !.ver = ver, !.enabled = on]]
    /\ UNCHANGED <<shownVars, client, outageVars, races>>

\* The row is gone, or the statement fails.
UpdateFails(r) ==
    /\ req[r].at = "read"
    /\ req' = [req EXCEPT ![r] = Idle]
    /\ UNCHANGED <<tableVars, shownVars, client, outageVars, races>>

\* Mutant: a deleted node keeps its connection.
DeleteForgetsManager(r) ==
    /\ Begins(r)
    /\ row.exists
    /\ row' = NoNode
    /\ UNCHANGED <<saves, req, shownVars, client, outageVars>>

DeleteNode(r) ==
    /\ Begins(r)
    /\ row.exists
    /\ row' = NoNode
    /\ req' = [req EXCEPT ![r] = [Idle EXCEPT !.at = "deleted"]]
    /\ UNCHANGED <<saves, shownVars, client, outageVars>>

-----------------------------------------------------------------------------
(* Manager.                                                                *)

\* Remove, under Manager.mu; Upsert begins with it.
RemoveClient(r) ==
    /\ req[r].at \in {"saved", "deleted"}
    /\ managed' = NoClient
    /\ shown' = NoStatus
    /\ req' = [req EXCEPT ![r].at = IF @ = "saved" THEN "removed" ELSE "cancels",
                          ![r].old = managed]
    /\ UNCHANGED <<tableVars, client, outageVars, races>>

Removed(r) ==
    req' = [req EXCEPT ![r] = IF @.at = "cancels" THEN Idle
                              ELSE [@ EXCEPT !.at = "inserts", !.old = NoClient]]

\* Remove, after the lock.
CancelOld(r) ==
    /\ req[r].at \in {"removed", "cancels"}
    /\ client' = [c \in Clients |-> [client[c] EXCEPT !.ended = @ \/ c = req[r].old]]
    /\ Removed(r)
    /\ UNCHANGED <<tableVars, shownVars, outageVars, races>>

\* The rest of Upsert, under Manager.mu; then both goroutines of Run start.
InsertClient(r, c) ==
    /\ req[r].at = "inserts"
    /\ req[r].enabled
    /\ client[c] = Unstarted
    /\ managed' = c
    /\ shown' = [state |-> "CONNECTING", of |-> req[r].ver]
    /\ client' = [client EXCEPT ![c] = [Unstarted EXCEPT !.at = "dials", !.ver = req[r].ver,
                                                         !.watched = TRUE]]
    /\ req' = [req EXCEPT ![r] = Idle]
    /\ UNCHANGED <<tableVars, outageVars, races>>

InsertDisabled(r) ==
    /\ req[r].at = "inserts"
    /\ ~req[r].enabled
    /\ shown' = [state |-> "DISABLED", of |-> req[r].ver]
    /\ req' = [req EXCEPT ![r] = Idle]
    /\ UNCHANGED <<tableVars, managed, client, outageVars, races>>

-----------------------------------------------------------------------------
(* Client.Run and connect.                                                 *)

\* Run goes from one place to the next and changes nothing else.
Goes(c, from, to) ==
    /\ client[c].at = from
    /\ client' = [client EXCEPT ![c].at = to]

\* The context is over at the top of the loop, after connect or during the
\* wait. disconnect(nil) finds no connection: connect leaves none behind.
RunReturns(c) ==
    /\ client[c].at \in {"dials", "lost", "waits"}
    /\ client[c].ended
    /\ client' = [client EXCEPT ![c].at = "free"]
    /\ UNCHANGED <<tableVars, req, shownVars, outageVars, races>>

\* The token is sent; the answer takes a while.
DialSucceeds(c) ==
    /\ client[c].at = "dials"
    /\ ~client[c].ended
    /\ reachable
    /\ client' = [client EXCEPT ![c].at = "asks", ![c].sock = TRUE]
    /\ UNCHANGED <<tableVars, req, shownVars, outageVars, races>>

\* The dial sees the end of the context as well.
DialFails(c) ==
    /\ ~reachable \/ client[c].ended
    /\ Goes(c, "dials", "lost")
    /\ UNCHANGED <<tableVars, req, shownVars, outageVars, races>>

\* auth.result came. The context is not looked at.
Authenticated(c) ==
    /\ client[c].at = "asks"
    /\ client[c].sock
    /\ client' = [client EXCEPT ![c].at = "shows", ![c].conn = TRUE, ![c].seen = TRUE]
    /\ UNCHANGED <<tableVars, req, shownVars, outageVars, races>>

\* The connection is lost, or closed because the daemon refuses, another message
\* comes first or ten seconds are over.
AskFails(c) ==
    /\ client[c].at = "asks"
    /\ IF client[c].sock THEN outages < MaxOutages /\ outages' = outages + 1
                         ELSE UNCHANGED outages
    /\ client' = [client EXCEPT ![c].at = "lost", ![c].sock = FALSE]
    /\ UNCHANGED <<tableVars, req, shownVars, reachable, races>>

\* A callback is not told that its client was replaced.
Reports(c) == races' = IF c = managed THEN races ELSE races \cup {"late report"}

\* The callback with the status connect() took: first Manager.statuses.
ShowOnline(c) ==
    /\ Goes(c, "shows", "records")
    /\ shown' = [state |-> "ONLINE", of |-> client[c].ver]
    /\ Reports(c)
    /\ UNCHANGED <<tableVars, req, managed, outageVars>>

\* UpdateNodeRuntime, which finds the row by its id and keeps daemon_id when the
\* client has none.
RecordRuntime(c) ==
    /\ row' = IF row.exists /\ client[c].seen THEN [row EXCEPT !.known = client[c].ver] ELSE row
    /\ Reports(c)
    /\ UNCHANGED <<saves, req, shownVars, outageVars>>

ReadEnds(c) ==
    /\ ~client[c].sock
    /\ Goes(c, "reads", "closes")
    /\ UNCHANGED <<tableVars, req, shownVars, outageVars, races>>

\* disconnect(conn).
Disconnects(c) ==
    /\ client[c].at = "closes"
    /\ client' = [client EXCEPT ![c].at = "lost", ![c].conn = FALSE]
    /\ UNCHANGED <<tableVars, req, shownVars, outageVars, races>>

\* Mutant: Run gives up after a connection that failed.
GivesUp(c) ==
    /\ ~client[c].ended
    /\ Goes(c, "lost", "free")
    /\ UNCHANGED <<tableVars, req, shownVars, outageVars, races>>

\* The context is not over; the callback with the last error follows.
TakesError(c) ==
    /\ ~client[c].ended
    /\ Goes(c, "lost", "complains")
    /\ UNCHANGED <<tableVars, req, shownVars, outageVars, races>>

ShowOffline(c) ==
    /\ Goes(c, "complains", "notes")
    /\ shown' = [state |-> "OFFLINE", of |-> client[c].ver]
    /\ Reports(c)
    /\ UNCHANGED <<tableVars, req, managed, outageVars>>

\* retryDelay is over.
Retry(c) ==
    /\ Goes(c, "waits", "dials")
    /\ UNCHANGED <<tableVars, req, shownVars, outageVars, races>>

\* The other goroutine of Run: disconnect(nil) once the context is over. A
\* connection that connect() has not given to the client stays open.
WatcherCloses(c) ==
    /\ client[c].watched
    /\ client[c].ended
    /\ client' = [client EXCEPT ![c].watched = FALSE, ![c].conn = FALSE,
                                ![c].sock = @ /\ ~client[c].conn]
    /\ UNCHANGED <<tableVars, req, shownVars, outageVars, races>>

-----------------------------------------------------------------------------
(* The daemon and the network.                                             *)

\* Every connection is lost, as when the daemon stops.
Outage ==
    /\ reachable
    /\ outages < MaxOutages
    /\ outages' = outages + 1
    /\ reachable' = FALSE
    /\ client' = [c \in Clients |-> [client[c] EXCEPT !.sock = FALSE]]
    /\ UNCHANGED <<tableVars, req, shownVars, races>>

OutageEnds ==
    /\ ~reachable
    /\ reachable' = TRUE
    /\ UNCHANGED <<tableVars, req, shownVars, client, outages, races>>

-----------------------------------------------------------------------------
RequestStep(r) ==
    \/ \E changed \in BOOLEAN, on \in BOOLEAN : UpdateSaves(r, changed, on)
    \/ UpdateFails(r)
    \/ RemoveClient(r)
    \/ CancelOld(r)
    \/ \E c \in Clients : InsertClient(r, c)
    \/ InsertDisabled(r)

ClientStep(c) ==
    \/ RunReturns(c)
    \/ DialSucceeds(c)
    \/ DialFails(c)
    \/ Authenticated(c)
    \/ AskFails(c)
    \/ ShowOnline(c)
    \/ Goes(c, "records", "reads") /\ RecordRuntime(c)
    \/ ReadEnds(c)
    \/ Disconnects(c)
    \/ TakesError(c)
    \/ ShowOffline(c)
    \/ Goes(c, "notes", "waits") /\ RecordRuntime(c)
    \/ Retry(c)

NodeNext ==
    \/ \E r \in Requests :
         \/ \E on \in BOOLEAN : CreateNode(r, on)
         \/ UpdateReads(r)
         \/ DeleteNode(r)
         \/ RequestStep(r)
    \/ \E c \in Clients : ClientStep(c) \/ WatcherCloses(c)
    \/ Outage
    \/ OutageEnds

NodeSpec == NodeInit /\ [][NodeNext]_nodeVars

\* Every goroutine goes on, and no outage is for ever.
NodeFairness ==
    /\ \A r \in Requests : WF_nodeVars(RequestStep(r))
    /\ \A c \in Clients :
         /\ WF_nodeVars(ClientStep(c))
         /\ WF_nodeVars(WatcherCloses(c))
    /\ WF_nodeVars(OutageEnds)

FairNodeSpec == NodeSpec /\ NodeFairness

-----------------------------------------------------------------------------
(* Properties.                                                             *)

Overlapped == "overlap" \in races

\* A call that finds a client in the map finds one that still works for it: it
\* runs, and nobody has ended its context (Upsert, Remove; Call uses it later).
ManagedIsLive ==
    managed # NoClient => client[managed].at # "free" /\ ~client[managed].ended

\* As long as requests for a node do not overlap, at most one client of a node
\* goes on: every other one is about to be cancelled or was (Upsert, Remove).
OneLiveClient ==
    ~Overlapped =>
        \A c \in Clients : client[c].at # "free" /\ ~client[c].ended =>
            c = managed \/ \E r \in Requests : req[r].old = c

\* Between requests that did not overlap, the map has a client exactly for an
\* enabled node, with the saved setting (Create, Update, Delete, Start).
ConnectionIsRow ==
    ~Overlapped /\ (\A r \in Requests : req[r].at = "idle") =>
        /\ managed # NoClient <=> row.exists /\ row.enabled
        /\ managed # NoClient => client[managed].ver = row.ver

\* The types, and the clients that run are those of the map, which are those of
\* the table (Upsert, Remove, Create, Update, Delete).
ClientsAreRows == NodeTypeOK /\ ManagedIsLive /\ OneLiveClient /\ ConnectionIsRow

\* Table, map, connection, status and runtime columns agree.
Settled ==
    IF row.exists /\ row.enabled
      THEN /\ managed # NoClient
           /\ client[managed].conn
           /\ client[managed].sock
           /\ client[managed].ver = row.ver
           /\ shown = [state |-> "ONLINE", of |-> row.ver]
           /\ row.known = row.ver
      ELSE /\ managed = NoClient
           /\ shown.state = IF row.exists THEN "DISABLED" ELSE "none"

\* When the changes and the outages are over, the panel ends up connected as the
\* table says and shows it, unless requests overlapped or a client that had
\* been replaced reported (Run, connect, Upsert, UpdateNodeRuntime).
Converges == <>[](Settled \/ races # {})
=============================================================================
