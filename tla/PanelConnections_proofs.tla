----------------------- MODULE PanelConnections_proofs -----------------------
(***************************************************************************)
(* Theorems about the two ends of the control connection between panel and *)
(* daemon: NodeConnections and ControlLink.                                *)
(***************************************************************************)
EXTENDS NodeConnections, ControlLink, TLAPS

-----------------------------------------------------------------------------
(***************************************************************************)
(* NodeConnections: for any number of requests, clients, saves and outages,*)
(* the clients that run are those of the map, and between requests that did*)
(* not overlap those of the table.                                         *)
(***************************************************************************)

ReqRows    == [at : {"idle", "read", "saved", "removed", "inserts", "deleted", "cancels"},
               ver : Versions, enabled : BOOLEAN, known : Versions, old : Clients \cup {NoClient}]
ClientRows == [at : {"free", "dials", "asks", "shows", "records", "reads", "closes",
                     "lost", "complains", "notes", "waits"},
               ver : Versions, ended : BOOLEAN, watched : BOOLEAN,
               conn : BOOLEAN, sock : BOOLEAN, seen : BOOLEAN]
NodeRows   == [exists : BOOLEAN, ver : Versions, enabled : BOOLEAN, known : Versions]
Shown      == [state : {"none", "DISABLED", "CONNECTING", "ONLINE", "OFFLINE"}, of : Versions]

Live(c)    == client[c].at # "free" /\ ~client[c].ended
Started(c) == client[c].at # "free" \/ client[c].ended

\* What a request took out of the map has been started and does not come back.
OldOK(r) ==
    /\ req[r].at \notin {"removed", "cancels"} => req[r].old = NoClient
    /\ req[r].old # NoClient => req[r].old # managed /\ Started(req[r].old)

MatchesRow ==
    /\ managed # NoClient <=> row.exists /\ row.enabled
    /\ managed # NoClient => client[managed].ver = row.ver

\* How far a request that is alone has brought table and map.
Phase(r) ==
    /\ req[r].at = "read" => MatchesRow
    /\ req[r].at \in {"saved", "removed", "inserts"} =>
         row.exists /\ row.ver = req[r].ver /\ (row.enabled <=> req[r].enabled)
    /\ req[r].at \in {"deleted", "cancels"} => ~row.exists
    /\ req[r].at \in {"removed", "inserts", "cancels"} => managed = NoClient

OneAtATime ==
    /\ \A r, q \in Requests : req[r].at # "idle" /\ req[q].at # "idle" => r = q
    /\ \A r \in Requests : Phase(r)
    /\ (\A r \in Requests : req[r].at = "idle") => MatchesRow
    /\ \A c \in Clients : Live(c) => c = managed \/ \E r \in Requests : req[r].old = c

NodeInv ==
    /\ NodeTypeOK
    /\ ManagedIsLive
    /\ \A r \in Requests : OldOK(r)
    /\ ~Overlapped => OneAtATime

-----------------------------------------------------------------------------
(* Clients.                                                                *)

\* What a client does by itself: it neither ends its context nor changes its setting, and it
\* runs until the context is over.
ClientMoves(c, new) ==
    /\ client' = [client EXCEPT ![c] = new]
    /\ new \in ClientRows
    /\ new.ver = client[c].ver /\ new.ended = client[c].ended
    /\ new.conn => new.at \in {"shows", "records", "reads", "closes"}
    /\ client[c].at = "free" => new.at = "free"
    /\ new.at = "free" => client[c].at = "free" \/ client[c].ended
    /\ UNCHANGED <<req, managed, saves>>

\* What else changes with it.
Aside ==
    /\ row' \in NodeRows
    /\ row'.exists = row.exists /\ row'.ver = row.ver /\ row'.enabled = row.enabled
    /\ shown' \in Shown
    /\ reachable' \in BOOLEAN /\ outages' \in 0 .. MaxOutages
    /\ races' \subseteq {"overlap", "late report"} /\ (Overlapped' <=> Overlapped)

LEMMA MovesInv ==
    ASSUME NodeInv, NEW c \in Clients, NEW new, ClientMoves(c, new), Aside
    PROVE  NodeInv'
<1>0. /\ NodeTypeOK /\ client \in [Clients -> ClientRows] /\ req \in [Requests -> ReqRows]
      /\ managed \in Clients \cup {NoClient}
  BY DEF NodeInv, NodeTypeOK, ClientRows, ReqRows
<1>1. /\ client' \in [Clients -> ClientRows] /\ client'[c] = new
      /\ \A d \in Clients : d # c => client'[d] = client[d]
      /\ UNCHANGED <<req, managed, saves>>
  BY <1>0 DEF ClientMoves
<1>2. \A d \in Clients : /\ client'[d].ver = client[d].ver
                         /\ Live(d)' <=> Live(d)
                         /\ Started(d) => Started(d)'
  BY <1>1 DEF ClientMoves, Live, Started
<1>3. NodeTypeOK'
  <2>1. \A d \in Clients :
          client'[d].conn => client'[d].at \in {"shows", "records", "reads", "closes"}
    <3>1. \A d \in Clients :
            client[d].conn => client[d].at \in {"shows", "records", "reads", "closes"}
      BY <1>0 DEF NodeTypeOK
    <3>2. new.conn => new.at \in {"shows", "records", "reads", "closes"}
      BY DEF ClientMoves
    <3> QED
      BY <1>1, <3>1, <3>2
  <2> QED
    BY <1>0, <1>1, <2>1 DEF NodeTypeOK, Aside, ClientRows, NodeRows, Shown
<1>4. ManagedIsLive'
  BY <1>0, <1>1, <1>2 DEF NodeInv, ManagedIsLive, Live
<1>5. \A r \in Requests : OldOK(r)'
  BY <1>0, <1>1, <1>2 DEF NodeInv, OldOK, ReqRows
<1>6. ASSUME ~Overlapped' PROVE OneAtATime'
  <2>1. OneAtATime
    BY <1>6 DEF NodeInv, Aside
  <2>2. MatchesRow' <=> MatchesRow
    BY <1>0, <1>1, <1>2 DEF MatchesRow, Aside
  <2>3. \A r \in Requests : Phase(r)'
    BY <1>1, <2>1, <2>2 DEF OneAtATime, Phase, Aside
  <2> QED
    BY <1>1, <1>2, <2>1, <2>2, <2>3 DEF OneAtATime
<1> QED
  BY <1>3, <1>4, <1>5, <1>6 DEF NodeInv

LEMMA ClientInv ==
    ASSUME NodeInv, NEW c \in Clients, ClientStep(c) \/ WatcherCloses(c)
    PROVE  NodeInv'
<1> DEFINE old == client[c]
<1>0. /\ client \in [Clients -> ClientRows] /\ old \in ClientRows
      /\ old.conn => old.at \in {"shows", "records", "reads", "closes"}
      /\ NodeTypeOK
  BY DEF NodeInv, NodeTypeOK, ClientRows
<1>1. ASSUME UNCHANGED <<row, shown, reachable, outages, races>> PROVE Aside
  BY <1>0, <1>1 DEF Aside, NodeTypeOK, NodeRows, Shown, Overlapped
<1>2. ASSUME NEW from, NEW to \in {"shows", "records", "reads", "closes", "lost", "complains",
                                   "notes", "waits", "dials"},
             Goes(c, from, to), from # "free",
             old.conn => to \in {"shows", "records", "reads", "closes"},
             UNCHANGED <<req, managed, saves>>
      PROVE  ClientMoves(c, [old EXCEPT !.at = to])
  BY <1>0, <1>2 DEF ClientMoves, Goes, ClientRows
<1>3. CASE RunReturns(c)
  <2>1. ClientMoves(c, [old EXCEPT !.at = "free"])
    BY <1>0, <1>3 DEF RunReturns, ClientMoves, ClientRows, tableVars, shownVars
  <2> QED
    BY <1>1, <1>3, <2>1, MovesInv DEF RunReturns, tableVars, shownVars, outageVars
<1>4. CASE DialSucceeds(c)
  <2>1. ClientMoves(c, [old EXCEPT !.at = "asks", !.sock = TRUE])
    BY <1>0, <1>4 DEF DialSucceeds, ClientMoves, ClientRows, tableVars, shownVars
  <2> QED
    BY <1>1, <1>4, <2>1, MovesInv DEF DialSucceeds, tableVars, shownVars, outageVars
<1>5. CASE DialFails(c)
  <2>1. ClientMoves(c, [old EXCEPT !.at = "lost"])
    BY <1>0, <1>2, <1>5 DEF DialFails, Goes, tableVars, shownVars
  <2> QED
    BY <1>1, <1>5, <2>1, MovesInv DEF DialFails, tableVars, shownVars, outageVars
<1>6. CASE Authenticated(c)
  <2>1. ClientMoves(c, [old EXCEPT !.at = "shows", !.conn = TRUE, !.seen = TRUE])
    BY <1>0, <1>6 DEF Authenticated, ClientMoves, ClientRows, tableVars, shownVars
  <2> QED
    BY <1>1, <1>6, <2>1, MovesInv DEF Authenticated, tableVars, shownVars, outageVars
<1>7. CASE AskFails(c)
  <2>1. ClientMoves(c, [old EXCEPT !.at = "lost", !.sock = FALSE])
    BY <1>0, <1>7 DEF AskFails, ClientMoves, ClientRows, tableVars, shownVars
  <2>2. outages' \in 0 .. MaxOutages
    <3>1. outages \in 0 .. MaxOutages /\ MaxOutages \in Nat
      BY <1>0, NodeConstants DEF NodeTypeOK
    <3>2. outages' = outages \/ (outages < MaxOutages /\ outages' = outages + 1)
      BY <1>7 DEF AskFails
    <3> QED
      BY <3>1, <3>2
  <2>3. Aside
    BY <1>0, <1>7, <2>2 DEF AskFails, Aside, NodeTypeOK, NodeRows, Shown, Overlapped,
       tableVars, shownVars
  <2> QED
    BY <2>1, <2>3, MovesInv
<1>8. CASE ShowOnline(c) \/ ShowOffline(c)
  <2>0. Reports(c) /\ shown' \in Shown /\ UNCHANGED <<row, reachable, outages>>
    BY <1>0, <1>8 DEF ShowOnline, ShowOffline, Shown, ClientRows, tableVars, outageVars
  <2>1. Aside
    BY <1>0, <2>0 DEF Reports, Aside, NodeTypeOK, NodeRows, Overlapped
  <2>2. CASE ShowOnline(c)
    <3>1. ClientMoves(c, [old EXCEPT !.at = "records"])
      BY <1>2, <2>2 DEF ShowOnline, tableVars
    <3> QED
      BY <2>1, <3>1, MovesInv
  <2>3. CASE ShowOffline(c)
    <3>1. ClientMoves(c, [old EXCEPT !.at = "notes"])
      BY <1>0, <1>2, <2>3 DEF ShowOffline, Goes, tableVars
    <3> QED
      BY <2>1, <3>1, MovesInv
  <2> QED
    BY <1>8, <2>2, <2>3
<1>9. ASSUME RecordRuntime(c),
             \/ Goes(c, "records", "reads")
             \/ Goes(c, "notes", "waits")
      PROVE  NodeInv'
  <2>1. Aside
    BY <1>0, <1>9 DEF RecordRuntime, Reports, Aside, NodeTypeOK, NodeRows, Shown,
       ClientRows, Overlapped, shownVars, outageVars
  <2>2. CASE Goes(c, "records", "reads")
    <3>1. ClientMoves(c, [old EXCEPT !.at = "reads"])
      BY <1>2, <1>9, <2>2 DEF RecordRuntime, shownVars
    <3> QED
      BY <2>1, <3>1, MovesInv
  <2>3. CASE Goes(c, "notes", "waits")
    <3>1. ClientMoves(c, [old EXCEPT !.at = "waits"])
      BY <1>0, <1>2, <1>9, <2>3 DEF RecordRuntime, Goes, shownVars
    <3> QED
      BY <2>1, <3>1, MovesInv
  <2> QED
    BY <1>9, <2>2, <2>3
<1>10. CASE ReadEnds(c)
  <2>1. ClientMoves(c, [old EXCEPT !.at = "closes"])
    BY <1>2, <1>10 DEF ReadEnds, tableVars, shownVars
  <2> QED
    BY <1>1, <1>10, <2>1, MovesInv DEF ReadEnds, tableVars, shownVars, outageVars
<1>11. CASE Disconnects(c)
  <2>1. ClientMoves(c, [old EXCEPT !.at = "lost", !.conn = FALSE])
    BY <1>0, <1>11 DEF Disconnects, ClientMoves, ClientRows, tableVars, shownVars
  <2> QED
    BY <1>1, <1>11, <2>1, MovesInv DEF Disconnects, tableVars, shownVars, outageVars
<1>12. CASE TakesError(c)
  <2>1. ClientMoves(c, [old EXCEPT !.at = "complains"])
    BY <1>0, <1>2, <1>12 DEF TakesError, Goes, tableVars, shownVars
  <2> QED
    BY <1>1, <1>12, <2>1, MovesInv DEF TakesError, tableVars, shownVars, outageVars
<1>13. CASE Retry(c)
  <2>1. ClientMoves(c, [old EXCEPT !.at = "dials"])
    BY <1>0, <1>2, <1>13 DEF Retry, Goes, tableVars, shownVars
  <2> QED
    BY <1>1, <1>13, <2>1, MovesInv DEF Retry, tableVars, shownVars, outageVars
<1>14. CASE WatcherCloses(c)
  <2>1. \E sock \in BOOLEAN :
          ClientMoves(c, [old EXCEPT !.watched = FALSE, !.conn = FALSE, !.sock = sock])
    BY <1>0, <1>14 DEF WatcherCloses, ClientMoves, ClientRows, tableVars, shownVars
  <2> QED
    BY <1>1, <1>14, <2>1, MovesInv DEF WatcherCloses, tableVars, shownVars, outageVars
<1> QED
  BY <1>3, <1>4, <1>5, <1>6, <1>7, <1>8, <1>9, <1>10, <1>11, <1>12, <1>13, <1>14 DEF ClientStep

-----------------------------------------------------------------------------
(* Requests and the network.                                               *)

LEMMA Typed ==
    ASSUME NodeInv
    PROVE  /\ NodeTypeOK
           /\ row \in NodeRows /\ saves \in Versions /\ 0 \in Versions
           /\ req \in [Requests -> ReqRows] /\ client \in [Clients -> ClientRows]
           /\ managed \in Clients \cup {NoClient} /\ NoClient \notin Clients
           /\ shown \in Shown /\ races \subseteq {"overlap", "late report"}
           /\ \A c \in Clients :
                client[c].conn => client[c].at \in {"shows", "records", "reads", "closes"}
<1>1. NodeTypeOK
  BY DEF NodeInv
<1>2. 0 \in Versions /\ NoClient \notin Clients
  BY NodeConstants DEF Versions
<1>3. row \in NodeRows /\ saves \in Versions /\ shown \in Shown
  BY <1>1 DEF NodeTypeOK, NodeRows, Shown
<1>4. req \in [Requests -> ReqRows]
  BY <1>1 DEF NodeTypeOK, ReqRows
<1>5. client \in [Clients -> ClientRows]
  BY <1>1 DEF NodeTypeOK, ClientRows
<1>6. /\ managed \in Clients \cup {NoClient} /\ races \subseteq {"overlap", "late report"}
      /\ \A c \in Clients :
           client[c].conn => client[c].at \in {"shows", "records", "reads", "closes"}
  BY <1>1 DEF NodeTypeOK
<1> QED
  BY <1>1, <1>2, <1>3, <1>4, <1>5, <1>6

\* What a request writes beside its own record, which becomes `new`.
Writes(r, new) ==
    /\ req' = [req EXCEPT ![r] = new]
    /\ new \in ReqRows
    /\ row' \in NodeRows /\ saves' \in Versions
    /\ UNCHANGED <<reachable, outages>>

LEMMA WritesType ==
    ASSUME NodeTypeOK, NEW r \in Requests, NEW new, Writes(r, new),
           managed' \in Clients \cup {NoClient}, shown' \in Shown,
           races' \subseteq {"overlap", "late report"},
           client' \in [Clients -> ClientRows],
           \A c \in Clients :
             client'[c].conn => client'[c].at \in {"shows", "records", "reads", "closes"}
    PROVE  /\ NodeTypeOK'
           /\ req'[r] = new
           /\ \A q \in Requests : q # r => req'[q] = req[q]
  BY DEF NodeTypeOK, Writes, ReqRows, NodeRows, ClientRows, Shown

\* A request that begins in a calm moment finds table and map in agreement.
LEMMA BeginsInv ==
    ASSUME NodeInv, NEW r \in Requests, Begins(r), NEW new, Writes(r, new),
           new.old = NoClient, new.at \in {"read", "saved", "deleted"},
           new.at = "read" => UNCHANGED row,
           new.at = "saved" => row'.exists /\ row'.ver = new.ver /\ (row'.enabled <=> new.enabled),
           new.at = "deleted" => ~row'.exists,
           UNCHANGED <<managed, shown, client>>
    PROVE  NodeInv'
<1>0. /\ NodeTypeOK /\ client \in [Clients -> ClientRows] /\ shown \in Shown
      /\ managed \in Clients \cup {NoClient} /\ NoClient \notin Clients
      /\ \A c \in Clients :
           client[c].conn => client[c].at \in {"shows", "records", "reads", "closes"}
  BY Typed
<1>1. races' \subseteq {"overlap", "late report"}
  BY <1>0 DEF Begins, NodeTypeOK
<1>2. /\ NodeTypeOK' /\ req'[r] = new
      /\ \A q \in Requests : q # r => req'[q] = req[q]
  BY <1>0, <1>1, WritesType
<1>3. ManagedIsLive'
  BY DEF NodeInv, ManagedIsLive
<1>4. \A q \in Requests : OldOK(q)'
  BY <1>2 DEF NodeInv, OldOK, Started
<1>5. ASSUME ~Overlapped' PROVE OneAtATime'
  <2>1. /\ \A q \in Requests : req[q].at = "idle"
        /\ OneAtATime
    BY <1>5 DEF Begins, Overlapped, NodeInv
  <2>2. MatchesRow /\ \A q \in Requests : req[q].old = NoClient
    BY <2>1 DEF OneAtATime, NodeInv, OldOK
  <2>3. \A c \in Clients : Live(c)' => c = managed'
    BY <1>0, <2>1, <2>2 DEF OneAtATime, Live
  <2>4. Phase(r)'
    BY <1>2, <2>2 DEF Phase, MatchesRow
  <2>5. \A q \in Requests : q # r => Phase(q)'
    BY <1>2, <2>1 DEF Phase
  <2> QED
    BY <1>2, <2>1, <2>3, <2>4, <2>5 DEF OneAtATime
<1> QED
  BY <1>2, <1>3, <1>4, <1>5 DEF NodeInv

LEMMA BeginningsInv ==
    ASSUME NodeInv, NEW r \in Requests,
           \/ \E on \in BOOLEAN : CreateNode(r, on)
           \/ UpdateReads(r)
           \/ DeleteNode(r)
    PROVE  NodeInv'
<1>0. /\ row \in NodeRows /\ saves \in Versions /\ 0 \in Versions /\ 1 \in Versions
      /\ Idle \in ReqRows /\ NoNode \in NodeRows
  <2>1. row \in NodeRows /\ saves \in Versions
    BY Typed
  <2>2. 0 \in Versions /\ 1 \in Versions
    BY NodeConstants DEF Versions
  <2> QED
    BY <2>1, <2>2 DEF NodeRows, ReqRows, Idle, NoNode
<1>1. ASSUME NEW on \in BOOLEAN, CreateNode(r, on) PROVE NodeInv'
  <2> DEFINE new == [Idle EXCEPT !.at = "saved", !.ver = 1, !.enabled = on]
  <2>1. new \in ReqRows
    BY <1>0 DEF Idle, ReqRows
  <2>2. /\ new.at = "saved" /\ new.old = NoClient /\ new.ver = 1 /\ new.enabled = on
        /\ row' \in NodeRows /\ row'.exists /\ row'.ver = 1 /\ row'.enabled = on
        /\ saves' \in Versions
    BY <1>0, <1>1 DEF Idle, CreateNode, NodeRows
  <2>3. /\ req' = [req EXCEPT ![r] = new] /\ Begins(r)
        /\ UNCHANGED <<managed, shown, client, reachable, outages>>
    BY <1>1 DEF CreateNode, shownVars, outageVars
  <2> HIDE DEF new
  <2> QED
    BY <2>1, <2>2, <2>3, BeginsInv DEF Writes
<1>2. CASE UpdateReads(r)
  <2> DEFINE new == [Idle EXCEPT !.at = "read", !.ver = row.ver, !.known = row.known]
  <2>1. new \in ReqRows /\ new.at = "read" /\ new.old = NoClient
    BY <1>0 DEF Idle, ReqRows, NodeRows
  <2>2. /\ req' = [req EXCEPT ![r] = new] /\ Begins(r)
        /\ UNCHANGED <<row, saves, managed, shown, client, reachable, outages>>
    BY <1>2 DEF UpdateReads, tableVars, shownVars, outageVars
  <2> HIDE DEF new
  <2> QED
    BY <1>0, <2>1, <2>2, BeginsInv DEF Writes
<1>3. CASE DeleteNode(r)
  <2> DEFINE new == [Idle EXCEPT !.at = "deleted"]
  <2>1. new \in ReqRows /\ new.at = "deleted" /\ new.old = NoClient
    BY <1>0 DEF Idle, ReqRows
  <2>2. /\ req' = [req EXCEPT ![r] = new] /\ Begins(r)
        /\ row' \in NodeRows /\ ~row'.exists
        /\ UNCHANGED <<saves, managed, shown, client, reachable, outages>>
    BY <1>0, <1>3 DEF DeleteNode, NoNode, shownVars, outageVars
  <2> HIDE DEF new
  <2> QED
    BY <1>0, <2>1, <2>2, BeginsInv DEF Writes
<1> QED
  BY <1>1, <1>2, <1>3

LEMMA SavesInv ==
    ASSUME NodeInv, NEW r \in Requests,
           NEW changed \in BOOLEAN, NEW on \in BOOLEAN, UpdateSaves(r, changed, on)
    PROVE  NodeInv'
<1> DEFINE ver == IF changed THEN saves + 1 ELSE req[r].ver
           new == [Idle EXCEPT !.at = "saved", !.ver = ver, !.enabled = on]
<1>0. /\ NodeTypeOK /\ req[r] \in ReqRows /\ client \in [Clients -> ClientRows] /\ shown \in Shown
      /\ managed \in Clients \cup {NoClient} /\ races \subseteq {"overlap", "late report"}
      /\ \A c \in Clients :
           client[c].conn => client[c].at \in {"shows", "records", "reads", "closes"}
  BY Typed
<1>1. saves' \in Versions /\ ver \in Versions /\ 0 \in Versions
  <2>1. saves \in Nat /\ saves < MaxSaves /\ saves' = saves + 1 /\ MaxSaves \in Nat
    <3>1. saves \in 0 .. MaxSaves /\ MaxSaves \in Nat
      BY Typed, NodeConstants DEF Versions
    <3>2. saves < MaxSaves /\ saves' = saves + 1
      BY DEF UpdateSaves
    <3> QED
      BY <3>1, <3>2
  <2>2. req[r].ver \in Versions
    BY <1>0 DEF ReqRows
  <2> QED
    BY <2>1, <2>2 DEF Versions
<1>2. new \in ReqRows /\ new.at = "saved" /\ new.old = NoClient /\ new.ver = ver /\ new.enabled = on
  BY <1>1 DEF Idle, ReqRows
<1>3. /\ row' = [exists |-> TRUE, ver |-> ver, enabled |-> on,
                 known |-> IF changed THEN 0 ELSE req[r].known]
      /\ req' = [req EXCEPT ![r] = new]
      /\ UNCHANGED <<managed, shown, client, reachable, outages, races>>
      /\ req[r].at = "read"
  BY DEF UpdateSaves, shownVars, outageVars
<1> HIDE DEF ver, new
<1>4. row' \in NodeRows /\ row'.exists /\ row'.ver = ver /\ row'.enabled = on
  BY <1>0, <1>1, <1>3 DEF NodeRows, ReqRows
<1>5. /\ NodeTypeOK' /\ req'[r] = new
      /\ \A q \in Requests : q # r => req'[q] = req[q]
  <2>1. Writes(r, new)
    BY <1>0, <1>1, <1>2, <1>3, <1>4 DEF Writes
  <2>2. /\ managed' \in Clients \cup {NoClient} /\ races' \subseteq {"overlap", "late report"}
        /\ client' \in [Clients -> ClientRows] /\ shown' \in Shown
    BY <1>0, <1>1, <1>2, <1>3, <1>4
  <2>3. \A c \in Clients :
          client'[c].conn => client'[c].at \in {"shows", "records", "reads", "closes"}
    BY <1>0, <1>1, <1>2, <1>3, <1>4
  <2> QED
    BY <1>0, <2>1, <2>2, <2>3, WritesType
<1>6. ManagedIsLive'
  BY <1>3 DEF NodeInv, ManagedIsLive
<1>7. \A q \in Requests : OldOK(q)'
  BY <1>2, <1>3, <1>5 DEF NodeInv, OldOK, Started
<1>8. ASSUME ~Overlapped' PROVE OneAtATime'
  <2>1. OneAtATime /\ req[r].old = NoClient
    BY <1>3, <1>8 DEF Overlapped, NodeInv, OldOK
  <2>2. \A q \in Requests : q # r => req[q].at = "idle"
    BY <1>3, <2>1 DEF OneAtATime
  <2>3. \A c \in Clients : Live(c)' => c = managed' \/ \E q \in Requests : req'[q].old = c
    BY <1>2, <1>3, <1>5, <2>1, NodeConstants DEF OneAtATime, Live
  <2>4. Phase(r)'
    BY <1>2, <1>4, <1>5 DEF Phase
  <2>5. \A q \in Requests : q # r => Phase(q)'
    BY <1>5, <2>2 DEF Phase
  <2> QED
    BY <1>2, <1>5, <2>2, <2>3, <2>4, <2>5 DEF OneAtATime
<1> QED
  BY <1>5, <1>6, <1>7, <1>8 DEF NodeInv

LEMMA FailsInv ==
    ASSUME NodeInv, NEW r \in Requests, UpdateFails(r)
    PROVE  NodeInv'
<1>0. /\ NodeTypeOK /\ req \in [Requests -> ReqRows] /\ client \in [Clients -> ClientRows]
      /\ row \in NodeRows /\ saves \in Versions /\ 0 \in Versions /\ shown \in Shown
      /\ managed \in Clients \cup {NoClient} /\ races \subseteq {"overlap", "late report"}
      /\ \A c \in Clients :
           client[c].conn => client[c].at \in {"shows", "records", "reads", "closes"}
  BY Typed
<1>1. Idle \in ReqRows /\ Idle.at = "idle" /\ Idle.old = NoClient
  BY <1>0 DEF Idle, ReqRows
<1>2. /\ req' = [req EXCEPT ![r] = Idle] /\ req[r].at = "read"
      /\ UNCHANGED <<row, saves, managed, shown, client, reachable, outages, races>>
  BY DEF UpdateFails, tableVars, shownVars, outageVars
<1>3. /\ NodeTypeOK' /\ req'[r] = Idle
      /\ \A q \in Requests : q # r => req'[q] = req[q]
  <2>1. Writes(r, Idle)
    BY <1>0, <1>1, <1>2 DEF Writes
  <2>2. /\ managed' \in Clients \cup {NoClient} /\ races' \subseteq {"overlap", "late report"}
        /\ client' \in [Clients -> ClientRows] /\ shown' \in Shown
    BY <1>0, <1>1, <1>2
  <2>3. \A c \in Clients :
          client'[c].conn => client'[c].at \in {"shows", "records", "reads", "closes"}
    BY <1>0, <1>1, <1>2
  <2> QED
    BY <1>0, <2>1, <2>2, <2>3, WritesType
<1>4. ManagedIsLive'
  BY <1>2 DEF NodeInv, ManagedIsLive
<1>5. \A q \in Requests : OldOK(q)'
  BY <1>1, <1>2, <1>3 DEF NodeInv, OldOK, Started
<1>6. ASSUME ~Overlapped' PROVE OneAtATime'
  <2>1. OneAtATime /\ req[r].old = NoClient
    BY <1>2, <1>6 DEF Overlapped, NodeInv, OldOK
  <2>2. MatchesRow'
    BY <1>2, <2>1 DEF OneAtATime, Phase, MatchesRow
  <2>3. \A q \in Requests : q # r => req[q].at = "idle"
    BY <1>2, <2>1 DEF OneAtATime
  <2>4. \A c \in Clients : Live(c)' => c = managed' \/ \E q \in Requests : req'[q].old = c
    BY <1>1, <1>2, <1>3, <2>1, NodeConstants DEF OneAtATime, Live
  <2>5. \A q \in Requests : Phase(q)'
    BY <1>1, <1>3, <2>3 DEF Phase
  <2> QED
    BY <1>1, <1>3, <2>2, <2>3, <2>4, <2>5 DEF OneAtATime
<1> QED
  BY <1>3, <1>4, <1>5, <1>6 DEF NodeInv

LEMMA RemovesInv ==
    ASSUME NodeInv, NEW r \in Requests, RemoveClient(r)
    PROVE  NodeInv'
<1> DEFINE at  == IF req[r].at = "saved" THEN "removed" ELSE "cancels"
           new == [req[r] EXCEPT !.at = at, !.old = managed]
<1>0. /\ NodeTypeOK /\ req \in [Requests -> ReqRows] /\ client \in [Clients -> ClientRows]
      /\ row \in NodeRows /\ saves \in Versions /\ 0 \in Versions
      /\ managed \in Clients \cup {NoClient} /\ races \subseteq {"overlap", "late report"}
      /\ \A c \in Clients :
           client[c].conn => client[c].at \in {"shows", "records", "reads", "closes"}
  BY Typed
<1>1. /\ req' = [req EXCEPT ![r] = new] /\ req[r].at \in {"saved", "deleted"}
      /\ managed' = NoClient /\ shown' = NoStatus
      /\ UNCHANGED <<row, saves, client, reachable, outages, races>>
  BY <1>0 DEF RemoveClient, tableVars, outageVars, ReqRows
<1>2. /\ new \in ReqRows /\ new.old = managed /\ new.at = at
      /\ new.ver = req[r].ver /\ new.enabled = req[r].enabled
  <2>1. at \in {"removed", "cancels"} /\ req[r] \in ReqRows
    BY <1>0
  <2> HIDE DEF at
  <2> QED
    BY <1>0, <2>1 DEF ReqRows
<1>3. shown' \in Shown
  BY <1>0, <1>1 DEF NoStatus, Shown
<1> HIDE DEF new
<1>4. /\ NodeTypeOK' /\ req'[r] = new
      /\ \A q \in Requests : q # r => req'[q] = req[q]
  <2>1. Writes(r, new)
    BY <1>0, <1>1, <1>2, <1>3 DEF Writes
  <2>2. /\ managed' \in Clients \cup {NoClient} /\ races' \subseteq {"overlap", "late report"}
        /\ client' \in [Clients -> ClientRows] /\ shown' \in Shown
    BY <1>0, <1>1, <1>2, <1>3
  <2>3. \A c \in Clients :
          client'[c].conn => client'[c].at \in {"shows", "records", "reads", "closes"}
    BY <1>0, <1>1, <1>2, <1>3
  <2> QED
    BY <1>0, <2>1, <2>2, <2>3, WritesType
<1>5. ManagedIsLive'
  BY <1>1 DEF ManagedIsLive
<1>6. \A q \in Requests : OldOK(q)'
  BY <1>1, <1>2, <1>4 DEF NodeInv, ManagedIsLive, OldOK, Started
<1>7. ASSUME ~Overlapped' PROVE OneAtATime'
  <2>1. OneAtATime /\ req[r].old = NoClient
    BY <1>1, <1>7 DEF Overlapped, NodeInv, OldOK
  <2>2. \A q \in Requests : q # r => req[q].at = "idle"
    BY <1>1, <2>1 DEF OneAtATime
  <2>3. ASSUME NEW c \in Clients, Live(c)'
        PROVE  \E q \in Requests : req'[q].old = c
    <3>1. c = managed \/ \E q \in Requests : req[q].old = c
      BY <1>1, <2>1, <2>3 DEF OneAtATime, Live
    <3>2. CASE c = managed
      BY <1>2, <1>4, <3>2
    <3>3. CASE \E q \in Requests : req[q].old = c
      BY <1>4, <2>1, <3>3, NodeConstants
    <3> QED
      BY <3>1, <3>2, <3>3
  <2>4. Phase(r)'
    BY <1>1, <1>2, <1>4, <2>1 DEF OneAtATime, Phase
  <2>5. \A q \in Requests : q # r => Phase(q)'
    BY <1>4, <2>2 DEF Phase
  <2> QED
    BY <1>1, <1>2, <1>4, <2>2, <2>3, <2>4, <2>5 DEF OneAtATime
<1> QED
  BY <1>4, <1>5, <1>6, <1>7 DEF NodeInv

LEMMA CancelsInv ==
    ASSUME NodeInv, NEW r \in Requests, CancelOld(r)
    PROVE  NodeInv'
<1> DEFINE new == IF req[r].at = "cancels" THEN Idle
                  ELSE [req[r] EXCEPT !.at = "inserts", !.old = NoClient]
<1>0. /\ NodeTypeOK /\ req \in [Requests -> ReqRows] /\ client \in [Clients -> ClientRows]
      /\ row \in NodeRows /\ saves \in Versions /\ 0 \in Versions /\ shown \in Shown
      /\ managed \in Clients \cup {NoClient} /\ races \subseteq {"overlap", "late report"}
      /\ NoClient \notin Clients
      /\ \A c \in Clients :
           client[c].conn => client[c].at \in {"shows", "records", "reads", "closes"}
  BY Typed
<1>1. /\ req' = [req EXCEPT ![r] = new] /\ req[r].at \in {"removed", "cancels"}
      /\ UNCHANGED <<row, saves, managed, shown, reachable, outages, races>>
  BY <1>0 DEF CancelOld, Removed, tableVars, shownVars, outageVars, ReqRows
<1>2. /\ new \in ReqRows /\ new.old = NoClient
      /\ req[r].at = "cancels" => new.at = "idle"
      /\ req[r].at = "removed" => /\ new.at = "inserts"
                                  /\ new.ver = req[r].ver /\ new.enabled = req[r].enabled
  BY <1>0, <1>1 DEF ReqRows, Idle
<1>3. /\ client' = [c \in Clients |-> [client[c] EXCEPT !.ended = @ \/ c = req[r].old]]
  BY DEF CancelOld
<1>4. ASSUME NEW c \in Clients
      PROVE  /\ client'[c] \in ClientRows
             /\ client'[c].at = client[c].at /\ client'[c].ver = client[c].ver
             /\ client'[c].conn = client[c].conn
             /\ client'[c].ended <=> (client[c].ended \/ c = req[r].old)
  <2>1. client'[c] = [client[c] EXCEPT !.ended = @ \/ c = req[r].old]
    BY <1>3
  <2>2. client[c] \in ClientRows
    BY <1>0
  <2> QED
    BY <2>1, <2>2 DEF ClientRows
<1>5. /\ client' \in [Clients -> ClientRows]
      /\ \A c \in Clients :
           client'[c].conn => client'[c].at \in {"shows", "records", "reads", "closes"}
  BY <1>0, <1>3, <1>4
<1> HIDE DEF new
<1>6. /\ NodeTypeOK' /\ req'[r] = new
      /\ \A q \in Requests : q # r => req'[q] = req[q]
  <2>1. Writes(r, new)
    BY <1>0, <1>1, <1>2, <1>5 DEF Writes
  <2>2. /\ managed' \in Clients \cup {NoClient} /\ races' \subseteq {"overlap", "late report"}
        /\ client' \in [Clients -> ClientRows] /\ shown' \in Shown
    BY <1>0, <1>1, <1>2, <1>5
  <2>3. \A c \in Clients :
          client'[c].conn => client'[c].at \in {"shows", "records", "reads", "closes"}
    BY <1>0, <1>1, <1>2, <1>5
  <2> QED
    BY <1>0, <2>1, <2>2, <2>3, WritesType
<1>7. ManagedIsLive'
  <2>1. ManagedIsLive /\ OldOK(r)
    BY DEF NodeInv
  <2>2. managed # NoClient => managed # req[r].old
    BY <2>1 DEF OldOK
  <2> QED
    BY <1>0, <1>1, <1>4, <2>1, <2>2 DEF ManagedIsLive
<1>8. ASSUME NEW q \in Requests PROVE OldOK(q)'
  <2>1. CASE q = r
    BY <1>2, <1>6, <2>1 DEF OldOK
  <2>2. CASE q # r
    <3>1. req'[q] = req[q] /\ OldOK(q) /\ req[q] \in ReqRows
      BY <1>0, <1>6, <2>2 DEF NodeInv
    <3> QED
      BY <1>1, <1>4, <3>1 DEF OldOK, Started, ReqRows
  <2> QED
    BY <2>1, <2>2
<1>9. ASSUME ~Overlapped' PROVE OneAtATime'
  <2>1. OneAtATime
    BY <1>1, <1>9 DEF Overlapped, NodeInv
  <2>2. \A q \in Requests : q # r => req[q].at = "idle" /\ req[q].old = NoClient
    BY <1>1, <2>1 DEF OneAtATime, NodeInv, OldOK
  <2>3. Phase(r) /\ managed = NoClient
    BY <1>1, <2>1 DEF OneAtATime, Phase
  <2>4. ASSUME NEW c \in Clients, Live(c)' PROVE FALSE
    <3>1. Live(c) /\ c # req[r].old
      BY <1>4, <2>4 DEF Live
    <3>2. c = managed \/ \E q \in Requests : req[q].old = c
      BY <2>1, <3>1 DEF OneAtATime
    <3> QED
      BY <1>0, <2>2, <2>3, <3>1, <3>2
  <2>5. Phase(r)'
    BY <1>1, <1>2, <1>6, <2>3 DEF Phase
  <2>6. \A q \in Requests : q # r => Phase(q)'
    BY <1>6, <2>2 DEF Phase
  <2>7. req'[r].at = "idle" => MatchesRow'
    BY <1>1, <1>2, <1>6, <2>3 DEF Phase, MatchesRow
  <2> QED
    BY <1>6, <2>2, <2>4, <2>5, <2>6, <2>7 DEF OneAtATime
<1> QED
  BY <1>6, <1>7, <1>8, <1>9 DEF NodeInv

LEMMA InsertsInv ==
    ASSUME NodeInv, NEW r \in Requests, NEW c \in Clients, InsertClient(r, c)
    PROVE  NodeInv'
<1> DEFINE new == [Unstarted EXCEPT !.at = "dials", !.ver = req[r].ver, !.watched = TRUE]
<1>0. /\ NodeTypeOK /\ req \in [Requests -> ReqRows] /\ client \in [Clients -> ClientRows]
      /\ row \in NodeRows /\ saves \in Versions /\ 0 \in Versions
      /\ managed \in Clients \cup {NoClient} /\ races \subseteq {"overlap", "late report"}
      /\ NoClient \notin Clients
      /\ \A d \in Clients :
           client[d].conn => client[d].at \in {"shows", "records", "reads", "closes"}
  BY Typed
<1>1. /\ req' = [req EXCEPT ![r] = Idle] /\ req[r].at = "inserts" /\ req[r].enabled
      /\ managed' = c /\ shown' = [state |-> "CONNECTING", of |-> req[r].ver]
      /\ client' = [client EXCEPT ![c] = new] /\ client[c] = Unstarted
      /\ UNCHANGED <<row, saves, reachable, outages, races>>
  BY DEF InsertClient, tableVars, outageVars
<1>2. req[r].ver \in Versions
  BY <1>0 DEF ReqRows
<1>3. Idle \in ReqRows /\ Idle.at = "idle" /\ Idle.old = NoClient /\ shown' \in Shown
  BY <1>0, <1>1, <1>2 DEF Idle, ReqRows, Shown
<1>4. /\ new \in ClientRows /\ new.at = "dials" /\ new.ver = req[r].ver
      /\ ~new.ended /\ ~new.conn
  BY <1>0, <1>2 DEF ClientRows, Unstarted
<1>5. ~Started(c)
  BY <1>1 DEF Started, Unstarted
<1> HIDE DEF new
<1>6. /\ client' \in [Clients -> ClientRows] /\ client'[c] = new
      /\ \A d \in Clients : d # c => client'[d] = client[d]
  BY <1>0, <1>1, <1>4
<1>7. \A d \in Clients :
        client'[d].conn => client'[d].at \in {"shows", "records", "reads", "closes"}
  BY <1>0, <1>4, <1>6
<1>8. /\ NodeTypeOK' /\ req'[r] = Idle
      /\ \A q \in Requests : q # r => req'[q] = req[q]
  <2>1. Writes(r, Idle)
    BY <1>0, <1>1, <1>3 DEF Writes
  <2>2. managed' \in Clients \cup {NoClient} /\ races' \subseteq {"overlap", "late report"}
    BY <1>0, <1>1
  <2> QED
    BY <1>0, <1>3, <1>6, <1>7, <2>1, <2>2, WritesType
<1>9. ManagedIsLive'
  BY <1>1, <1>4, <1>6 DEF ManagedIsLive
<1>10. ASSUME NEW q \in Requests PROVE OldOK(q)'
  <2>1. CASE q = r
    BY <1>3, <1>8, <2>1 DEF OldOK
  <2>2. CASE q # r
    <3>1. req'[q] = req[q] /\ OldOK(q) /\ req[q] \in ReqRows
      BY <1>0, <1>8, <2>2 DEF NodeInv
    <3> QED
      BY <1>1, <1>5, <1>6, <3>1 DEF OldOK, Started, ReqRows
  <2> QED
    BY <2>1, <2>2
<1>11. ASSUME ~Overlapped' PROVE OneAtATime'
  <2>1. OneAtATime /\ req[r].old = NoClient
    BY <1>1, <1>11 DEF Overlapped, NodeInv, OldOK
  <2>2. \A q \in Requests : q # r => req[q].at = "idle" /\ req[q].old = NoClient
    BY <1>1, <2>1 DEF OneAtATime, NodeInv, OldOK
  <2>3. Phase(r) /\ managed = NoClient
    BY <1>1, <2>1 DEF OneAtATime, Phase
  <2>4. MatchesRow'
    BY <1>0, <1>1, <1>4, <1>6, <2>3 DEF Phase, MatchesRow
  <2>5. ASSUME NEW d \in Clients, Live(d)' PROVE d = c
    <3> SUFFICES ASSUME d # c PROVE FALSE
      OBVIOUS
    <3>1. Live(d)
      BY <1>6, <2>5 DEF Live
    <3>2. d = managed \/ \E q \in Requests : req[q].old = d
      BY <2>1, <3>1 DEF OneAtATime
    <3> QED
      BY <1>0, <2>1, <2>2, <2>3, <3>2
  <2>6. \A q \in Requests : Phase(q)'
    BY <1>3, <1>8, <2>2 DEF Phase
  <2> QED
    BY <1>1, <1>3, <1>8, <2>2, <2>4, <2>5, <2>6 DEF OneAtATime
<1> QED
  BY <1>8, <1>9, <1>10, <1>11 DEF NodeInv

LEMMA InsertsDisabledInv ==
    ASSUME NodeInv, NEW r \in Requests, InsertDisabled(r)
    PROVE  NodeInv'
<1>0. /\ NodeTypeOK /\ req \in [Requests -> ReqRows] /\ client \in [Clients -> ClientRows]
      /\ row \in NodeRows /\ saves \in Versions /\ 0 \in Versions
      /\ managed \in Clients \cup {NoClient} /\ races \subseteq {"overlap", "late report"}
      /\ \A c \in Clients :
           client[c].conn => client[c].at \in {"shows", "records", "reads", "closes"}
  BY Typed
<1>1. /\ req' = [req EXCEPT ![r] = Idle] /\ req[r].at = "inserts" /\ ~req[r].enabled
      /\ shown' = [state |-> "DISABLED", of |-> req[r].ver]
      /\ UNCHANGED <<row, saves, managed, client, reachable, outages, races>>
  BY DEF InsertDisabled, tableVars, outageVars
<1>2. req[r].ver \in Versions
  BY <1>0 DEF ReqRows
<1>3. Idle \in ReqRows /\ Idle.at = "idle" /\ Idle.old = NoClient /\ shown' \in Shown
  BY <1>0, <1>1, <1>2 DEF Idle, ReqRows, Shown
<1>4. /\ NodeTypeOK' /\ req'[r] = Idle
      /\ \A q \in Requests : q # r => req'[q] = req[q]
  <2>1. Writes(r, Idle)
    BY <1>0, <1>1, <1>3 DEF Writes
  <2>2. /\ managed' \in Clients \cup {NoClient} /\ races' \subseteq {"overlap", "late report"}
        /\ client' \in [Clients -> ClientRows] /\ shown' \in Shown
    BY <1>0, <1>1, <1>3
  <2>3. \A c \in Clients :
          client'[c].conn => client'[c].at \in {"shows", "records", "reads", "closes"}
    BY <1>0, <1>1, <1>3
  <2> QED
    BY <1>0, <2>1, <2>2, <2>3, WritesType
<1>5. ManagedIsLive'
  BY <1>1 DEF NodeInv, ManagedIsLive
<1>6. \A q \in Requests : OldOK(q)'
  BY <1>1, <1>3, <1>4 DEF NodeInv, OldOK, Started
<1>7. ASSUME ~Overlapped' PROVE OneAtATime'
  <2>1. OneAtATime /\ req[r].old = NoClient
    BY <1>1, <1>7 DEF Overlapped, NodeInv, OldOK
  <2>2. \A q \in Requests : q # r => req[q].at = "idle"
    BY <1>1, <2>1 DEF OneAtATime
  <2>3. MatchesRow'
    BY <1>1, <2>1 DEF OneAtATime, Phase, MatchesRow
  <2>4. \A c \in Clients : Live(c)' => c = managed' \/ \E q \in Requests : req'[q].old = c
    BY <1>1, <1>3, <1>4, <2>1, NodeConstants DEF OneAtATime, Live
  <2>5. \A q \in Requests : Phase(q)'
    BY <1>3, <1>4, <2>2 DEF Phase
  <2> QED
    BY <1>3, <1>4, <2>2, <2>3, <2>4, <2>5 DEF OneAtATime
<1> QED
  BY <1>4, <1>5, <1>6, <1>7 DEF NodeInv

\* An outage closes connections, which no part of the invariant speaks of.
LEMMA NetworkInv ==
    ASSUME NodeInv, Outage \/ OutageEnds
    PROVE  NodeInv'
<1>0. /\ NodeTypeOK /\ client \in [Clients -> ClientRows] /\ managed \in Clients \cup {NoClient}
      /\ \A c \in Clients :
           client[c].conn => client[c].at \in {"shows", "records", "reads", "closes"}
  BY Typed
<1>1. UNCHANGED <<row, saves, req, managed, shown, races>> /\ reachable' \in BOOLEAN
  BY DEF Outage, OutageEnds, tableVars, shownVars
<1>2. outages' \in 0 .. MaxOutages
  <2>1. outages \in 0 .. MaxOutages /\ MaxOutages \in Nat
    BY <1>0, NodeConstants DEF NodeTypeOK
  <2>2. outages' = outages \/ (outages < MaxOutages /\ outages' = outages + 1)
    BY DEF Outage, OutageEnds
  <2> QED
    BY <2>1, <2>2
<1>3. ASSUME NEW c \in Clients
      PROVE  /\ client'[c] \in ClientRows
             /\ client'[c].at = client[c].at /\ client'[c].ver = client[c].ver
             /\ client'[c].conn = client[c].conn /\ client'[c].ended = client[c].ended
  <2>1. client'[c] = client[c] \/ client'[c] = [client[c] EXCEPT !.sock = FALSE]
    BY DEF Outage, OutageEnds
  <2>2. client[c] \in ClientRows
    BY <1>0
  <2> QED
    BY <2>1, <2>2 DEF ClientRows
<1>4. client' = [c \in Clients |-> client'[c]]
  BY <1>0 DEF Outage, OutageEnds
<1>5. client' \in [Clients -> ClientRows]
  BY <1>3, <1>4
<1>6. NodeTypeOK'
  BY <1>0, <1>1, <1>2, <1>3, <1>5 DEF NodeTypeOK, ClientRows
<1>7. ManagedIsLive' /\ \A q \in Requests : OldOK(q)'
  <2>1. ManagedIsLive'
    BY <1>0, <1>1, <1>3 DEF NodeInv, ManagedIsLive
  <2>2. ASSUME NEW q \in Requests PROVE OldOK(q)'
    <3>1. OldOK(q) /\ req[q].old \in Clients \cup {NoClient}
      BY <1>0 DEF NodeInv, NodeTypeOK
    <3> QED
      BY <1>1, <1>3, <3>1 DEF OldOK, Started
  <2> QED
    BY <2>1, <2>2
<1>8. ASSUME ~Overlapped' PROVE OneAtATime'
  <2>1. OneAtATime
    BY <1>1, <1>8 DEF Overlapped, NodeInv
  <2>2. MatchesRow' <=> MatchesRow
    BY <1>0, <1>1, <1>3 DEF MatchesRow
  <2>3. \A q \in Requests : Phase(q)' <=> Phase(q)
    BY <1>1, <2>2 DEF Phase
  <2>4. \A c \in Clients : Live(c)' <=> Live(c)
    BY <1>3 DEF Live
  <2> QED
    BY <1>1, <2>1, <2>2, <2>3, <2>4 DEF OneAtATime
<1> QED
  BY <1>6, <1>7, <1>8 DEF NodeInv

-----------------------------------------------------------------------------
\* The row a panel finds, if any, is the one main is about to connect.
FirstRow ==
    /\ row \in NodeRows /\ saves \in Versions /\ req \in [Requests -> ReqRows]
    /\ \A r \in Requests : req[r].old = NoClient
    /\ \A r \in Requests : r # Main => req[r].at = "idle"
    /\ req[Main].at = "idle" => ~row.exists
    /\ req[Main].at # "idle" => /\ req[Main].at = "saved" /\ row.exists
                                /\ row.ver = req[Main].ver
                                /\ row.enabled <=> req[Main].enabled

LEMMA NodeInitInv == ASSUME NodeInit PROVE NodeInv
<1>0. /\ 0 \in Versions /\ 1 \in Versions /\ NoClient \notin Clients /\ 0 \in 0 .. MaxOutages
      /\ Main \in Requests
  BY NodeConstants DEF Versions
<1>1. /\ managed = NoClient /\ client = [c \in Clients |-> Unstarted]
      /\ shown = NoStatus /\ reachable /\ outages = 0 /\ races = {}
  BY DEF NodeInit
<1>2. Unstarted \in ClientRows /\ Unstarted.at = "free" /\ ~Unstarted.ended /\ ~Unstarted.conn
  BY <1>0 DEF Unstarted, ClientRows
<1>3. Idle \in ReqRows /\ Idle.at = "idle" /\ Idle.old = NoClient /\ NoStatus \in Shown
  BY <1>0 DEF Idle, ReqRows, NoStatus, Shown
<1>4. FirstRow
  <2>1. CASE row = NoNode /\ saves = 0 /\ req = [r \in Requests |-> Idle]
    BY <1>0, <1>3, <2>1 DEF NoNode, NodeRows, FirstRow
  <2>2. ASSUME NEW on \in BOOLEAN, NEW known \in {0, 1},
               row = [exists |-> TRUE, ver |-> 1, enabled |-> on, known |-> known], saves = 1,
               req = [r \in Requests |->
                        IF r = Main THEN [Idle EXCEPT !.at = "saved", !.ver = 1, !.enabled = on]
                                    ELSE Idle]
        PROVE  FirstRow
    <3> DEFINE new == [Idle EXCEPT !.at = "saved", !.ver = 1, !.enabled = on]
    <3>1. /\ new \in ReqRows /\ new.at = "saved" /\ new.ver = 1 /\ new.enabled = on
          /\ new.old = NoClient
      BY <1>0, <1>3 DEF Idle, ReqRows
    <3>2. row \in NodeRows /\ row.exists /\ row.ver = 1 /\ row.enabled = on
      BY <1>0, <2>2 DEF NodeRows
    <3>3. req = [r \in Requests |-> IF r = Main THEN new ELSE Idle]
      BY <2>2
    <3> HIDE DEF new
    <3> QED
      BY <1>0, <1>3, <2>2, <3>1, <3>2, <3>3 DEF FirstRow
  <2> QED
    BY <2>1, <2>2 DEF NodeInit
<1>5. NodeTypeOK
  BY <1>0, <1>1, <1>2, <1>3, <1>4 DEF NodeTypeOK, ClientRows, ReqRows, NodeRows, Shown, FirstRow
<1>6. ManagedIsLive /\ \A r \in Requests : OldOK(r)
  BY <1>1, <1>4 DEF ManagedIsLive, OldOK, FirstRow
<1>7. OneAtATime
  <2>1. \A r \in Requests : Phase(r)
    BY <1>4 DEF Phase, FirstRow
  <2>2. \A c \in Clients : ~Live(c)
    BY <1>1, <1>2 DEF Live
  <2>3. req[Main].at = "idle" => MatchesRow
    BY <1>1, <1>4 DEF MatchesRow, FirstRow
  <2> QED
    BY <1>0, <1>4, <2>1, <2>2, <2>3 DEF OneAtATime, FirstRow
<1> QED
  BY <1>5, <1>6, <1>7 DEF NodeInv

LEMMA NodeStepInv == ASSUME NodeInv, [NodeNext]_nodeVars PROVE NodeInv'
<1>1. CASE NodeNext
  BY <1>1, BeginningsInv, SavesInv, FailsInv, RemovesInv, CancelsInv, InsertsInv,
     InsertsDisabledInv, ClientInv, NetworkInv DEF NodeNext, RequestStep
<1>2. CASE UNCHANGED nodeVars
  <2>1. UNCHANGED <<row, saves, req, managed, shown, client, reachable, outages, races>>
    BY <1>2 DEF nodeVars, tableVars, shownVars, outageVars
  <2>2. NodeTypeOK' /\ ManagedIsLive'
    BY <2>1 DEF NodeInv, NodeTypeOK, ManagedIsLive
  <2>3. \A r \in Requests : OldOK(r)'
    BY <2>1 DEF NodeInv, OldOK, Started
  <2>4. OneAtATime' <=> OneAtATime
    BY <2>1 DEF OneAtATime, Phase, MatchesRow, Live
  <2> QED
    BY <2>1, <2>2, <2>3, <2>4 DEF NodeInv, Overlapped
<1> QED
  BY <1>1, <1>2

LEMMA NodeSafe == ASSUME NodeInv PROVE ClientsAreRows
<1>1. NodeTypeOK /\ ManagedIsLive
  BY DEF NodeInv
<1>2. OneLiveClient
  BY DEF NodeInv, OneLiveClient, OneAtATime, Live
<1>3. ConnectionIsRow
  BY DEF NodeInv, ConnectionIsRow, OneAtATime, MatchesRow
<1> QED
  BY <1>1, <1>2, <1>3 DEF ClientsAreRows

\* A client in the map works, at most one client of a node goes on, and between
\* requests that did not overlap it is the one the row asks for (Upsert,
\* Remove, Create, Update, Delete).
THEOREM NodeClientsAreRows == NodeSpec => []ClientsAreRows
<1>1. NodeInv /\ [NodeNext]_nodeVars => NodeInv'
  BY NodeStepInv
<1> QED
  BY <1>1, NodeInitInv, NodeSafe, PTL DEF NodeSpec

-----------------------------------------------------------------------------
(***************************************************************************)
(* ControlLink: for any number of calls, clients and connections, a request*)
(* in the map is one its caller still waits for, and what a caller sees is *)
(* what RemoteCall promises.                                               *)
(***************************************************************************)

\* Which connection Client.Run works with, and when the client has one.
RunnerOK ==
    /\ runner \in {"asks", "reads", "closes"} => local \in Socks
    /\ runner \in {"dials", "asks", "drains", "leaves", "ended"} => conn = NoSock
    /\ runner \in {"reads", "closes"} => conn \in {local, NoSock}

\* The hub holds a client from its acceptance until its handler returns.
HubOK == \A s \in hub : server[s] \in {"added", "greeted", "serves"}

\* A waiter is in the map until it has its one result, and uses the client's connection
\* unless somebody is about to drain the map.
WaiterOK(k) ==
    /\ call[k] = "idle" => k \notin pending /\ box[k] = <<>>
    /\ k \in pending => box[k] = <<>>
    /\ Len(box[k]) <= 1
    /\ call[k] \in {"registered", "chosen", "waits"} /\ box[k] = <<>> => k \in pending
    /\ call[k] \in {"chosen", "waits"} => via[k] \in Socks
    /\ call[k] \in {"chosen", "waits"} /\ box[k] = <<>> => Draining \/ conn = via[k]

Travels(k, s) == k \in up[s] \cup work[s] \/ k \in ToSet(queue[s]) \cup ToSet(wire[s])

\* Its request or its answer is somewhere on its connection, or the end of that shows.
OnItsWay(k) ==
    call[k] = "waits" /\ box[k] = <<>> => Draining \/ Closing(via[k]) \/ Travels(k, via[k])

\* A request is in one place of one connection until it is executed; answers are about
\* executed requests.
OneEffect(k) ==
    /\ effect[k] \in {0, 1}
    /\ call[k] \in {"idle", "registered", "chosen"} => effect[k] = 0
    /\ \A s \in Socks :
         /\ k \in up[s] \cup work[s] =>
              via[k] = s /\ call[k] \in {"waits", "answered", "failed"} /\ effect[k] = 0
         /\ k \notin up[s] \cap work[s]
         /\ k \in ToSet(queue[s]) \cup ToSet(wire[s]) => effect[k] = 1
    /\ \A i \in DOMAIN box[k] : box[k][i] = "answer" => effect[k] = 1

CallInv(k) == WaiterOK(k) /\ OnItsWay(k) /\ OneEffect(k)

LinkInv ==
    /\ LinkTypeOK
    /\ RunnerOK
    /\ HubOK
    /\ \A k \in Calls : CallInv(k)

-----------------------------------------------------------------------------
(* Sequences.                                                              *)

LEMMA SeqEmpty == ASSUME NEW S PROVE <<>> \in Seq(S) /\ ToSet(<<>>) = {} /\ Len(<<>>) = 0
BY DEF ToSet

LEMMA SeqAppend ==
    ASSUME NEW S, NEW q \in Seq(S), NEW m \in S
    PROVE  /\ Append(q, m) \in Seq(S)
           /\ Len(Append(q, m)) = Len(q) + 1
           /\ ToSet(Append(q, m)) = ToSet(q) \cup {m}
<1>1. /\ Append(q, m) \in Seq(S) /\ Len(Append(q, m)) = Len(q) + 1
      /\ DOMAIN Append(q, m) = 1 .. Len(q) + 1 /\ DOMAIN q = 1 .. Len(q) /\ Len(q) \in Nat
      /\ \A i \in 1 .. Len(q) : Append(q, m)[i] = q[i]
      /\ Append(q, m)[Len(q) + 1] = m
  OBVIOUS
<1> QED
  BY <1>1 DEF ToSet

LEMMA SeqTail ==
    ASSUME NEW S, NEW q \in Seq(S), q # <<>>
    PROVE  /\ Head(q) \in S
           /\ Tail(q) \in Seq(S)
           /\ Len(Tail(q)) = Len(q) - 1
           /\ ToSet(q) = {Head(q)} \cup ToSet(Tail(q))
<1>1. /\ Head(q) = q[1] /\ Tail(q) \in Seq(S) /\ Len(Tail(q)) = Len(q) - 1
      /\ DOMAIN Tail(q) = 1 .. Len(q) - 1 /\ DOMAIN q = 1 .. Len(q) /\ Len(q) \in Nat \ {0}
      /\ \A i \in 1 .. Len(q) - 1 : Tail(q)[i] = q[i + 1]
  OBVIOUS
<1>2. ToSet(q) \subseteq {Head(q)} \cup ToSet(Tail(q))
  <2> SUFFICES ASSUME NEW i \in DOMAIN q PROVE q[i] \in {Head(q)} \cup ToSet(Tail(q))
    BY DEF ToSet
  <2>1. CASE i = 1
    BY <1>1, <2>1
  <2>2. CASE i # 1
    <3>1. i - 1 \in DOMAIN Tail(q) /\ Tail(q)[i - 1] = q[i]
      BY <1>1, <2>2
    <3> QED
      BY <3>1 DEF ToSet
  <2> QED
    BY <2>1, <2>2
<1>3. {Head(q)} \cup ToSet(Tail(q)) \subseteq ToSet(q)
  BY <1>1 DEF ToSet
<1> QED
  BY <1>1, <1>2, <1>3

LEMMA SeqOne ==
    ASSUME NEW S, NEW q \in Seq(S), q # <<>>, Len(q) <= 1
    PROVE  Tail(q) = <<>> /\ Len(q) = 1 /\ q[1] = Head(q) /\ DOMAIN q = {1}
<1>1. Len(q) \in Nat /\ Len(q) # 0 /\ DOMAIN q = 1 .. Len(q)
  OBVIOUS
<1>2. Len(q) = 1 /\ Tail(q) \in Seq(S) /\ Len(Tail(q)) = 0
  BY <1>1, SeqTail
<1>3. ASSUME NEW r \in Seq(S), Len(r) = 0 PROVE r = <<>>
  BY <1>3
<1>4. Tail(q) = <<>>
  BY <1>2, <1>3, Zenon
<1> QED
  BY <1>1, <1>2, <1>4

LEMMA InitLink == LinkInit => LinkInv
<1> SUFFICES ASSUME LinkInit PROVE LinkInv
  OBVIOUS
<1>1. LinkTypeOK
  <2>1. /\ box \in [Calls -> Seq({"answer", "error"})]
        /\ wire \in [Socks -> Seq(Messages)] /\ queue \in [Socks -> Seq(Messages)]
    BY SeqEmpty DEF LinkInit
  <2>2. \A s \in Socks : Len(wire[s]) <= WireLimit /\ Len(queue[s]) <= QueueLimit
    BY LinkConstants, SeqEmpty DEF LinkInit
  <2> QED
    BY <2>1, <2>2 DEF LinkInit, LinkTypeOK
<1>2. RunnerOK /\ HubOK
  BY DEF LinkInit, RunnerOK, HubOK
<1>3. ASSUME NEW k \in Calls PROVE CallInv(k)
  BY <1>3, SeqEmpty DEF LinkInit, CallInv, WaiterOK, OnItsWay, OneEffect
<1> QED
  BY <1>1, <1>2, <1>3 DEF LinkInv

-----------------------------------------------------------------------------
(* The steps of a call.                                                    *)

LEMMA CallStepInv ==
    ASSUME LinkInv, NEW k \in Calls, Register(k) \/ CallStep(k) \/ Expire(k)
    PROVE  LinkInv'
<1> USE DEF LinkInv
<1>0. /\ call \in [Calls -> {"idle", "registered", "chosen", "waits", "answered", "failed"}]
      /\ via \in [Calls -> Socks \cup {NoSock}] /\ box \in [Calls -> Seq({"answer", "error"})]
      /\ pending \subseteq Calls /\ up \in [Socks -> SUBSET Calls]
      /\ conn \in Socks \cup {NoSock} /\ NoSock \notin Socks
      /\ CallInv(k)
  BY LinkConstants DEF LinkTypeOK
<1>1. UNCHANGED <<clientVars, shut, broken, wire, daemonVars>>
  BY DEF Register, CallStep, ChooseConn, Write, WriteFails, Return, Expire, netVars
<1>2. \A j \in Calls \ {k} : UNCHANGED <<call[j], via[j], box[j]>> /\ (j \in pending' <=> j \in pending)
  BY <1>0 DEF Register, CallStep, ChooseConn, Write, WriteFails, Return, Expire, Ends
<1>3. \A s \in Socks : up[s] \subseteq up'[s] /\ up'[s] \subseteq up[s] \cup {k}
  BY <1>0 DEF Register, CallStep, ChooseConn, Write, WriteFails, Return, Expire, netVars
<1>4. LinkTypeOK'
  <2>1. UNCHANGED <<clientVars, shut, broken, wire, daemonVars>> /\ LinkTypeOK
    BY <1>1
  <2>2. /\ call' \in [Calls -> {"idle", "registered", "chosen", "waits", "answered", "failed"}]
        /\ via' \in [Calls -> Socks \cup {NoSock}] /\ pending' \subseteq Calls
    BY <1>0 DEF Register, CallStep, ChooseConn, Write, WriteFails, Return, Expire, Ends, netVars
  <2>4. up' \in [Socks -> SUBSET Calls]
    BY <1>0 DEF Register, CallStep, ChooseConn, Write, WriteFails, Return, Expire, Ends, netVars
  <2>3. box' \in [Calls -> Seq({"answer", "error"})]
    <3>1. CASE Return(k)
      <4>1. box[k] \in Seq({"answer", "error"}) /\ box[k] # <<>>
        BY <1>0, <3>1 DEF Return
      <4>2. Tail(box[k]) \in Seq({"answer", "error"})
        BY <4>1, SeqTail
      <4> QED
        BY <1>0, <3>1, <4>2 DEF Return
    <3>2. CASE UNCHANGED box
      BY <1>0, <3>2
    <3> QED
      BY <3>1, <3>2 DEF Register, CallStep, ChooseConn, Write, WriteFails, Expire
  <2> QED
    BY <2>1, <2>2, <2>3, <2>4 DEF LinkTypeOK, clientVars, daemonVars
<1>5. RunnerOK' /\ HubOK'
  BY <1>1 DEF RunnerOK, HubOK, clientVars, daemonVars
<1>6. ASSUME NEW j \in Calls, j # k PROVE CallInv(j)'
  <2>1. CallInv(j) /\ UNCHANGED <<call[j], via[j], box[j]>> /\ (j \in pending' <=> j \in pending)
    BY <1>2, <1>6
  <2>2. \A s \in Socks : j \in up'[s] <=> j \in up[s]
    BY <1>3, <1>6
  <2> QED
    BY <1>1, <2>1, <2>2 DEF CallInv, WaiterOK, OnItsWay, OneEffect, Travels, Closing, Draining,
                            clientVars, daemonVars
<1>7. CallInv(k)'
  <2>1. CASE Register(k) \/ ChooseConn(k) \/ WriteFails(k) \/ Expire(k)
    <3>1. UNCHANGED <<up, box>>
      BY <2>1 DEF Register, ChooseConn, WriteFails, Expire, netVars
    <3> QED
      BY <1>0, <1>1, <2>1, <3>1 DEF Register, ChooseConn, WriteFails, Expire, Ends, CallInv, WaiterOK,
         OnItsWay, OneEffect, Travels, Closing, Draining, clientVars, daemonVars
  <2>2. CASE Write(k)
    BY <1>0, <1>1, <2>2 DEF Write, Ends, CallInv, WaiterOK,
         OnItsWay, OneEffect, Travels, Closing, Draining, clientVars, daemonVars
  <2>3. CASE Return(k)
    <3>1. UNCHANGED <<up, via, pending>> /\ call'[k] \in {"answered", "failed"} /\ call[k] = "waits"
      BY <1>0, <2>3 DEF Return, Ends, netVars
    <3>2. box'[k] = <<>>
      <4>1. /\ box'[k] = Tail(box[k]) /\ box[k] \in Seq({"answer", "error"})
            /\ box[k] # <<>> /\ Len(box[k]) <= 1
        BY <1>0, <2>3 DEF Return, CallInv, WaiterOK
      <4> QED
        BY <4>1, SeqOne
    <3> QED
      BY <1>0, <1>1, <3>1, <3>2 DEF CallInv, WaiterOK,
         OnItsWay, OneEffect, Travels, Closing, Draining, clientVars, daemonVars
  <2> QED
    BY <2>1, <2>2, <2>3 DEF CallStep
<1> QED
  BY <1>4, <1>5, <1>6, <1>7

-----------------------------------------------------------------------------
(* The steps of the daemon and of the network.                             *)

\* What is on its way stays on its way or its connection shows that it is over.
Forwards ==
    \A s \in Socks :
        /\ Closing(s) => Closing(s)'
        /\ \A k \in Calls : Travels(k, s) => Travels(k, s)' \/ Closing(s)'

\* No request and no answer comes in anew.
NothingNew ==
    /\ UNCHANGED effect
    /\ \A s \in Socks :
         /\ up'[s] \subseteq up[s] /\ work'[s] \subseteq work[s]
         /\ \A k \in Calls : k \in ToSet(queue'[s]) \cup ToSet(wire'[s]) =>
                k \in ToSet(queue[s]) \cup ToSet(wire[s])

LEMMA QuietCalls ==
    ASSUME LinkInv, UNCHANGED callVars, UNCHANGED clientVars, Forwards, NothingNew
    PROVE  \A k \in Calls : CallInv(k)'
<1> SUFFICES ASSUME NEW k \in Calls PROVE CallInv(k)'
  OBVIOUS
<1>1. CallInv(k) /\ UNCHANGED callVars /\ UNCHANGED clientVars
  BY DEF LinkInv
<1>2. WaiterOK(k)'
  BY <1>1 DEF CallInv, WaiterOK, Draining, callVars, clientVars
<1>3. OnItsWay(k)'
  BY <1>1 DEF CallInv, OnItsWay, WaiterOK, Draining, Forwards, callVars, clientVars
<1>4. OneEffect(k)'
  BY <1>1 DEF CallInv, OneEffect, NothingNew, callVars
<1> QED
  BY <1>2, <1>3, <1>4 DEF CallInv

LEMMA LinkTypes ==
    ASSUME LinkInv
    PROVE  /\ up \in [Socks -> SUBSET Calls] /\ work \in [Socks -> SUBSET Calls]
           /\ wire \in [Socks -> Seq(Messages)] /\ queue \in [Socks -> Seq(Messages)]
           /\ \A s \in Socks : Len(wire[s]) <= WireLimit /\ Len(queue[s]) <= QueueLimit
           /\ shut \subseteq Socks /\ broken \subseteq Socks /\ done \subseteq Socks
           /\ hub \subseteq Socks /\ effect \in [Calls -> Nat]
           /\ server \in [Socks -> {"left", "upgraded", "added", "greeted", "serves"}]
           /\ {"auth", "event"} \cap Calls = {} /\ "auth" \in Messages /\ "event" \in Messages
           /\ Calls \subseteq Messages
           /\ QueueLimit \in Nat \ {0} /\ WireLimit \in Nat \ {0}
BY LinkConstants DEF LinkInv, LinkTypeOK, Messages

\* A connection the daemon closes shows that it is over, its queue is empty.
LEMMA CloseDoes ==
    ASSUME LinkInv, NEW s \in Socks, Close(s), UNCHANGED shut
    PROVE  /\ queue' \in [Socks -> Seq(Messages)] /\ \A r \in Socks : Len(queue'[r]) <= QueueLimit
           /\ broken' \subseteq Socks /\ done' \subseteq Socks /\ s \in done'
           /\ \A r \in Socks : ToSet(queue'[r]) \subseteq ToSet(queue[r])
           /\ \A r \in Socks : Closing(r) => Closing(r)'
           /\ \A r \in Socks : r # s => queue'[r] = queue[r]
BY LinkTypes, SeqEmpty DEF Close, Closing

\* A message is queued, unless the connection is over or full, which closes it.
LEMMA EnqueueDoes ==
    ASSUME LinkInv, NEW s \in Socks, NEW m \in Messages, Enqueue(s, m), UNCHANGED shut
    PROVE  /\ queue' \in [Socks -> Seq(Messages)] /\ \A r \in Socks : Len(queue'[r]) <= QueueLimit
           /\ broken' \subseteq Socks /\ done' \subseteq Socks
           /\ \A r \in Socks : ToSet(queue'[r]) \subseteq ToSet(queue[r]) \cup (IF r = s THEN {m} ELSE {})
           /\ \A r \in Socks : Closing(r) => Closing(r)'
           /\ \A r \in Socks : r # s => queue'[r] = queue[r]
           /\ Closing(s)' \/ ToSet(queue'[s]) = ToSet(queue[s]) \cup {m}
           /\ \A r \in Socks : Closing(r)' \/ ToSet(queue[r]) \subseteq ToSet(queue'[r])
<1>1. CASE s \in done \/ Len(queue[s]) = QueueLimit
  <2>1. Close(s)
    BY <1>1 DEF Enqueue
  <2> QED
    BY <2>1, CloseDoes DEF Closing
<1>2. CASE ~(s \in done \/ Len(queue[s]) = QueueLimit) /\ s \in shut
  <2>1. UNCHANGED <<queue, done, broken>>
    BY <1>2, LinkTypes DEF Enqueue
  <2> QED
    BY <1>2, <2>1, LinkTypes DEF Closing
<1>3. CASE ~(s \in done \/ Len(queue[s]) = QueueLimit) /\ s \notin shut
  <2>1. /\ queue' = [queue EXCEPT ![s] = Append(@, m)] /\ UNCHANGED <<done, broken>>
        /\ queue[s] \in Seq(Messages) /\ Len(queue[s]) < QueueLimit
    <3>1. queue' = [queue EXCEPT ![s] = Append(@, m)] /\ UNCHANGED <<done, broken>>
      BY <1>3 DEF Enqueue
    <3>2. Len(queue[s]) <= QueueLimit /\ Len(queue[s]) # QueueLimit /\ queue[s] \in Seq(Messages)
      BY <1>3, LinkTypes
    <3> QED
      BY <3>1, <3>2, LinkTypes
  <2>2. /\ Append(queue[s], m) \in Seq(Messages)
        /\ Len(Append(queue[s], m)) <= QueueLimit
        /\ ToSet(Append(queue[s], m)) = ToSet(queue[s]) \cup {m}
    BY <2>1, SeqAppend, LinkTypes
  <2>3. queue'[s] = Append(queue[s], m) /\ \A r \in Socks : r # s => queue'[r] = queue[r]
    BY <2>1, LinkTypes
  <2>4. queue' \in [Socks -> Seq(Messages)]
    BY <2>1, <2>2, LinkTypes
  <2> QED
    BY <2>1, <2>2, <2>3, <2>4, LinkTypes DEF Closing
<1> QED
  BY <1>1, <1>2, <1>3

\* What the steps of the daemon have in common.
LEMMA DaemonKeeps ==
    ASSUME LinkInv, UNCHANGED callVars, UNCHANGED clientVars, UNCHANGED shut,
           /\ up' \in [Socks -> SUBSET Calls] /\ work' \in [Socks -> SUBSET Calls]
           /\ wire' \in [Socks -> Seq(Messages)] /\ queue' \in [Socks -> Seq(Messages)],
           \A s \in Socks : Len(wire'[s]) <= WireLimit /\ Len(queue'[s]) <= QueueLimit,
           broken' \subseteq Socks /\ done' \subseteq Socks /\ hub' \subseteq Socks,
           server' \in [Socks -> {"left", "upgraded", "added", "greeted", "serves"}],
           effect' \in [Calls -> Nat], HubOK', \A k \in Calls : CallInv(k)'
    PROVE  LinkInv'
<1>1. LinkTypeOK'
  BY DEF LinkInv, LinkTypeOK, callVars, clientVars
<1>2. RunnerOK'
  BY DEF LinkInv, RunnerOK, clientVars
<1> QED
  BY <1>1, <1>2 DEF LinkInv

LEMMA HandlerStepInv ==
    ASSUME LinkInv, NEW s \in Socks, HandlerStep(s)
    PROVE  LinkInv'
<1> USE LinkTypes
<1>0. HubOK
  BY DEF LinkInv
<1>1. CASE Accept(s)
  <2>1. Forwards /\ NothingNew
    BY <1>1 DEF Accept, Forwards, NothingNew, Travels, Closing, netVars
  <2>2. HubOK'
    BY <1>0, <1>1, SMTT(30) DEF Accept, Moves, HubOK
  <2> QED
    BY <1>1, <2>1, <2>2, QuietCalls, DaemonKeeps, SMTT(30) DEF Accept, Moves, netVars
<1>2. CASE Reject(s)
  <2>1. UNCHANGED shut /\ Close(s)
    BY <1>2 DEF Reject
  <2>2. Forwards /\ NothingNew
    BY <1>2, <2>1, CloseDoes DEF Reject, Forwards, NothingNew, Travels, Closing
  <2>3. HubOK'
    BY <1>0, <1>2, SMTT(30) DEF Reject, Moves, HubOK
  <2>4. server' \in [Socks -> {"left", "upgraded", "added", "greeted", "serves"}]
    BY <1>2, SMTT(30) DEF Reject, Moves
  <2> QED
    BY <1>2, <2>1, <2>2, <2>3, <2>4, CloseDoes, QuietCalls, DaemonKeeps DEF Reject
<1>3. CASE Greet(s) \/ Snapshot(s)
  <2>1. PICK m \in {"auth", "event"} : Enqueue(s, m)
    BY <1>3 DEF Greet, Snapshot
  <2>2. UNCHANGED <<callVars, clientVars, shut, up, wire, hub, work, effect>>
    BY <1>3 DEF Greet, Snapshot
  <2>3. m \in Messages /\ m \notin Calls
    OBVIOUS
  <2>4. Forwards /\ NothingNew
    <3>1. UNCHANGED shut
      BY <2>2
    <3>2. /\ \A r \in Socks : Closing(r) => Closing(r)'
          /\ \A r \in Socks : ToSet(queue[r]) \subseteq ToSet(queue'[r]) \/ Closing(r)'
          /\ \A r \in Socks : ToSet(queue'[r]) \subseteq ToSet(queue[r]) \cup {m}
      BY <2>1, <2>3, <3>1, EnqueueDoes
    <3> QED
      BY <2>2, <2>3, <3>2 DEF Forwards, NothingNew, Travels
  <2>5. /\ HubOK' /\ server' \in [Socks -> {"left", "upgraded", "added", "greeted", "serves"}]
    <3>1. PICK to \in {"greeted", "serves"} : Moves(s, to)
      BY <1>3 DEF Greet, Snapshot
    <3>2. server[s] \in {"added", "greeted"} /\ hub' = hub
      BY <1>3 DEF Greet, Snapshot
    <3> QED
      BY <1>0, <3>1, <3>2 DEF Moves, HubOK
  <2> QED
    BY <2>1, <2>2, <2>3, <2>4, <2>5, EnqueueDoes, QuietCalls, DaemonKeeps
<1>4. ASSUME NEW k \in Calls, Receive(s, k) PROVE LinkInv'
  <2>1. /\ UNCHANGED <<callVars, clientVars, shut, broken, wire, server, done, hub, queue, effect>>
        /\ k \in up[s] /\ up' = [up EXCEPT ![s] = @ \ {k}] /\ work' = [work EXCEPT ![s] = @ \cup {k}]
    BY <1>4 DEF Receive
  <2>2. ASSUME NEW j \in Calls PROVE CallInv(j)'
    <3>1. CallInv(j) /\ WaiterOK(j)'
      BY <2>1 DEF LinkInv, CallInv, WaiterOK, Draining, callVars, clientVars
    <3>2. OnItsWay(j)'
      BY <2>1, <3>1 DEF CallInv, OnItsWay, WaiterOK, Draining, Travels, Closing, callVars, clientVars
    <3>3. OneEffect(j)'
      BY <2>1, <3>1 DEF CallInv, OneEffect, callVars
    <3> QED
      BY <3>1, <3>2, <3>3 DEF CallInv
  <2>3. HubOK' /\ up' \in [Socks -> SUBSET Calls] /\ work' \in [Socks -> SUBSET Calls]
    BY <1>0, <2>1 DEF HubOK
  <2> QED
    BY <2>1, <2>2, <2>3, DaemonKeeps
<1>5. CASE Leave(s)
  <2>1. UNCHANGED shut /\ Close(s) /\ UNCHANGED <<callVars, clientVars, wire, work, effect>>
    BY <1>5 DEF Leave
  <2>2. up' = [up EXCEPT ![s] = {}] /\ up' \in [Socks -> SUBSET Calls]
    BY <1>5 DEF Leave
  <2>3. Forwards /\ NothingNew
    BY <2>1, <2>2, CloseDoes DEF Forwards, NothingNew, Travels, Closing
  <2>4. /\ HubOK' /\ server' \in [Socks -> {"left", "upgraded", "added", "greeted", "serves"}]
        /\ hub' \subseteq Socks
    BY <1>0, <1>5, SMTT(30) DEF Leave, Moves, HubOK
  <2> QED
    BY <2>1, <2>2, <2>3, <2>4, CloseDoes, QuietCalls, DaemonKeeps
<1> QED
  BY <1>1, <1>2, <1>3, <1>4, <1>5 DEF HandlerStep

LEMMA ExecuteInv ==
    ASSUME LinkInv, NEW s \in Socks, NEW k \in Calls, Execute(s, k)
    PROVE  LinkInv'
<1>0. LinkInv /\ Calls \subseteq Messages /\ UNCHANGED shut
  BY LinkTypes DEF Execute
<1>1. /\ UNCHANGED <<callVars, clientVars, shut, up, wire, server, hub>>
      /\ k \in work[s] /\ work' = [work EXCEPT ![s] = @ \ {k}]
      /\ effect' = [effect EXCEPT ![k] = @ + 1] /\ Enqueue(s, k)
  BY DEF Execute
<1>2. /\ \A r \in Socks : ToSet(queue[r]) \subseteq ToSet(queue'[r]) \/ Closing(r)'
      /\ \A r \in Socks : Closing(r) => Closing(r)'
      /\ \A r \in Socks : r # s => queue'[r] = queue[r]
      /\ ToSet(queue'[s]) \subseteq ToSet(queue[s]) \cup {k}
      /\ k \in ToSet(queue'[s]) \/ Closing(s)'
  <2>1. k \in Messages /\ Enqueue(s, k)
    BY <1>0, <1>1
  <2>2. /\ \A r \in Socks : ToSet(queue'[r]) \subseteq ToSet(queue[r]) \cup (IF r = s THEN {k} ELSE {})
        /\ \A r \in Socks : Closing(r) => Closing(r)'
        /\ \A r \in Socks : r # s => queue'[r] = queue[r]
        /\ Closing(s)' \/ ToSet(queue'[s]) = ToSet(queue[s]) \cup {k}
        /\ \A r \in Socks : Closing(r)' \/ ToSet(queue[r]) \subseteq ToSet(queue'[r])
    BY <1>0, <2>1, EnqueueDoes
  <2> QED
    BY <2>2
<1>3. ASSUME NEW j \in Calls PROVE CallInv(j)'
  <2>1. CallInv(j) /\ CallInv(k)
    BY DEF LinkInv
  <2>2. WaiterOK(j)'
    BY <1>1, <2>1 DEF CallInv, WaiterOK, Draining, callVars, clientVars
  <2>3. OnItsWay(j)'
    <3>1. \A r \in Socks : Travels(j, r) => Travels(j, r)' \/ Closing(r)'
      BY <1>1, <1>2, LinkTypes DEF Travels
    <3> QED
      BY <1>1, <1>2, <2>1, <3>1 DEF CallInv, OnItsWay, WaiterOK, Draining, callVars, clientVars
  <2>4. OneEffect(j)'
    <3>1. effect[k] = 0 /\ call[k] \in {"waits", "answered", "failed"}
          /\ \A r \in Socks : k \in up[r] \cup work[r] => r = s
      BY <1>1, <2>1, LinkTypes DEF CallInv, OneEffect
    <3>2. CASE j = k
      <4>1. effect'[k] = 1 /\ \A r \in Socks : k \notin up'[r] \cup work'[r]
        BY <1>1, <2>1, <3>1, LinkTypes DEF CallInv, OneEffect
      <4> QED
        BY <1>1, <1>2, <2>1, <3>1, <3>2, <4>1, LinkTypes DEF CallInv, OneEffect, callVars
    <3>3. CASE j # k
      BY <1>1, <1>2, <2>1, <3>3, LinkTypes DEF CallInv, OneEffect, callVars
    <3> QED
      BY <3>2, <3>3
  <2> QED
    BY <2>2, <2>3, <2>4 DEF CallInv
<1>4. HubOK' /\ work' \in [Socks -> SUBSET Calls] /\ effect' \in [Calls -> Nat]
  BY <1>0, <1>1, LinkTypes DEF LinkInv, HubOK
<1> QED
  BY <1>0, <1>1, <1>3, <1>4, LinkTypes, EnqueueDoes, DaemonKeeps

LEMMA WriterStepInv ==
    ASSUME LinkInv, NEW s \in Socks, WriterStep(s) \/ Broadcast(s)
    PROVE  LinkInv'
<1>0. LinkInv /\ HubOK
  BY DEF LinkInv
<1>1. CASE Send(s)
  <2>1. /\ UNCHANGED <<callVars, clientVars, shut, broken, up, server, done, hub, work, effect>>
        /\ queue[s] # <<>> /\ Len(wire[s]) < WireLimit
        /\ queue' = [queue EXCEPT ![s] = Tail(@)]
        /\ wire' = [wire EXCEPT ![s] = Append(@, Head(queue[s]))]
    BY <1>1 DEF Send
  <2>2. /\ Head(queue[s]) \in Messages /\ Tail(queue[s]) \in Seq(Messages)
        /\ Len(Tail(queue[s])) = Len(queue[s]) - 1
        /\ ToSet(queue[s]) = {Head(queue[s])} \cup ToSet(Tail(queue[s]))
    BY <2>1, LinkTypes, SeqTail
  <2>3. /\ Append(wire[s], Head(queue[s])) \in Seq(Messages)
        /\ Len(Append(wire[s], Head(queue[s]))) = Len(wire[s]) + 1
        /\ ToSet(Append(wire[s], Head(queue[s]))) = ToSet(wire[s]) \cup {Head(queue[s])}
    BY <2>2, LinkTypes, SeqAppend
  <2>4. /\ queue'[s] = Tail(queue[s]) /\ wire'[s] = Append(wire[s], Head(queue[s]))
        /\ \A r \in Socks : r # s => queue'[r] = queue[r] /\ wire'[r] = wire[r]
        /\ queue' \in [Socks -> Seq(Messages)] /\ wire' \in [Socks -> Seq(Messages)]
    BY <2>1, <2>2, <2>3, LinkTypes
  <2>5. \A r \in Socks : ToSet(queue'[r]) \cup ToSet(wire'[r]) = ToSet(queue[r]) \cup ToSet(wire[r])
    BY <2>2, <2>3, <2>4
  <2>6. \A r \in Socks : Len(wire'[r]) <= WireLimit /\ Len(queue'[r]) <= QueueLimit
    <3>1. \A r \in Socks : wire[r] \in Seq(Messages) /\ Len(wire[r]) \in Nat
                          /\ queue[r] \in Seq(Messages) /\ Len(queue[r]) \in Nat
      BY LinkTypes
    <3> QED
      BY <2>1, <2>2, <2>3, <2>4, <3>1, LinkTypes
  <2>7. Forwards /\ NothingNew
    BY <2>1, <2>5 DEF Forwards, NothingNew, Travels, Closing
  <2>8. HubOK'
    BY <1>0, <2>1 DEF HubOK
  <2> QED
    BY <1>0, <2>1, <2>4, <2>6, <2>7, <2>8, LinkTypes, QuietCalls, DaemonKeeps
<1>2. CASE SendFails(s)
  <2>1. UNCHANGED <<callVars, clientVars, shut, up, wire, server, hub, work, effect>> /\ Close(s)
    BY <1>2 DEF SendFails
  <2>2. Forwards /\ NothingNew
    BY <1>0, <2>1, CloseDoes DEF Forwards, NothingNew, Travels, Closing
  <2>3. HubOK'
    BY <1>0, <2>1 DEF HubOK
  <2> QED
    BY <1>0, <2>1, <2>2, <2>3, CloseDoes, LinkTypes, QuietCalls, DaemonKeeps
<1>3. CASE Broadcast(s)
  <2>1. /\ UNCHANGED <<callVars, clientVars, shut, up, wire, server, work, effect>>
        /\ Enqueue(s, "event") /\ hub' \subseteq hub
    BY <1>3 DEF Broadcast
  <2>2. /\ \A r \in Socks : ToSet(queue'[r]) \subseteq ToSet(queue[r]) \cup {"event"}
        /\ \A r \in Socks : Closing(r) => Closing(r)'
        /\ \A r \in Socks : Closing(r)' \/ ToSet(queue[r]) \subseteq ToSet(queue'[r])
    BY <1>0, <2>1, EnqueueDoes, LinkTypes
  <2>3. Forwards /\ NothingNew
    <3>1. "event" \notin Calls
      BY <1>0, LinkTypes
    <3> QED
      BY <2>1, <2>2, <3>1 DEF Forwards, NothingNew, Travels
  <2>4. HubOK' /\ hub' \subseteq Socks
    BY <1>0, <2>1, LinkTypes DEF HubOK
  <2> QED
    BY <1>0, <2>1, <2>3, <2>4, EnqueueDoes, LinkTypes, QuietCalls, DaemonKeeps
<1> QED
  BY <1>1, <1>2, <1>3 DEF WriterStep

LEMMA LinkNetworkInv ==
    ASSUME LinkInv, DaemonStops \/ \E s \in Socks : Break(s)
    PROVE  LinkInv'
<1>0. LinkInv /\ HubOK
  BY DEF LinkInv
<1>1. CASE DaemonStops
  <2>1. /\ UNCHANGED <<callVars, clientVars, shut, wire, effect>> /\ done' = Socks /\ broken' = {}
        /\ hub' = {} /\ queue' = [s \in Socks |-> <<>>] /\ work' = [s \in Socks |-> {}]
        /\ up' = [s \in Socks |-> {}] /\ server' = [s \in Socks |-> "left"]
    BY <1>1 DEF DaemonStops
  <2>2. Forwards /\ NothingNew
    BY <2>1, SeqEmpty DEF Forwards, NothingNew, Travels, Closing
  <2>3. HubOK'
    BY <2>1 DEF HubOK
  <2>4. queue' \in [Socks -> Seq(Messages)] /\ \A s \in Socks : Len(queue'[s]) <= QueueLimit
    BY <1>0, <2>1, SeqEmpty, LinkTypes
  <2> QED
    BY <1>0, <2>1, <2>2, <2>3, <2>4, LinkTypes, QuietCalls, DaemonKeeps
<1>2. ASSUME NEW s \in Socks, Break(s) PROVE LinkInv'
  <2>1. /\ UNCHANGED <<callVars, clientVars, shut, daemonVars>> /\ broken' = broken \cup {s}
        /\ up' = [up EXCEPT ![s] = {}] /\ wire' = [wire EXCEPT ![s] = <<>>]
    BY <1>2 DEF Break
  <2>2. Forwards /\ NothingNew
    BY <1>0, <2>1, SeqEmpty, LinkTypes DEF Forwards, NothingNew, Travels, Closing, daemonVars
  <2>3. HubOK'
    BY <1>0, <2>1 DEF HubOK, daemonVars
  <2>4. /\ wire' \in [Socks -> Seq(Messages)] /\ \A r \in Socks : Len(wire'[r]) <= WireLimit
        /\ up' \in [Socks -> SUBSET Calls]
    BY <1>0, <2>1, SeqEmpty, LinkTypes
  <2> QED
    BY <1>0, <2>1, <2>2, <2>3, <2>4, LinkTypes, QuietCalls, DaemonKeeps DEF daemonVars
<1> QED
  BY <1>1, <1>2

-----------------------------------------------------------------------------
(* The steps of Client.Run and of its watcher.                             *)

LEMMA DialInv ==
    ASSUME LinkInv, NEW s \in Socks, Dial(s)
    PROVE  LinkInv'
<1>0. LinkInv /\ LinkTypeOK /\ RunnerOK /\ HubOK /\ FreeSock(s)
  BY DEF LinkInv, Dial
<1>1. /\ UNCHANGED <<callVars, conn, watcher, ctxDone, broken, up, wire, hub, queue, work, effect>>
      /\ runner = "dials" /\ runner' = "asks" /\ local' = s /\ server' = [server EXCEPT ![s] = "upgraded"]
      /\ shut' = shut \ {s} /\ done' = done \ {s}
  BY DEF Dial
<1>2. LinkTypeOK'
  BY <1>0, <1>1 DEF LinkTypeOK, callVars
<1>3. RunnerOK'
  BY <1>0, <1>1 DEF RunnerOK
<1>4. HubOK'
  BY <1>0, <1>1, LinkTypes DEF HubOK, FreeSock
<1>5. ASSUME NEW k \in Calls PROVE CallInv(k)'
  <2>1. CallInv(k) /\ (call[k] = "waits" => via[k] # s)
    BY <1>0 DEF LinkInv, FreeSock
  <2>2. WaiterOK(k)' /\ OnItsWay(k)'
    BY <1>1, <2>1 DEF CallInv, WaiterOK, OnItsWay, Draining, Travels, Closing, callVars
  <2>3. OneEffect(k)'
    BY <1>1, <2>1 DEF CallInv, OneEffect, callVars
  <2> QED
    BY <2>2, <2>3 DEF CallInv
<1> QED
  BY <1>2, <1>3, <1>4, <1>5 DEF LinkInv

LEMMA ClientTypes ==
    ASSUME LinkInv
    PROVE  /\ call \in [Calls -> {"idle", "registered", "chosen", "waits", "answered", "failed"}]
           /\ via \in [Calls -> Socks \cup {NoSock}]
           /\ box \in [Calls -> Seq({"answer", "error"})] /\ pending \subseteq Calls
           /\ runner \in {"dials", "asks", "reads", "closes", "drains", "leaves", "ended"}
           /\ watcher \in {"waits", "drains", "ended"} /\ ctxDone \in BOOLEAN
           /\ local \in Socks \cup {NoSock} /\ conn \in Socks \cup {NoSock} /\ NoSock \notin Socks
BY LinkConstants DEF LinkInv, LinkTypeOK

\* What a step of the client keeps of the daemon, the network and the calls' results.
LEMMA ClientKeeps ==
    ASSUME LinkInv, UNCHANGED <<call, via, broken, up, server, done, hub, work, effect>>,
           /\ box' \in [Calls -> Seq({"answer", "error"})] /\ pending' \subseteq Calls
           /\ runner' \in {"dials", "asks", "reads", "closes", "drains", "leaves", "ended"}
           /\ watcher' \in {"waits", "drains", "ended"} /\ ctxDone' \in BOOLEAN
           /\ local' \in Socks \cup {NoSock} /\ conn' \in Socks \cup {NoSock} /\ shut' \subseteq Socks
           /\ wire' \in [Socks -> Seq(Messages)] /\ queue' \in [Socks -> Seq(Messages)],
           \A s \in Socks : Len(wire'[s]) <= WireLimit /\ Len(queue'[s]) <= QueueLimit,
           \A s \in Socks : ToSet(queue'[s]) \cup ToSet(wire'[s]) \subseteq ToSet(queue[s]) \cup ToSet(wire[s]),
           \A k \in Calls : box'[k] = box[k] \/ \A i \in DOMAIN box'[k] : box'[k][i] = "answer" => effect[k] = 1,
           RunnerOK', \A k \in Calls : WaiterOK(k)' /\ OnItsWay(k)'
    PROVE  LinkInv'
<1>1. LinkTypeOK'
  BY DEF LinkInv, LinkTypeOK
<1>2. HubOK'
  BY DEF LinkInv, HubOK
<1>3. ASSUME NEW k \in Calls PROVE OneEffect(k)'
  <2>1. OneEffect(k)
    BY DEF LinkInv, CallInv
  <2>2. \A s \in Socks : k \in ToSet(queue'[s]) \cup ToSet(wire'[s]) =>
                             k \in ToSet(queue[s]) \cup ToSet(wire[s])
    OBVIOUS
  <2>3. \A i \in DOMAIN box'[k] : box'[k][i] = "answer" => effect[k] = 1
    BY <2>1 DEF OneEffect
  <2> QED
    BY <2>1, <2>2, <2>3 DEF OneEffect
<1> QED
  BY <1>1, <1>2, <1>3 DEF LinkInv, CallInv

LEMMA ShutDoes ==
    ASSUME LinkInv, NEW socks \in SUBSET Socks, ShutSock(socks)
    PROVE  /\ shut' = shut \cup socks /\ shut' \subseteq Socks
           /\ queue' \in [Socks -> Seq(Messages)] /\ \A s \in Socks : Len(queue'[s]) <= QueueLimit
           /\ \A s \in Socks : ToSet(queue'[s]) \subseteq ToSet(queue[s])
BY LinkTypes, SeqEmpty DEF ShutSock

LEMMA WireCut ==
    ASSUME LinkInv, NEW s \in Socks, wire' = [wire EXCEPT ![s] = <<>>]
    PROVE  /\ wire' \in [Socks -> Seq(Messages)] /\ \A r \in Socks : Len(wire'[r]) <= WireLimit
           /\ \A r \in Socks : ToSet(wire'[r]) \subseteq ToSet(wire[r])
BY LinkTypes, SeqEmpty

LEMMA WireRead ==
    ASSUME LinkInv, NEW s \in Socks, Received(s), wire[s] # <<>>
    PROVE  /\ wire' \in [Socks -> Seq(Messages)] /\ \A r \in Socks : Len(wire'[r]) <= WireLimit
           /\ \A r \in Socks : ToSet(wire'[r]) \subseteq ToSet(wire[r])
           /\ \A r \in Socks : r # s => wire'[r] = wire[r]
           /\ Head(wire[s]) \in Messages
           /\ ToSet(wire[s]) = {Head(wire[s])} \cup ToSet(wire'[s])
<1>1. /\ Head(wire[s]) \in Messages /\ Tail(wire[s]) \in Seq(Messages)
      /\ Len(Tail(wire[s])) = Len(wire[s]) - 1
      /\ ToSet(wire[s]) = {Head(wire[s])} \cup ToSet(Tail(wire[s]))
      /\ Len(wire[s]) \in Nat /\ Len(wire[s]) <= WireLimit /\ WireLimit \in Nat
  BY LinkTypes, SeqTail
<1>2. wire' = [wire EXCEPT ![s] = Tail(@)] /\ wire'[s] = Tail(wire[s])
      /\ \A r \in Socks : r # s => wire'[r] = wire[r]
  BY LinkTypes DEF Received
<1>3. wire' \in [Socks -> Seq(Messages)]
  BY <1>1, <1>2, LinkTypes
<1> QED
  BY <1>1, <1>2, <1>3, LinkTypes

\* Somebody who took the connection drains the map: no waiter is left without a result.
LEMMA DrainInv ==
    ASSUME LinkInv, DrainPending, UNCHANGED <<call, via, local, conn, ctxDone, netVars, daemonVars>>,
           runner' \in {"dials", "asks", "reads", "closes", "drains", "leaves", "ended"},
           watcher' \in {"waits", "drains", "ended"}, RunnerOK'
    PROVE  LinkInv'
<1>1. /\ pending' = {} /\ UNCHANGED <<shut, wire, queue, broken, up, server, done, hub, work, effect>>
      /\ \A k \in Calls : box'[k] = IF k \in pending THEN Append(box[k], "error") ELSE box[k]
  BY DEF DrainPending, netVars, daemonVars
<1>2. \A k \in pending : k \in Calls /\ Append(box[k], "error") = <<"error">>
  <2> TAKE k \in pending
  <2>1. k \in Calls /\ box[k] = <<>>
    BY ClientTypes DEF LinkInv, CallInv, WaiterOK
  <2>2. Append(<<>>, "error") = <<"error">>
    OBVIOUS
  <2> QED
    BY <2>1, <2>2, Zenon
<1>3. box' \in [Calls -> Seq({"answer", "error"})]
  BY <1>1, ClientTypes, SeqAppend DEF DrainPending
<1>6. Len(<<"error">>) = 1 /\ DOMAIN <<"error">> = {1} /\ <<"error">>[1] # "answer" /\ <<"error">> # <<>>
  OBVIOUS
<1>7. \A k \in Calls : box'[k] = IF k \in pending THEN <<"error">> ELSE box[k]
  BY <1>1, <1>2, Zenon
<1>4. ASSUME NEW k \in Calls PROVE WaiterOK(k)' /\ OnItsWay(k)'
  <2>1. WaiterOK(k)
    BY DEF LinkInv, CallInv
  <2>2. call[k] \in {"registered", "chosen", "waits"} => box'[k] # <<>>
    <3>1. CASE k \in pending
      BY <1>7, <1>6, <3>1, Zenon
    <3>2. CASE k \notin pending
      BY <1>7, <2>1, <3>2 DEF WaiterOK
    <3> QED
      BY <3>1, <3>2
  <2>3. Len(box'[k]) <= 1
    <3>1. CASE k \in pending
      <4>1. box'[k] = <<"error">>
        BY <1>7, <3>1, Zenon
      <4> QED
        BY <4>1
    <3>2. CASE k \notin pending
      BY <1>7, <2>1, <3>2 DEF WaiterOK
    <3> QED
      BY <3>1, <3>2
  <2>4. call[k] = "idle" => box'[k] = <<>>
    BY <1>7, <2>1 DEF WaiterOK
  <2>5. k \notin pending' /\ UNCHANGED <<call, via>>
    BY <1>1
  <2> QED
    BY <2>1, <2>2, <2>3, <2>4, <2>5 DEF WaiterOK, OnItsWay
<1>5. \A k \in Calls : box'[k] = box[k] \/ \A i \in DOMAIN box'[k] : box'[k][i] = "answer" => effect[k] = 1
  <2> TAKE k \in Calls
  <2>1. CASE k \in pending
    <3>1. box'[k] = <<"error">>
      BY <1>7, <2>1, Zenon
    <3> QED
      BY <3>1
  <2>2. CASE k \notin pending
    BY <1>7, <2>2, Zenon
  <2> QED
    BY <2>1, <2>2
<1> QED
  BY <1>1, <1>3, <1>4, <1>5, ClientTypes, LinkTypes, ClientKeeps

\* A step after which somebody is to drain the map, and that only loses messages.
LEMMA TakeInv ==
    ASSUME LinkInv, UNCHANGED callVars, UNCHANGED <<ctxDone, broken, up, server, done, hub, work, effect>>,
           /\ runner' \in {"dials", "asks", "reads", "closes", "drains", "leaves", "ended"}
           /\ watcher' \in {"waits", "drains", "ended"}
           /\ local' \in Socks \cup {NoSock}
           /\ wire' \in [Socks -> Seq(Messages)],
           \A s \in Socks : Len(wire'[s]) <= WireLimit /\ ToSet(wire'[s]) \subseteq ToSet(wire[s]),
           TakeConn, Draining', RunnerOK'
    PROVE  LinkInv'
<1>1. conn' = NoSock /\ ShutSock({conn} \ {NoSock}) /\ {conn} \ {NoSock} \in SUBSET Socks
  BY ClientTypes DEF TakeConn
<1>2. /\ shut' \subseteq Socks
      /\ queue' \in [Socks -> Seq(Messages)] /\ \A s \in Socks : Len(queue'[s]) <= QueueLimit
      /\ \A s \in Socks : ToSet(queue'[s]) \subseteq ToSet(queue[s])
  BY <1>1, ShutDoes
<1>3. ASSUME NEW k \in Calls PROVE WaiterOK(k)' /\ OnItsWay(k)'
  BY DEF LinkInv, CallInv, WaiterOK, OnItsWay, callVars
<1>4. UNCHANGED <<call, via, box, pending>>
  BY DEF callVars
<1> QED
  BY <1>1, <1>2, <1>3, <1>4, ClientTypes, ClientKeeps

\* A step that closes at most a connection no waiter uses.
LEMMA StayInv ==
    ASSUME LinkInv, UNCHANGED callVars, UNCHANGED <<conn, watcher, ctxDone, broken, up, server, done, hub, work, effect>>,
           /\ runner' \in {"dials", "asks", "reads", "closes", "drains", "leaves", "ended"}
           /\ local' \in Socks \cup {NoSock} /\ shut' \subseteq Socks
           /\ wire' \in [Socks -> Seq(Messages)] /\ queue' \in [Socks -> Seq(Messages)],
           \A s \in Socks : /\ Len(wire'[s]) <= WireLimit /\ ToSet(wire'[s]) \subseteq ToSet(wire[s])
                            /\ Len(queue'[s]) <= QueueLimit /\ ToSet(queue'[s]) \subseteq ToSet(queue[s]),
           Draining => Draining',
           conn # NoSock => UNCHANGED <<wire, queue, shut>>,
           RunnerOK'
    PROVE  LinkInv'
<1>1. ASSUME NEW k \in Calls PROVE WaiterOK(k)' /\ OnItsWay(k)'
  <2>1. WaiterOK(k) /\ OnItsWay(k) /\ UNCHANGED <<call, via, box, pending>>
    BY DEF LinkInv, CallInv, callVars
  <2>2. WaiterOK(k)'
    BY <2>1 DEF WaiterOK
  <2>3. OnItsWay(k)'
    <3>1. CASE Draining'
      BY <3>1 DEF OnItsWay
    <3>2. CASE ~Draining'
      <4>1. call[k] = "waits" /\ box[k] = <<>> => conn # NoSock
        BY <2>1, <3>2, ClientTypes DEF WaiterOK
      <4> QED
        BY <2>1, <3>2, <4>1 DEF OnItsWay, Closing, Travels
    <3> QED
      BY <3>1, <3>2
  <2> QED
    BY <2>2, <2>3
<1>2. UNCHANGED <<call, via, box, pending>>
  BY DEF callVars
<1> QED
  BY <1>1, <1>2, ClientTypes, ClientKeeps

LEMMA RunnerStepInv ==
    ASSUME LinkInv, RunnerStep
    PROVE  LinkInv'
<1>0. LinkInv /\ RunnerOK
  BY DEF LinkInv
<1>1. CASE ReadAuth
  <2>1. /\ runner = "asks" /\ local \in Socks /\ conn = NoSock /\ Received(local) /\ wire[local] # <<>>
        /\ conn' = local /\ runner' = "reads" /\ Head(wire[local]) = "auth"
        /\ UNCHANGED <<callVars, local, watcher, ctxDone, shut, broken, up, daemonVars>>
    BY <1>0, <1>1 DEF ReadAuth, RunnerOK
  <2>2. RunnerOK' /\ (Draining => Draining')
    BY <2>1 DEF RunnerOK, Draining
  <2>3. ASSUME NEW k \in Calls PROVE WaiterOK(k)' /\ OnItsWay(k)'
    <3>1. WaiterOK(k) /\ OnItsWay(k) /\ UNCHANGED <<call, via, box, pending>>
      BY <2>1 DEF LinkInv, CallInv, callVars
    <3>2. call[k] \in {"chosen", "waits"} /\ box[k] = <<>> => Draining
      BY <2>1, <3>1, ClientTypes DEF WaiterOK
    <3> QED
      BY <2>2, <3>1, <3>2 DEF WaiterOK, OnItsWay
  <2>4. /\ wire' \in [Socks -> Seq(Messages)] /\ \A r \in Socks : Len(wire'[r]) <= WireLimit
        /\ \A r \in Socks : ToSet(wire'[r]) \subseteq ToSet(wire[r])
    BY <1>0, <2>1, WireRead
  <2>5. UNCHANGED <<call, via, box, pending>> /\ UNCHANGED <<server, done, hub, queue, work, effect>>
    BY <2>1 DEF callVars, daemonVars
  <2> QED
    BY <1>0, <2>1, <2>2, <2>3, <2>4, <2>5, ClientTypes, LinkTypes, ClientKeeps
<1>2. CASE AuthFails
  <2>1. /\ runner = "asks" /\ local \in Socks /\ conn = NoSock /\ ShutSock({local})
        /\ wire' = [wire EXCEPT ![local] = <<>>] /\ local' = NoSock /\ runner' = "dials"
        /\ UNCHANGED <<callVars, conn, watcher, ctxDone, broken, up, server, done, hub, work, effect>>
    BY <1>0, <1>2 DEF AuthFails, RunnerOK
  <2>2. RunnerOK' /\ (Draining => Draining')
    BY <2>1 DEF RunnerOK, Draining
  <2>3. /\ wire' \in [Socks -> Seq(Messages)] /\ \A r \in Socks : Len(wire'[r]) <= WireLimit
        /\ \A r \in Socks : ToSet(wire'[r]) \subseteq ToSet(wire[r])
    BY <1>0, <2>1, WireCut
  <2>4. /\ shut' \subseteq Socks
        /\ queue' \in [Socks -> Seq(Messages)] /\ \A s \in Socks : Len(queue'[s]) <= QueueLimit
        /\ \A s \in Socks : ToSet(queue'[s]) \subseteq ToSet(queue[s])
    BY <1>0, <2>1, ShutDoes
  <2> QED
    BY <1>0, <2>1, <2>2, <2>3, <2>4, StayInv
<1>3. CASE ReadMessage
  <2> DEFINE m == Head(wire[local])
  <2>1. /\ runner = "reads" /\ local \in Socks /\ wire[local] # <<>> /\ Received(local)
        /\ pending' = pending \ {m}
        /\ box' = IF m \in pending THEN [box EXCEPT ![m] = Append(@, "answer")] ELSE box
        /\ UNCHANGED <<call, via, clientVars, shut, broken, up, daemonVars>>
    BY <1>0, <1>3 DEF ReadMessage, RunnerOK
  <2>2. /\ wire' \in [Socks -> Seq(Messages)] /\ \A r \in Socks : Len(wire'[r]) <= WireLimit
        /\ \A r \in Socks : ToSet(wire'[r]) \subseteq ToSet(wire[r])
        /\ \A r \in Socks : r # local => wire'[r] = wire[r]
        /\ ToSet(wire[local]) = {m} \cup ToSet(wire'[local])
    BY <1>0, <2>1, WireRead
  <2> HIDE DEF m
  <2>3. UNCHANGED clientVars /\ UNCHANGED <<server, done, hub, queue, work, effect>> /\ RunnerOK'
    BY <1>0, <2>1 DEF daemonVars, RunnerOK, clientVars
  <2>4. m \in pending => m \in Calls /\ box[m] = <<>> /\ box'[m] = <<"answer">> /\ effect[m] = 1
    <3> SUFFICES ASSUME m \in pending PROVE m \in Calls /\ box[m] = <<>> /\ box'[m] = <<"answer">> /\ effect[m] = 1
      OBVIOUS
    <3>1. m \in Calls /\ box[m] = <<>>
      BY <1>0, ClientTypes DEF LinkInv, CallInv, WaiterOK
    <3>2. effect[m] = 1
      BY <1>0, <2>1, <2>2, <3>1 DEF LinkInv, CallInv, OneEffect
    <3>3. box'[m] = Append(box[m], "answer")
      BY <1>0, <2>1, <3>1, ClientTypes
    <3>4. Append(<<>>, "answer") = <<"answer">>
      OBVIOUS
    <3> QED
      BY <3>1, <3>2, <3>3, <3>4, Zenon
  <2>5. Len(<<"answer">>) = 1 /\ <<"answer">> # <<>> /\ <<"answer">> \in Seq({"answer", "error"})
    OBVIOUS
  <2>6. \A k \in Calls : (k # m \/ m \notin pending) => box'[k] = box[k] /\ (k # m => (k \in pending' <=> k \in pending))
    BY <1>0, <2>1, ClientTypes
  <2>7. box' \in [Calls -> Seq({"answer", "error"})]
    <3>1. CASE m \in pending
      <4>1. m \in Calls /\ box' = [box EXCEPT ![m] = Append(@, "answer")] /\ box'[m] = <<"answer">>
        BY <2>1, <2>4, <3>1
      <4>2. box' = [box EXCEPT ![m] = box'[m]]
        BY <1>0, <4>1, ClientTypes
      <4>3. box'[m] \in Seq({"answer", "error"})
        BY <2>5, <4>1, Zenon
      <4> QED
        BY <1>0, <4>2, <4>3, ClientTypes
    <3>2. CASE m \notin pending
      BY <1>0, <2>1, <3>2, ClientTypes
    <3> QED
      BY <3>1, <3>2
  <2>8. ASSUME NEW k \in Calls PROVE WaiterOK(k)' /\ OnItsWay(k)'
    <3>1. WaiterOK(k) /\ OnItsWay(k) /\ UNCHANGED <<call, via, conn, shut, broken, done, up, work, queue>>
          /\ (Draining <=> Draining') /\ k \in Calls
      BY <2>1, <2>3 DEF LinkInv, CallInv, clientVars, Draining
    <3>2. CASE k = m /\ m \in pending
      <4>1. box'[k] = <<"answer">> /\ k \notin pending' /\ k \in pending
        BY <2>1, <2>4, <3>2
      <4>2. box'[k] # <<>> /\ Len(box'[k]) <= 1
        BY <4>1, <2>5
      <4> QED
        BY <3>1, <4>1, <4>2 DEF WaiterOK, OnItsWay
    <3>3. CASE ~(k = m /\ m \in pending)
      <4>1. box'[k] = box[k] /\ (k \in pending' <=> k \in pending)
        BY <2>1, <2>6, <3>3
      <4>2. WaiterOK(k)'
        BY <3>1, <4>1 DEF WaiterOK
      <4>3. OnItsWay(k)'
        <5>1. call[k] = "waits" /\ box[k] = <<>> => k # m
          BY <3>1, <3>3 DEF WaiterOK
        <5>2. \A s \in Socks : k # m /\ k \in ToSet(wire[s]) => k \in ToSet(wire'[s])
          BY <2>2
        <5> QED
          BY <3>1, <4>1, <5>1, <5>2 DEF OnItsWay, WaiterOK, Closing, Travels
      <4> QED
        BY <4>2, <4>3
    <3> QED
      BY <3>2, <3>3
  <2>9. \A k \in Calls : box'[k] = box[k] \/ \A i \in DOMAIN box'[k] : box'[k][i] = "answer" => effect[k] = 1
    BY <2>4, <2>6
  <2>10. pending' \subseteq Calls
    BY <1>0, <2>1, ClientTypes
  <2> QED
    BY <1>0, <2>1, <2>2, <2>3, <2>7, <2>8, <2>9, <2>10, ClientTypes, LinkTypes, ClientKeeps DEF clientVars
<1>4. CASE ReadFails
  <2>1. /\ runner = "reads" /\ runner' = "closes"
        /\ UNCHANGED <<callVars, local, conn, watcher, ctxDone, shut, broken, up, wire, server, done, hub, queue, work, effect>>
    BY <1>4 DEF ReadFails, netVars, daemonVars
  <2>2. RunnerOK' /\ (Draining => Draining')
    BY <1>0, <2>1 DEF RunnerOK, Draining
  <2> QED
    BY <1>0, <2>1, <2>2, ClientTypes, LinkTypes, StayInv
<1>5. CASE Disconnect
  <2>1. /\ runner = "closes" /\ local \in Socks /\ local' = NoSock /\ wire' = [wire EXCEPT ![local] = <<>>]
        /\ UNCHANGED <<callVars, watcher, ctxDone, broken, up, server, done, hub, work, effect>>
        /\ conn \in {local, NoSock} /\ NoSock \notin Socks
    BY <1>0, <1>5, ClientTypes DEF Disconnect, RunnerOK
  <2>2. /\ wire' \in [Socks -> Seq(Messages)] /\ \A r \in Socks : Len(wire'[r]) <= WireLimit
        /\ \A r \in Socks : ToSet(wire'[r]) \subseteq ToSet(wire[r])
    BY <1>0, <2>1, WireCut
  <2>3. CASE conn = local
    <3>1. TakeConn /\ runner' = "drains"
      BY <1>5, <2>3 DEF Disconnect
    <3>2. RunnerOK' /\ Draining'
      BY <3>1, <2>1 DEF RunnerOK, Draining, TakeConn
    <3> QED
      BY <1>0, <2>1, <2>2, <3>1, <3>2, ClientTypes, TakeInv
  <2>4. CASE conn # local
    <3>1. conn = NoSock /\ runner' = "dials" /\ UNCHANGED <<conn, shut, queue>>
      BY <1>5, <2>1, <2>4 DEF Disconnect
    <3>2. RunnerOK' /\ (Draining => Draining')
      BY <2>1, <3>1 DEF RunnerOK, Draining
    <3> QED
      BY <1>0, <2>1, <2>2, <3>1, <3>2, LinkTypes, StayInv
  <2> QED
    BY <2>3, <2>4
<1>6. CASE DisconnectDrains
  <2>1. RunnerOK'
    BY <1>0, <1>6 DEF RunnerOK, DisconnectDrains
  <2> QED
    BY <1>0, <1>6, <2>1, ClientTypes, DrainInv DEF DisconnectDrains
<1>7. CASE RunLeaves
  <2>1. RunnerOK' /\ Draining' /\ TakeConn /\ runner' = "leaves"
        /\ UNCHANGED <<callVars, local, watcher, ctxDone, broken, up, wire, server, done, hub, work, effect>>
    BY <1>0, <1>7 DEF RunnerOK, RunLeaves, TakeConn, Draining
  <2> QED
    BY <1>0, <2>1, ClientTypes, LinkTypes, TakeInv
<1>8. CASE RunEnds
  <2>1. RunnerOK'
    BY <1>0, <1>8 DEF RunnerOK, RunEnds
  <2> QED
    BY <1>0, <1>8, <2>1, ClientTypes, DrainInv DEF RunEnds
<1> QED
  BY <1>1, <1>2, <1>3, <1>4, <1>5, <1>6, <1>7, <1>8 DEF RunnerStep

LEMMA WatcherStepInv ==
    ASSUME LinkInv, WatcherStep \/ CancelClient
    PROVE  LinkInv'
<1>0. LinkInv /\ RunnerOK
  BY DEF LinkInv
<1>1. CASE WatcherTakes
  <2>1. RunnerOK' /\ Draining' /\ TakeConn /\ watcher' = "drains"
        /\ UNCHANGED <<callVars, runner, local, ctxDone, broken, up, wire, server, done, hub, work, effect>>
    BY <1>0, <1>1 DEF RunnerOK, WatcherTakes, TakeConn, Draining
  <2> QED
    BY <1>0, <2>1, ClientTypes, LinkTypes, TakeInv
<1>2. CASE WatcherDrains
  <2>1. RunnerOK'
    BY <1>0, <1>2 DEF RunnerOK, WatcherDrains
  <2> QED
    BY <1>0, <1>2, <2>1, ClientTypes, DrainInv DEF WatcherDrains
<1>3. CASE CancelClient
  BY <1>0, <1>3 DEF CancelClient, LinkInv, LinkTypeOK, RunnerOK, HubOK, CallInv, WaiterOK, OnItsWay,
     OneEffect, Draining, Closing, Travels, callVars, netVars, daemonVars
<1> QED
  BY <1>1, <1>2, <1>3 DEF WatcherStep

-----------------------------------------------------------------------------
LEMMA LinkStepInv == LinkInv /\ [LinkNext]_linkVars => LinkInv'
<1> SUFFICES ASSUME LinkInv, [LinkNext]_linkVars PROVE LinkInv'
  OBVIOUS
<1>1. CASE UNCHANGED linkVars
  BY <1>1 DEF LinkInv, LinkTypeOK, RunnerOK, HubOK, CallInv, WaiterOK, OnItsWay,
     OneEffect, Draining, Closing, Travels, linkVars, callVars, clientVars, netVars, daemonVars
<1>2. CASE \E k \in Calls : Register(k) \/ CallStep(k) \/ Expire(k)
  BY <1>2, CallStepInv
<1>3. CASE \E s \in Socks : Dial(s) \/ Broadcast(s) \/ Break(s)
  BY <1>3, DialInv, WriterStepInv, LinkNetworkInv
<1>4. CASE \E s \in Socks : HandlerStep(s) \/ WriterStep(s)
  BY <1>4, HandlerStepInv, WriterStepInv
<1>5. CASE \E s \in Socks, k \in Calls : Execute(s, k)
  BY <1>5, ExecuteInv
<1>6. CASE RunnerStep
  BY <1>6, RunnerStepInv
<1>7. CASE WatcherStep \/ CancelClient
  BY <1>7, WatcherStepInv
<1>8. CASE DaemonStops
  BY <1>8, LinkNetworkInv
<1> QED
  BY <1>1, <1>2, <1>3, <1>4, <1>5, <1>6, <1>7, <1>8 DEF LinkNext

\* Whatever connections end, queues overflow and processes stop: a waiting call is in the
\* map, its request or answer travels or the end of its connection shows, it never gets a
\* second result, and the hub holds no client whose handler has returned (Client.Call,
\* readLoop, disconnect, controlClient.enqueue, handleControl).
THEOREM LinkWaitersAreServed == LinkSpec => []WaitersAreServed
<1>1. LinkInv => WaitersAreServed
  <2> SUFFICES ASSUME LinkInv PROVE WaitersAreServed
    OBVIOUS
  <2>1. OneResult /\ HubIsServed
    BY DEF LinkInv, HubOK, CallInv, WaiterOK, OneResult, HubIsServed
  <2>2. NobodyIsForgotten
    BY DEF LinkInv, CallInv, WaiterOK, OnItsWay, Travels, NobodyIsForgotten
  <2> QED
    BY <2>1, <2>2 DEF LinkInv, WaitersAreServed
<1> QED
  BY InitLink, LinkStepInv, <1>1, PTL DEF LinkSpec

-----------------------------------------------------------------------------
(* The promise of a remote call.                                           *)

LEMMA PromiseInit == LinkInit => Promise!RemoteInit
BY DEF LinkInit, Promise!RemoteInit

\* What the caller of a call knows, from where the call is.
Known(c) ==
    CASE c = "idle"     -> "none"
      [] c = "answered" -> "answer"
      [] c = "failed"   -> "error"
      [] OTHER          -> "open"

LEMMA KnownIs ==
    /\ Known("idle") = "none" /\ Known("answered") = "answer" /\ Known("failed") = "error"
    /\ Known("registered") = "open" /\ Known("chosen") = "open" /\ Known("waits") = "open"
BY DEF Known

\* A call that moves changes what its caller knows, and nothing else is known anew.
LEMMA KnownMoves ==
    ASSUME call \in [Calls -> {"idle", "registered", "chosen", "waits", "answered", "failed"}],
           NEW k \in Calls, NEW how, Ends(k, how)
    PROVE  [j \in Calls |-> Known(call'[j])] = [[j \in Calls |-> Known(call[j])] EXCEPT ![k] = Known(how)]
BY DEF Ends

LEMMA PromiseStep == LinkInv /\ [LinkNext]_linkVars => [Promise!RemoteNext]_(Promise!remoteVars)
<1> SUFFICES ASSUME LinkInv, [LinkNext]_linkVars PROVE [Promise!RemoteNext]_(Promise!remoteVars)
  OBVIOUS
<1> DEFINE known == [k \in Calls |-> Known(call[k])]
<1>0. /\ call \in [Calls -> {"idle", "registered", "chosen", "waits", "answered", "failed"}]
      /\ effect \in [Calls -> Nat] /\ LinkInv
  BY ClientTypes, LinkTypes
<1>a. ASSUME UNCHANGED <<call, effect>> PROVE [Promise!RemoteNext]_(Promise!remoteVars)
  BY <1>a DEF Promise!remoteVars
<1>b. ASSUME NEW k \in Calls, NEW how, Ends(k, how), UNCHANGED effect
      PROVE  /\ Known(call[k]) = "none" /\ Known(how) = "open" => Promise!Issue(k)
             /\ Known(call[k]) = "open" /\ Known(how) = "error" => Promise!Fail(k)
             /\ Known(call[k]) = "open" /\ Known(how) = "answer" /\ effect[k] = 1 => Promise!Answer(k)
             /\ Known(call[k]) = Known(how) => UNCHANGED Promise!remoteVars
  <2>1. known' = [known EXCEPT ![k] = Known(how)] /\ known[k] = Known(call[k])
    BY <1>0, <1>b, KnownMoves
  <2>2. Known(call[k]) = Known(how) => known' = known
    BY <2>1
  <2> QED
    BY <1>b, <2>1, <2>2 DEF Known, Promise!Issue, Promise!Fail, Promise!Answer, Promise!remoteVars
<1>c. ASSUME NEW k \in Calls, Promise!Issue(k) \/ Promise!TakeEffect(k) \/ Promise!Answer(k) \/ Promise!Fail(k)
      PROVE  [Promise!RemoteNext]_(Promise!remoteVars)
  BY <1>c DEF Promise!RemoteNext
<1>1. CASE UNCHANGED linkVars
  BY <1>1, <1>a DEF linkVars, callVars, daemonVars
<1>2. ASSUME NEW k \in Calls, Register(k) \/ CallStep(k) \/ Expire(k)
      PROVE  [Promise!RemoteNext]_(Promise!remoteVars)
  <2>1. UNCHANGED effect
    BY <1>2 DEF Register, CallStep, ChooseConn, Write, WriteFails, Return, Expire, daemonVars
  <2>2. CASE Register(k)
    <3>1. call[k] = "idle" /\ Ends(k, "registered")
      BY <2>2 DEF Register
    <3> QED
      BY <2>1, <3>1, <1>b, <1>c, KnownIs
  <2>3. CASE ChooseConn(k)
    <3>1. call[k] = "registered" /\ (Ends(k, "failed") \/ Ends(k, "chosen"))
      BY <2>3 DEF ChooseConn
    <3> QED
      BY <2>1, <3>1, <1>b, <1>c, KnownIs
  <2>4. CASE Write(k)
    <3>1. call[k] = "chosen" /\ Ends(k, "waits")
      BY <2>4 DEF Write
    <3> QED
      BY <2>1, <3>1, <1>b, <1>c, KnownIs
  <2>5. CASE WriteFails(k)
    <3>1. call[k] = "chosen" /\ Ends(k, "failed")
      BY <2>5 DEF WriteFails
    <3> QED
      BY <2>1, <3>1, <1>b, <1>c, KnownIs
  <2>6. CASE Expire(k)
    <3>1. call[k] = "waits" /\ Ends(k, "failed")
      BY <2>6 DEF Expire
    <3> QED
      BY <2>1, <3>1, <1>b, <1>c, KnownIs
  <2>7. CASE Return(k)
    <3>1. call[k] = "waits" /\ box[k] # <<>> /\ Ends(k, IF Head(box[k]) = "answer" THEN "answered" ELSE "failed")
      BY <2>7 DEF Return
    <3>2. Head(box[k]) = "answer" => effect[k] = 1
      <4>1. box[k] \in Seq({"answer", "error"}) /\ box[k] # <<>> /\ Len(box[k]) <= 1
        BY <1>0, <3>1, ClientTypes DEF LinkInv, CallInv, WaiterOK
      <4>2. 1 \in DOMAIN box[k] /\ box[k][1] = Head(box[k])
        BY <4>1
      <4> QED
        BY <1>0, <4>2 DEF LinkInv, CallInv, OneEffect
    <3>3. CASE Head(box[k]) = "answer"
      <4>1. Ends(k, "answered") /\ effect[k] = 1
        BY <3>1, <3>2, <3>3
      <4> QED
        BY <2>1, <3>1, <4>1, <1>b, <1>c, KnownIs
    <3>4. CASE Head(box[k]) # "answer"
      <4>1. Ends(k, "failed")
        BY <3>1, <3>4
      <4> QED
        BY <2>1, <3>1, <4>1, <1>b, <1>c, KnownIs
    <3> QED
      BY <3>3, <3>4
  <2> QED
    BY <1>2, <2>2, <2>3, <2>4, <2>5, <2>6, <2>7 DEF CallStep
<1>3. ASSUME NEW s \in Socks, NEW k \in Calls, Execute(s, k)
      PROVE  [Promise!RemoteNext]_(Promise!remoteVars)
  <2>1. k \in work[s] /\ effect' = [effect EXCEPT ![k] = @ + 1] /\ UNCHANGED call
    BY <1>3 DEF Execute, callVars
  <2>2. effect[k] = 0 /\ call[k] \in {"waits", "answered", "failed"}
    BY <1>0, <2>1 DEF LinkInv, CallInv, OneEffect
  <2>3. effect' = [effect EXCEPT ![k] = 1]
    BY <2>1, <2>2
  <2>4. Known(call[k]) # "none"
    BY <2>2, KnownIs
  <2>5. Promise!TakeEffect(k)
    BY <2>1, <2>2, <2>3, <2>4 DEF Promise!TakeEffect, Known
  <2> QED
    BY <2>5, <1>c
<1>4. ASSUME \E s \in Socks : Dial(s) \/ Broadcast(s) \/ Break(s) \/ HandlerStep(s) \/ WriterStep(s)
      PROVE  UNCHANGED <<call, effect>>
  BY <1>4 DEF Dial, Broadcast, Break, HandlerStep, WriterStep, Accept, Reject, Greet, Snapshot, Receive,
     Leave, Send, SendFails, callVars, daemonVars
<1>5. ASSUME RunnerStep \/ WatcherStep \/ CancelClient \/ DaemonStops
      PROVE  UNCHANGED <<call, effect>>
  BY <1>5 DEF RunnerStep, WatcherStep, CancelClient, DaemonStops, ReadAuth, AuthFails, ReadMessage, ReadFails,
     Disconnect, DisconnectDrains, RunLeaves, RunEnds, WatcherTakes, WatcherDrains, callVars, daemonVars
<1> QED
  BY <1>1, <1>2, <1>3, <1>4, <1>5, <1>a DEF LinkNext

\* A command takes effect at most once, an answered one took effect exactly once, a call
\* ends once, and one that failed may have taken effect or may do so later (Client.Call,
\* readLoop, disconnect, handleControlRequest): every step of the link is a step of the
\* abstract call or changes nothing of it.
THEOREM LinkKeepsPromise == LinkSpec => KeepsPromise
<1>1. LinkSpec => []LinkInv
  BY InitLink, LinkStepInv, PTL DEF LinkSpec
<1> QED
  BY <1>1, PromiseInit, PromiseStep, PTL DEF LinkSpec, KeepsPromise, Promise!RemoteSpec

=============================================================================
