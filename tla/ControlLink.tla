------------------------------ MODULE ControlLink ------------------------------
(***************************************************************************)
(* The control connection of a panel to one daemon: the Client of the      *)
(* panel (panel/internal/daemon/client.go) and the server and hub of the   *)
(* daemon (daemon/internal/api/server.go, hub.go).                         *)
(*                                                                         *)
(* Client.Run dials, authenticates and reads messages until the connection *)
(* ends, again and again until its context is cancelled.  Calls register a *)
(* waiter in the pending map, write their request and wait; the reader     *)
(* gives each its answer, disconnect gives an error to all that wait.  On  *)
(* the daemon a goroutine per connection reads requests, a goroutine per   *)
(* request executes it, and everything that is sent goes through a queue   *)
(* of limited length: a panel that does not keep up loses its connection.  *)
(*                                                                         *)
(* A message is "auth" (auth.result), "event" (broadcasts and snapshots)   *)
(* or the call it answers.  A socket identity is reused when nothing       *)
(* refers to it any more.  Request ids are random, so a call is its id.    *)
(***************************************************************************)
EXTENDS Naturals, Sequences, FiniteSets, SequencesExt

CONSTANTS
    Calls,      \* calls, each with its own request id
    Socks,      \* identities of websocket connections
    NoSock,
    QueueLimit, \* capacity of controlClient.send (256)
    WireLimit   \* messages the network holds for a panel that does not read

ASSUME LinkConstants ==
    /\ NoSock \notin Socks
    /\ {"auth", "event"} \cap Calls = {}
    /\ QueueLimit \in Nat \ {0}
    /\ WireLimit \in Nat \ {0}

VARIABLES
    call,      \* where a Call is
    via,       \* the connection it writes to
    box,       \* its channel of capacity one
    pending,   \* Client.pending
    runner,    \* where Client.Run is
    local,     \* the connection connect() works with
    conn,      \* Client.conn (connected is conn # NoSock)
    watcher,   \* the goroutine of Run that waits for the context
    ctxDone, \* the client's context
    shut,      \* sockets the panel closed
    broken,    \* sockets the network lost
    up,        \* requests on their way to the daemon
    wire,      \* messages on their way to the panel
    server,    \* handleControl of a socket
    done,      \* controlClient.done and its socket are closed
    hub,       \* controlHub.clients
    queue,     \* controlClient.send
    work,      \* handleControlRequest goroutines
    effect     \* how often the command of a call was executed

callVars   == <<call, via, box, pending>>
clientVars == <<runner, local, conn, watcher, ctxDone>>
netVars    == <<shut, broken, up, wire>>
daemonVars == <<server, done, hub, queue, work, effect>>
linkVars   == <<callVars, clientVars, netVars, daemonVars>>

Messages == {"auth", "event"} \cup Calls

LinkTypeOK ==
    /\ call \in [Calls -> {"idle", "registered", "chosen", "waits", "answered", "failed"}]
    /\ via \in [Calls -> Socks \cup {NoSock}]
    /\ box \in [Calls -> Seq({"answer", "error"})]
    /\ pending \subseteq Calls
    /\ runner \in {"dials", "asks", "reads", "closes", "drains", "leaves", "ended"}
    /\ local \in Socks \cup {NoSock}
    /\ conn \in Socks \cup {NoSock}
    /\ watcher \in {"waits", "drains", "ended"}
    /\ ctxDone \in BOOLEAN
    /\ shut \subseteq Socks
    /\ broken \subseteq Socks
    /\ up \in [Socks -> SUBSET Calls]
    /\ wire \in [Socks -> Seq(Messages)]
    /\ \A s \in Socks : Len(wire[s]) <= WireLimit
    /\ server \in [Socks -> {"left", "upgraded", "added", "greeted", "serves"}]
    /\ done \subseteq Socks
    /\ hub \subseteq Socks
    /\ queue \in [Socks -> Seq(Messages)]
    /\ \A s \in Socks : Len(queue[s]) <= QueueLimit
    /\ work \in [Socks -> SUBSET Calls]
    /\ effect \in [Calls -> Nat]

LinkInit ==
    /\ call = [k \in Calls |-> "idle"]
    /\ via = [k \in Calls |-> NoSock]
    /\ box = [k \in Calls |-> <<>>]
    /\ pending = {}
    /\ runner = "dials"
    /\ local = NoSock
    /\ conn = NoSock
    /\ watcher = "waits"
    /\ ctxDone = FALSE
    /\ shut = Socks
    /\ broken = {}
    /\ up = [s \in Socks |-> {}]
    /\ wire = [s \in Socks |-> <<>>]
    /\ server = [s \in Socks |-> "left"]
    /\ done = Socks
    /\ hub = {}
    /\ queue = [s \in Socks |-> <<>>]
    /\ work = [s \in Socks |-> {}]
    /\ effect = [k \in Calls |-> 0]

-----------------------------------------------------------------------------
(* Client.Call.                                                            *)

Ends(k, how) == call' = [call EXCEPT ![k] = how]

\* The waiter is registered before the client looks for a connection.
Register(k) ==
    /\ call[k] = "idle"
    /\ Ends(k, "registered")
    /\ pending' = pending \cup {k}
    /\ UNCHANGED <<via, box, clientVars, netVars, daemonVars>>

ChooseConn(k) ==
    /\ call[k] = "registered"
    /\ IF conn = NoSock
         THEN /\ Ends(k, "failed")
              /\ pending' = pending \ {k}
              /\ UNCHANGED via
         ELSE /\ Ends(k, "chosen")
              /\ via' = [via EXCEPT ![k] = conn]
              /\ UNCHANGED pending
    /\ UNCHANGED <<box, clientVars, netVars, daemonVars>>

\* A request written to a connection the network has lost goes nowhere.
Write(k) ==
    /\ call[k] = "chosen"
    /\ via[k] \notin shut
    /\ Ends(k, "waits")
    /\ up' = [up EXCEPT ![via[k]] = IF via[k] \in broken \cup done THEN @ ELSE @ \cup {k}]
    /\ UNCHANGED <<via, box, pending, clientVars, shut, broken, wire, daemonVars>>

WriteFails(k) ==
    /\ call[k] = "chosen"
    /\ via[k] \in shut \cup broken \cup done
    /\ Ends(k, "failed")
    /\ pending' = pending \ {k}
    /\ UNCHANGED <<via, box, clientVars, netVars, daemonVars>>

Return(k) ==
    /\ call[k] = "waits"
    /\ box[k] # <<>>
    /\ Ends(k, IF Head(box[k]) = "answer" THEN "answered" ELSE "failed")
    /\ box' = [box EXCEPT ![k] = Tail(@)]
    /\ UNCHANGED <<via, pending, clientVars, netVars, daemonVars>>

\* The caller's context ends.
Expire(k) ==
    /\ call[k] = "waits"
    /\ Ends(k, "failed")
    /\ pending' = pending \ {k}
    /\ UNCHANGED <<via, box, clientVars, netVars, daemonVars>>

-----------------------------------------------------------------------------
(* Client.Run, connect, readLoop and disconnect.                           *)

\* Nothing refers to the socket any more; its identity can be used again.
FreeSock(s) ==
    /\ server[s] = "left"
    /\ s \notin {local, conn}
    /\ work[s] = {}
    /\ \A k \in Calls : call[k] \in {"chosen", "waits"} => via[k] # s

\* A dial that fails leaves Run where it is.
Dial(s) ==
    /\ runner = "dials"
    /\ ~ctxDone
    /\ FreeSock(s)
    /\ runner' = "asks"
    /\ local' = s
    /\ server' = [server EXCEPT ![s] = "upgraded"]
    /\ shut' = shut \ {s}
    /\ done' = done \ {s}
    /\ UNCHANGED <<callVars, conn, watcher, ctxDone, broken, up, wire, hub, queue, work, effect>>

Received(s) == wire' = [wire EXCEPT ![s] = Tail(@)]

\* The first message has to be the result of the authentication. Nobody looks
\* at the context again before the connection becomes the client's.
ReadAuth ==
    /\ runner = "asks"
    /\ wire[local] # <<>>
    /\ Head(wire[local]) = "auth"
    /\ Received(local)
    /\ conn' = local
    /\ runner' = "reads"
    /\ UNCHANGED <<callVars, local, watcher, ctxDone, shut, broken, up, daemonVars>>

\* conn.Close of the panel: what the daemon has queued or will queue is lost.
ShutSock(socks) ==
    /\ shut' = shut \cup socks
    /\ queue' = [s \in Socks |-> IF s \in socks THEN <<>> ELSE queue[s]]

\* Another message came first, the daemon refused, or ten seconds are over.
AuthFails ==
    /\ runner = "asks"
    /\ ShutSock({local})
    /\ wire' = [wire EXCEPT ![local] = <<>>]
    /\ local' = NoSock
    /\ runner' = "dials"
    /\ UNCHANGED <<callVars, conn, watcher, ctxDone, broken, up, server, done, hub, work, effect>>

ReadMessage ==
    /\ runner = "reads"
    /\ local \notin broken
    /\ wire[local] # <<>>
    /\ Received(local)
    /\ LET m == Head(wire[local])
       IN /\ pending' = pending \ {m}
          /\ box' = IF m \in pending THEN [box EXCEPT ![m] = Append(@, "answer")] ELSE box
    /\ UNCHANGED <<call, via, clientVars, shut, broken, up, daemonVars>>

\* The panel or the daemon closed the socket, or the network lost it; what the
\* daemon sent before may be read or not.
ReadFails ==
    /\ runner = "reads"
    /\ local \in shut \cup broken \cup done
    /\ runner' = "closes"
    /\ UNCHANGED <<callVars, local, conn, watcher, ctxDone, netVars, daemonVars>>

\* disconnect under Client.mu: the client has no connection any more.
TakeConn ==
    /\ conn' = NoSock
    /\ ShutSock({conn} \ {NoSock})

\* disconnect under Client.pendingMu, and the errors it sends.
DrainPending ==
    /\ pending' = {}
    /\ box' = [k \in Calls |-> IF k \in pending THEN Append(box[k], "error") ELSE box[k]]

\* Mutant: disconnect forgets the waiters.
DisconnectQuietly ==
    /\ runner = "closes"
    /\ local' = NoSock
    /\ wire' = [wire EXCEPT ![local] = <<>>]
    /\ runner' = "dials"
    /\ IF conn = local THEN TakeConn ELSE UNCHANGED <<conn, shut, queue>>
    /\ UNCHANGED <<callVars, watcher, ctxDone, broken, up, server, done, hub, work, effect>>

\* disconnect(conn) does nothing if the watcher was there before.
Disconnect ==
    /\ runner = "closes"
    /\ local' = NoSock
    /\ wire' = [wire EXCEPT ![local] = <<>>]
    /\ IF conn = local
         THEN TakeConn /\ runner' = "drains"
         ELSE runner' = "dials" /\ UNCHANGED <<conn, shut, queue>>
    /\ UNCHANGED <<callVars, watcher, ctxDone, broken, up, server, done, hub, work, effect>>

DisconnectDrains ==
    /\ runner = "drains"
    /\ DrainPending
    /\ runner' = "dials"
    /\ UNCHANGED <<call, via, local, conn, watcher, ctxDone, netVars, daemonVars>>

\* Run sees that its context is over: disconnect(nil) drains even without a
\* connection.
RunLeaves ==
    /\ runner = "dials"
    /\ ctxDone
    /\ TakeConn
    /\ runner' = "leaves"
    /\ UNCHANGED <<callVars, local, watcher, ctxDone, broken, up, wire, server, done, hub, work, effect>>

RunEnds ==
    /\ runner = "leaves"
    /\ DrainPending
    /\ runner' = "ended"
    /\ UNCHANGED <<call, via, local, conn, watcher, ctxDone, netVars, daemonVars>>

\* Manager.Remove, Upsert and Close.
CancelClient ==
    /\ ~ctxDone
    /\ ctxDone' = TRUE
    /\ UNCHANGED <<callVars, runner, local, conn, watcher, netVars, daemonVars>>

WatcherTakes ==
    /\ ctxDone
    /\ watcher = "waits"
    /\ TakeConn
    /\ watcher' = "drains"
    /\ UNCHANGED <<callVars, runner, local, ctxDone, broken, up, wire, server, done, hub, work, effect>>

WatcherDrains ==
    /\ watcher = "drains"
    /\ DrainPending
    /\ watcher' = "ended"
    /\ UNCHANGED <<call, via, runner, local, conn, ctxDone, netVars, daemonVars>>

-----------------------------------------------------------------------------
(* The daemon: controlClient, controlHub and handleControl.                *)

\* controlClient.close: nothing that is still queued can be written, and what
\* the network did to the connection does not matter any more.
Close(s) ==
    /\ done' = done \cup {s}
    /\ queue' = [queue EXCEPT ![s] = <<>>]
    /\ broken' = broken \ {s}

\* Mutant: a message that finds the queue full is dropped.
EnqueueDropping(s, m) ==
    /\ queue' = [queue EXCEPT ![s] = IF s \in done \/ Len(@) = QueueLimit THEN @ ELSE Append(@, m)]
    /\ UNCHANGED <<done, broken>>

\* controlClient.enqueue: a full queue closes the connection.
Enqueue(s, m) ==
    IF s \in done \/ Len(queue[s]) = QueueLimit
      THEN Close(s)
      ELSE /\ queue' = [queue EXCEPT ![s] = IF s \in shut THEN @ ELSE Append(@, m)]
           /\ UNCHANGED <<done, broken>>

Moves(s, to) == server' = [server EXCEPT ![s] = to]

\* The token is right: the client enters the hub before it is answered, and
\* broadcasts reach it from now on.
Accept(s) ==
    /\ server[s] = "upgraded"
    /\ s \notin broken
    /\ Moves(s, "added")
    /\ hub' = hub \cup {s}
    /\ UNCHANGED <<callVars, clientVars, netVars, done, queue, work, effect>>

\* The token is wrong, or did not come within five seconds.
Reject(s) ==
    /\ server[s] = "upgraded"
    /\ Moves(s, "left")
    /\ Close(s)
    /\ UNCHANGED <<callVars, clientVars, shut, up, wire, hub, work, effect>>

\* auth.result, after capabilities() asked the firewall.
Greet(s) ==
    /\ server[s] = "added"
    /\ Moves(s, "greeted")
    /\ Enqueue(s, "auth")
    /\ UNCHANGED <<callVars, clientVars, shut, up, wire, hub, work, effect>>

Snapshot(s) ==
    /\ server[s] = "greeted"
    /\ Moves(s, "serves")
    /\ Enqueue(s, "event")
    /\ UNCHANGED <<callVars, clientVars, shut, up, wire, hub, work, effect>>

\* A goroutine for every request.
Receive(s, k) ==
    /\ server[s] = "serves"
    /\ s \notin done \cup broken
    /\ k \in up[s]
    /\ up' = [up EXCEPT ![s] = @ \ {k}]
    /\ work' = [work EXCEPT ![s] = @ \cup {k}]
    /\ UNCHANGED <<callVars, clientVars, shut, broken, wire, server, done, hub, queue, effect>>

\* Mutant: a request stays to be executed once more.
ExecuteAgain(s, k) ==
    /\ k \in work[s]
    /\ effect[k] < 2
    /\ effect' = [effect EXCEPT ![k] = @ + 1]
    /\ Enqueue(s, k)
    /\ UNCHANGED <<callVars, clientVars, shut, up, wire, server, hub, work>>

\* handleControlRequest: the command and its answer, an error included.
Execute(s, k) ==
    /\ k \in work[s]
    /\ work' = [work EXCEPT ![s] = @ \ {k}]
    /\ effect' = [effect EXCEPT ![k] = @ + 1]
    /\ Enqueue(s, k)
    /\ UNCHANGED <<callVars, clientVars, shut, up, wire, server, hub>>

\* hub.broadcast, as far as one client is concerned: one that cannot take the
\* message leaves the hub. The queue of a closed client may still take it.
Broadcast(s) ==
    /\ s \in hub
    /\ Enqueue(s, "event")
    /\ \/ s \in done' /\ hub' = hub \ {s}
       \/ (s \in done \/ s \notin done') /\ UNCHANGED hub
    /\ UNCHANGED <<callVars, clientVars, shut, up, wire, server, work, effect>>

\* controlClient.writeLoop, which lives as long as the connection.
Send(s) ==
    /\ s \notin done \cup broken \cup shut
    /\ queue[s] # <<>>
    /\ Len(wire[s]) < WireLimit
    /\ queue' = [queue EXCEPT ![s] = Tail(@)]
    /\ wire' = [wire EXCEPT ![s] = Append(@, Head(queue[s]))]
    /\ UNCHANGED <<callVars, clientVars, shut, broken, up, server, done, hub, work, effect>>

\* The panel is gone, or does not read for ten seconds; a ping finds out too.
SendFails(s) ==
    /\ server[s] \in {"added", "greeted", "serves"}
    /\ s \notin done
    /\ \/ s \in broken \cup shut
       \/ queue[s] # <<>> /\ Len(wire[s]) = WireLimit
    /\ Close(s)
    /\ UNCHANGED <<callVars, clientVars, shut, up, wire, server, hub, work, effect>>

\* The read of the next request fails, with or without the requests that were
\* on their way; the deferred hub.remove.
Leave(s) ==
    /\ server[s] = "serves"
    /\ s \in done \cup broken \cup shut
    /\ Moves(s, "left")
    /\ Close(s)
    /\ up' = [up EXCEPT ![s] = {}]
    /\ hub' = hub \ {s}
    /\ UNCHANGED <<callVars, clientVars, shut, wire, work, effect>>

\* The daemon exits: its commands are cut off, its sockets are closed.
DaemonStops ==
    /\ \E s \in Socks : server[s] # "left"
    /\ server' = [s \in Socks |-> "left"]
    /\ done' = Socks
    /\ broken' = {}
    /\ hub' = {}
    /\ queue' = [s \in Socks |-> <<>>]
    /\ work' = [s \in Socks |-> {}]
    /\ up' = [s \in Socks |-> {}]
    /\ UNCHANGED <<callVars, clientVars, shut, wire, effect>>

\* The network loses a connection with everything that is on its way.
Break(s) ==
    /\ s \notin shut \cup done \cup broken
    /\ broken' = broken \cup {s}
    /\ up' = [up EXCEPT ![s] = {}]
    /\ wire' = [wire EXCEPT ![s] = <<>>]
    /\ UNCHANGED <<callVars, clientVars, shut, daemonVars>>

-----------------------------------------------------------------------------
CallStep(k) == ChooseConn(k) \/ Write(k) \/ WriteFails(k) \/ Return(k)

RunnerStep ==
    \/ ReadAuth
    \/ AuthFails
    \/ ReadMessage
    \/ ReadFails
    \/ Disconnect
    \/ DisconnectDrains
    \/ RunLeaves
    \/ RunEnds

WatcherStep == WatcherTakes \/ WatcherDrains

HandlerStep(s) ==
    \/ Accept(s)
    \/ Reject(s)
    \/ Greet(s)
    \/ Snapshot(s)
    \/ \E k \in Calls : Receive(s, k)
    \/ Leave(s)

WriterStep(s)  == Send(s) \/ SendFails(s)

LinkNext ==
    \/ \E k \in Calls : Register(k) \/ CallStep(k) \/ Expire(k)
    \/ \E s \in Socks : Dial(s) \/ Broadcast(s) \/ Break(s)
    \/ \E s \in Socks : HandlerStep(s) \/ WriterStep(s)
    \/ \E s \in Socks, k \in Calls : Execute(s, k)
    \/ RunnerStep
    \/ WatcherStep
    \/ CancelClient
    \/ DaemonStops

LinkSpec == LinkInit /\ [][LinkNext]_linkVars

\* Every goroutine of the panel and of the daemon goes on while it can.
LinkFairness ==
    /\ \A k \in Calls : WF_linkVars(CallStep(k))
    /\ WF_linkVars(RunnerStep)
    /\ WF_linkVars(WatcherStep)
    /\ \A s \in Socks :
         /\ WF_linkVars(HandlerStep(s))
         /\ WF_linkVars(WriterStep(s))
         /\ \A k \in Calls : WF_linkVars(Execute(s, k))

FairLinkSpec == LinkSpec /\ LinkFairness

-----------------------------------------------------------------------------
(* Properties.                                                             *)

\* Somebody is between taking the connection and draining the pending map.
Draining == runner \in {"drains", "leaves"} \/ watcher = "drains"

\* The panel is going to notice that the connection is over.
Closing(s) == s \in shut \cup broken \cup done

\* A call that waits cannot be forgotten: its request or its answer is on its
\* way, or its connection is over and the reader, which will notice, has not
\* drained the waiters yet, or somebody is about to (Call, readLoop,
\* disconnect, controlClient.enqueue: a refused answer closes the connection).
NobodyIsForgotten ==
    \A k \in Calls :
        call[k] = "waits" /\ box[k] = <<>> =>
            /\ k \in pending
            /\ Draining \/ conn = via[k]
            /\ LET s == via[k]
               IN \/ Closing(s)
                  \/ k \in up[s] \cup work[s]
                  \/ k \in ToSet(queue[s]) \cup ToSet(wire[s])
                  \/ Draining

\* A waiter never gets a second result: the channel holds one, and readLoop
\* or disconnect would block for ever on a second.
OneResult == \A k \in Calls : Len(box[k]) <= 1

\* Without any deadline a call ends: with its answer, or because the
\* connection it used is over (Call, disconnect).
CallsEnd ==
    \A k \in Calls : []<>(call[k] \in {"idle", "answered", "failed"})

\* The hub only holds connections whose handler is still there to remove them:
\* one that is over does not stay to be broadcast to and counted (handleControl,
\* broadcast).
HubIsServed == \A s \in hub : server[s] # "left"

\* The types with the limits of the queues, and what a waiter, its result and the
\* members of the hub have to do with each other (readLoop, enqueue,
\* handleControl).
WaitersAreServed == LinkTypeOK /\ OneResult /\ HubIsServed /\ NobodyIsForgotten

\* The link keeps the promise of RemoteCall.
Promise == INSTANCE RemoteCall WITH
    outcome <- [k \in Calls |->
                  CASE call[k] = "idle"     -> "none"
                    [] call[k] = "answered" -> "answer"
                    [] call[k] = "failed"   -> "error"
                    [] OTHER                -> "open"],
    effects <- effect

\* A command takes effect at most once, and only an executed one is answered,
\* whatever connections end, queues overflow and processes stop meanwhile.
KeepsPromise == Promise!RemoteSpec
=============================================================================
