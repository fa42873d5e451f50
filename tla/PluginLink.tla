------------------------------ MODULE PluginLink ------------------------------
(***************************************************************************)
(* The connection between a daemon and the Prism plugin in the game        *)
(* process of one instance (daemon: supervisor/plugin.go, api/plugin.go;   *)
(* plugin: core/DaemonBridge.java).  The plugin dials, the daemon registers *)
(* it, answers the authentication and sends commands; the plugin runs a    *)
(* command on the platform's scheduler and answers it over the connection  *)
(* it has when the command is done.  The answer carries the number of the  *)
(* request, and the numbers of every connection start at one.              *)
(*                                                                         *)
(* Goroutines of the daemon that send a command are Workers; what a command *)
(* carries and what the plugin does with it is up to the modules that      *)
(* extend this one.                                                        *)
(***************************************************************************)
EXTENDS Naturals, Sequences, FiniteSets

CONSTANTS
    Workers,   \* goroutines of the daemon that send catalogues
    MaxLinks,  \* bound: connections of the plugin
    MaxGames,  \* bound: game processes of the instance
    MaxExpire  \* bound: expired requests, both sides

ASSUME PlConstants == MaxLinks \in Nat /\ MaxGames \in Nat /\ MaxExpire \in Nat

VARIABLES
    game,      \* the game process runs, as its n-th incarnation
    gen,       \* pluginGeneration, not reset by a restart of the daemon
    linked,    \* pluginConnected: the connection gen is current.pluginConnection
    conns,     \* connections whose done channel the daemon has not closed
    sock,      \* the connection DaemonBridge.socket belongs to, 0: none
    authed,    \* DaemonBridge.authenticated
    plWire,      \* what the daemon wrote to the plugin and the plugin has not read
    platform,  \* commands the platform's scheduler still has to run
    answers,   \* answers on their way to the daemon
    seq,       \* sequence of each connection
    plWork,      \* what a worker does
    expired    \* how many requests expired

plVars == <<game, gen, linked, conns, sock, authed, plWire, platform, answers, seq, plWork, expired>>

Links   == 1 .. MaxLinks
NoCmd   == [link |-> 0, num |-> 0]
Nothing == [rev |-> 0]
AuthOk   == [link |-> 0, num |-> 0, cat |-> Nothing, late |-> FALSE]  \* auth.result
IdleWork == [at |-> "idle", cat |-> Nothing, link |-> 0, num |-> 0, by |-> NoCmd]

PlInit ==
    /\ game = [on |-> FALSE, n |-> 0]
    /\ gen = 0
    /\ linked = FALSE
    /\ conns = {}
    /\ sock = 0
    /\ authed = FALSE
    /\ plWire = <<>>
    /\ platform = {}
    /\ answers = {}
    /\ seq = [l \in Links |-> 0]
    /\ plWork = [w \in Workers |-> IdleWork]
    /\ expired \in {0, MaxExpire}

-----------------------------------------------------------------------------
(* The plugin's side of the connection.                                    *)

\* DaemonBridge.handleDisconnect, and what was on its way is lost.
Disconnected ==
    /\ sock' = 0
    /\ authed' = FALSE
    /\ plWire' = <<>>
    /\ answers' = {}

\* connect, onOpen and sendAuthentication here, RegisterPlugin there: the
\* connection gets the next generation and the daemon writes auth.result
\* before it starts to write commands.
Registers ==
    /\ game.on
    /\ sock = 0
    /\ gen < MaxLinks
    /\ gen' = gen + 1
    /\ linked' = TRUE
    /\ conns' = conns \cup {gen + 1}
    /\ sock' = gen + 1
    /\ plWire' = <<AuthOk>>
    /\ UNCHANGED <<game, authed, platform, answers, seq, expired>>

\* handleAuthenticationResult.
AuthRead ==
    /\ plWire # <<>>
    /\ Head(plWire) = AuthOk
    /\ authed' = TRUE
    /\ plWire' = Tail(plWire)
    /\ UNCHANGED <<game, gen, linked, conns, sock, platform, answers, seq, plWork, expired>>

\* handleMessage and handleCommand: an authenticated plugin hands the command
\* to the platform.
CommandRead ==
    /\ plWire # <<>>
    /\ Head(plWire) # AuthOk
    /\ platform' = IF authed THEN platform \cup {Head(plWire)} ELSE platform
    /\ plWire' = Tail(plWire)
    /\ UNCHANGED <<game, gen, linked, conns, sock, authed, answers, seq, plWork, expired>>

\* sendResponse: over the connection of this moment, if there is one.
Answered(c, ok) ==
    answers' = IF sock # 0 /\ authed THEN answers \cup {[cmd |-> [link |-> c.link, num |-> c.num], ok |-> ok]}
                                     ELSE answers

\* orTimeout: the command is answered with an error and runs later.
CommandExpires(c) ==
    /\ c \in platform
    /\ ~c.late
    /\ expired < MaxExpire
    /\ expired' = expired + 1
    /\ platform' = (platform \ {c}) \cup {[c EXCEPT !.late = TRUE]}
    /\ Answered(c, FALSE)
    /\ UNCHANGED <<game, gen, linked, conns, sock, authed, plWire, seq, plWork>>

\* The command has run: its future completes unless it expired.
CommandRuns(c, ok) ==
    /\ c \in platform
    /\ platform' = platform \ {c}
    /\ IF c.late THEN UNCHANGED answers ELSE Answered(c, ok)
    /\ UNCHANGED <<game, gen, linked, conns, sock, authed, plWire, seq, plWork, expired>>

LinkBreaks ==
    /\ sock # 0
    /\ Disconnected
    /\ UNCHANGED <<game, gen, linked, conns, platform, seq, plWork, expired>>

-----------------------------------------------------------------------------
(* The daemon's side.                                                      *)

\* PluginConnection.Close when the handler of a broken connection ends.
Closes(l) ==
    /\ l \in conns \ {sock}
    /\ conns' = conns \ {l}
    /\ linked' = IF l = gen THEN FALSE ELSE linked
    /\ UNCHANGED <<game, gen, sock, authed, plWire, platform, answers, seq, plWork, expired>>

\* Request: the command gets its number and goes to the writer.  The channel of
\* 64 never fills with the few workers of an instance.
Sends(w) ==
    /\ plWork[w].at = "send"
    /\ LET l == plWork[w].link  n == seq[l] + 1 IN
         IF l \in conns
           THEN /\ seq' = [seq EXCEPT ![l] = n]
                /\ plWork' = [plWork EXCEPT ![w].at = "wait", ![w].num = n]
                /\ plWire' = IF l = sock
                             THEN Append(plWire, [link |-> l, num |-> n, cat |-> plWork[w].cat, late |-> FALSE])
                             ELSE plWire
           ELSE /\ plWork' = [plWork EXCEPT ![w].at = "failed"]
                /\ UNCHANGED <<seq, plWire>>
    /\ UNCHANGED <<game, gen, linked, conns, sock, authed, platform, answers, expired>>

\* HandleResponse: the request of this connection with the number of the answer.
Waits(a) == {w \in Workers : plWork[w].at = "wait" /\ plWork[w].link = sock /\ plWork[w].num = a.cmd.num}

HandleResponse(a) ==
    /\ a \in answers
    /\ answers' = answers \ {a}
    /\ plWork' = [w \in Workers |->
                    IF w \in Waits(a)
                      THEN [plWork[w] EXCEPT !.at = IF a.ok THEN "ok" ELSE "failed", !.by = a.cmd]
                      ELSE plWork[w]]
    /\ UNCHANGED <<game, gen, linked, conns, sock, authed, plWire, platform, seq, expired>>

\* The connection is closed, or the context of the request ends.
RequestFails(w) ==
    /\ plWork[w].at = "wait"
    /\ \/ plWork[w].link \notin conns /\ UNCHANGED expired
       \/ expired < MaxExpire /\ expired' = expired + 1
    /\ plWork' = [plWork EXCEPT ![w].at = "failed"]
    /\ UNCHANGED <<game, gen, linked, conns, sock, authed, plWire, platform, answers, seq>>

LinkStep ==
    \/ AuthRead
    \/ CommandRead
    \/ \E w \in Workers : Sends(w) \/ RequestFails(w)
    \/ \E a \in answers : HandleResponse(a)

\* The next goroutine; which one it is makes no difference.
FreeWorkers == {w \in Workers : plWork[w].at = "idle"}
FreeWorker  == CHOOSE w \in FreeWorkers : TRUE

\* It begins with the catalogue cat.
Spawn(cat) ==
    /\ FreeWorkers # {}
    /\ plWork' = [plWork EXCEPT ![FreeWorker] = [IdleWork EXCEPT !.at = "begin", !.cat = cat]]

-----------------------------------------------------------------------------
(* Processes start and end.                                                *)

GameStarts ==
    /\ ~game.on
    /\ game.n < MaxGames
    /\ game' = [on |-> TRUE, n |-> game.n + 1]
    /\ UNCHANGED <<gen, linked, conns, sock, authed, plWire, platform, answers, seq, plWork, expired>>

\* The process exits and finishSession closes its connection.
GameEnds ==
    /\ game.on
    /\ game' = [game EXCEPT !.on = FALSE]
    /\ Disconnected
    /\ platform' = {}
    /\ conns' = conns \ {gen}
    /\ linked' = FALSE
    /\ UNCHANGED <<gen, seq, plWork, expired>>

\* The daemon restarts; the game process goes on under sessiond.
LinkForgotten ==
    /\ Disconnected
    /\ conns' = {}
    /\ linked' = FALSE
    /\ plWork' = [w \in Workers |-> IdleWork]
    /\ UNCHANGED <<game, gen, platform, seq, expired>>
-----------------------------------------------------------------------------
\* No command is lost to a plugin that does not know yet that it is
\* authenticated (handleMessage drops what comes before auth.result).
AuthComesFirst == plWire # <<>> /\ Head(plWire) # AuthOk => authed

\* "the same request_id is completed once" (docs, 5.3): a request ends with the
\* answer to it, not with that to the same number of an earlier connection.
AnswersMatch ==
    \A w \in Workers : plWork[w].at = "ok" => plWork[w].by = [link |-> plWork[w].link, num |-> plWork[w].num]
=============================================================================
