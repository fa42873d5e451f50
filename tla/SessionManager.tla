--------------------------- MODULE SessionManager ---------------------------
(***************************************************************************)
(* prism-sessiond: the local service that owns the game processes          *)
(* (sessiond/internal/service and sessiond/internal/host).                 *)
(*                                                                         *)
(* A daemon goroutine asks it to start, inspect or kill the session of an  *)
(* instance.  A session has a SessionHost: the child process, a listener   *)
(* on a socket path derived from the instance id, a state file, and four   *)
(* goroutines (the exit waiter, the service's watch, the socket cleanup    *)
(* and the orphan watch) that run in no fixed order.                       *)
(*                                                                         *)
(* A host keeps its mutex m over two calls that may wait: the write to the *)
(* process's stdin, and the sends that fill the channel of a subscriber    *)
(* that comes after the exit.                                              *)
(*                                                                         *)
(* Time is abstracted: a process may exit at any moment, and a host with   *)
(* no client may be found orphaned at any moment.  Session identities are  *)
(* recycled once nothing refers to them, which keeps the model finite.     *)
(***************************************************************************)
EXTENDS Naturals, FiniteSets

CONSTANTS
    Instances,       \* instance ids
    Hosts,           \* session hosts, one per spawned process
    Callers,         \* connections of the manager socket, one request each
    NoHost,          \* "no entry"
    NoInstance,
    SerialStarts,    \* TRUE: the daemon sends one session.start per instance at a time
    MaxClients,      \* bound on simultaneous clients of a host
    MaxStuck,        \* bound on hosts that wait with their mutex held
    MaxServiceCrash  \* bound on crashes of prism-sessiond itself

ASSUME SessionConstants ==
    /\ NoHost \notin Hosts
    /\ NoInstance \notin Instances
    /\ SerialStarts \in BOOLEAN
    /\ MaxClients \in Nat
    /\ MaxStuck \in Nat
    /\ MaxServiceCrash \in Nat

VARIABLES
    sessions,   \* Service.sessions: instance -> host
    listening,  \* which host answers on SocketPath(instance)
    stateFile,  \* which host StatePath(instance) describes
    phase,      \* SessionHost.exited / done
    inst,       \* SessionHost.instanceID
    alive,      \* hosts whose child process runs
    doomed,     \* running children that were sent a kill
    watchers,   \* hosts whose Service.watch goroutine is still pending
    cleaners,   \* hosts whose socket cleanup goroutine is still pending
    clients,    \* SessionHost.clients
    cpc,        \* program counter of the handler of Service.start
    cinst,      \* its frame.Instance
    chost,      \* its item
    svcCrashes, \* crashes of the service so far
    stuck       \* hosts where a goroutine waits with SessionHost.mu held

callerVars == <<cpc, cinst, chost>>
hostVars   == <<phase, inst, alive, doomed, watchers, cleaners, clients>>
fileVars   == <<sessions, listening, stateFile>>
sessVars   == <<fileVars, hostVars, callerVars, svcCrashes, stuck>>

Phases    == {"unused", "serving", "exited", "done", "lost"}
CallerPCs == {"idle", "spawn", "insert", "replied", "failed"}

SessTypeOK ==
    /\ sessions \in [Instances -> Hosts \cup {NoHost}]
    /\ listening \in [Instances -> Hosts \cup {NoHost}]
    /\ stateFile \in [Instances -> Hosts \cup {NoHost}]
    /\ phase \in [Hosts -> Phases]
    /\ inst \in [Hosts -> Instances \cup {NoInstance}]
    /\ alive \subseteq Hosts
    /\ doomed \subseteq Hosts
    /\ watchers \subseteq Hosts
    /\ cleaners \subseteq Hosts
    /\ clients \in [Hosts -> Nat]
    /\ cpc \in [Callers -> CallerPCs]
    /\ cinst \in [Callers -> Instances \cup {NoInstance}]
    /\ chost \in [Callers -> Hosts \cup {NoHost}]
    /\ svcCrashes \in Nat
    /\ stuck \subseteq Hosts

SessInit ==
    /\ sessions = [i \in Instances |-> NoHost]
    /\ listening = [i \in Instances |-> NoHost]
    /\ stateFile = [i \in Instances |-> NoHost]
    /\ phase = [h \in Hosts |-> "unused"]
    /\ inst = [h \in Hosts |-> NoInstance]
    /\ alive = {}
    /\ doomed = {}
    /\ watchers = {}
    /\ cleaners = {}
    /\ clients = [h \in Hosts |-> 0]
    /\ cpc = [c \in Callers |-> "idle"]
    /\ cinst = [c \in Callers |-> NoInstance]
    /\ chost = [c \in Callers |-> NoHost]
    /\ svcCrashes = 0
    /\ stuck = {}

-----------------------------------------------------------------------------
(* Service.start: the map is checked and released before the process is    *)
(* created, and locked again to insert the host.                           *)

\* A handler of session.start for instance i is between its check and its insert.
Starting(i) == \E c \in Callers : cinst[c] = i /\ cpc[c] \in {"spawn", "insert"}

\* A host nothing refers to any more: its identity may be used for a new session.
Recyclable(h) ==
    /\ phase[h] \in {"unused", "done"}
    /\ h \notin alive \cup watchers \cup cleaners \cup stuck
    /\ clients[h] = 0
    /\ \A c \in Callers : chost[c] # h

\* Mutant: the existing entry is not looked up.
StartRequestUnchecked(c, i) ==
    /\ cpc[c] = "idle"
    /\ cinst' = [cinst EXCEPT ![c] = i]
    /\ cpc' = [cpc EXCEPT ![c] = "spawn"]
    /\ UNCHANGED <<fileVars, hostVars, chost, svcCrashes, stuck>>

StartRequest(c, i) ==
    /\ cpc[c] = "idle"
    /\ cinst' = [cinst EXCEPT ![c] = i]
    /\ IF sessions[i] # NoHost
         THEN /\ cpc' = [cpc EXCEPT ![c] = "replied"]
              /\ chost' = [chost EXCEPT ![c] = sessions[i]]
         ELSE /\ cpc' = [cpc EXCEPT ![c] = "spawn"]
              /\ UNCHANGED chost
    /\ UNCHANGED <<fileVars, hostVars, svcCrashes, stuck>>

\* host.Start: the child runs, its state file is written, its socket listens.
\* Listen removes whatever is at the path first.
Spawn(c) ==
    /\ cpc[c] = "spawn"
    /\ \E h \in Hosts :
        /\ Recyclable(h)
        /\ phase' = [phase EXCEPT ![h] = "serving"]
        /\ inst' = [inst EXCEPT ![h] = cinst[c]]
        /\ alive' = alive \cup {h}
        /\ cleaners' = cleaners \cup {h}
        /\ listening' = [listening EXCEPT ![cinst[c]] = h]
        /\ stateFile' = [stateFile EXCEPT ![cinst[c]] = h]
        /\ chost' = [chost EXCEPT ![c] = h]
    /\ cpc' = [cpc EXCEPT ![c] = "insert"]
    /\ UNCHANGED <<sessions, doomed, watchers, clients, cinst, svcCrashes, stuck>>

\* host.Start fails; a child that was already created is killed on the way out.
SpawnFails(c) ==
    /\ cpc[c] = "spawn"
    /\ cpc' = [cpc EXCEPT ![c] = "failed"]
    /\ UNCHANGED <<fileVars, hostVars, cinst, chost, svcCrashes, stuck>>

Insert(c) ==
    /\ cpc[c] = "insert"
    /\ sessions' = [sessions EXCEPT ![cinst[c]] = chost[c]]
    /\ watchers' = watchers \cup {chost[c]}
    /\ cpc' = [cpc EXCEPT ![c] = "replied"]
    /\ UNCHANGED <<listening, stateFile, phase, inst, alive, doomed, cleaners,
                   clients, cinst, chost, svcCrashes, stuck>>

\* The reply is written (or the caller is gone) and the handler is finished.
Reply(c) ==
    /\ cpc[c] \in {"replied", "failed"}
    /\ cpc' = [cpc EXCEPT ![c] = "idle"]
    /\ cinst' = [cinst EXCEPT ![c] = NoInstance]
    /\ chost' = [chost EXCEPT ![c] = NoHost]
    /\ UNCHANGED <<fileVars, hostVars, svcCrashes, stuck>>

-----------------------------------------------------------------------------
(* The end of a session.                                                   *)

Exit(h) ==
    /\ h \in alive
    /\ alive' = alive \ {h}
    /\ doomed' = doomed \ {h}
    /\ UNCHANGED <<fileVars, phase, inst, watchers, cleaners, clients,
                   callerVars, svcCrashes, stuck>>

\* The first half of SessionHost.Finish, under its lock: from here on every
\* subscriber gets the exit frame, but the state file, the map entry and the
\* listener are still there.
Finish(h) ==
    /\ phase[h] = "serving"
    /\ h \notin alive \cup stuck
    /\ phase' = [phase EXCEPT ![h] = "exited"]
    /\ UNCHANGED <<fileVars, inst, alive, doomed, watchers, cleaners, clients,
                   callerVars, svcCrashes, stuck>>

\* RemoveState(statePath); close(done).
FinishDone(h) ==
    /\ phase[h] = "exited"
    /\ phase' = [phase EXCEPT ![h] = "done"]
    /\ stateFile' = [stateFile EXCEPT ![inst[h]] = NoHost]
    /\ UNCHANGED <<sessions, listening, inst, alive, doomed, watchers, cleaners,
                   clients, callerVars, svcCrashes, stuck>>

\* Service.watch deletes the entry of the instance, whatever host it names.
Watch(h) ==
    /\ h \in watchers
    /\ phase[h] = "done"
    /\ sessions' = [sessions EXCEPT ![inst[h]] = NoHost]
    /\ watchers' = watchers \ {h}
    /\ UNCHANGED <<listening, stateFile, phase, inst, alive, doomed, cleaners,
                   clients, callerVars, svcCrashes, stuck>>

\* The last goroutine of startHost: listener.Close and CleanupSocket remove
\* the socket path of the instance, whichever host listens there by now.
Cleanup(h) ==
    /\ h \in cleaners
    /\ phase[h] = "done"
    /\ listening' = [listening EXCEPT ![inst[h]] = NoHost]
    /\ cleaners' = cleaners \ {h}
    /\ UNCHANGED <<sessions, stateFile, phase, inst, alive, doomed, watchers,
                   clients, callerVars, svcCrashes, stuck>>

\* session.kill, a signal frame, or the daemon's KillProcessTreeByPID.
KillHost(h) ==
    /\ h \in alive
    /\ doomed' = doomed \cup {h}
    /\ UNCHANGED <<fileVars, phase, inst, alive, watchers, cleaners, clients,
                   callerVars, svcCrashes, stuck>>

\* Mutant: the attached test is inverted.
OrphanKillInverted(h) ==
    /\ phase[h] = "serving"
    /\ h \notin stuck
    /\ clients[h] > 0
    /\ KillHost(h)

\* watchOrphan: the timeout ran out with no client attached, which it looks up
\* under the mutex.
OrphanKill(h) ==
    /\ phase[h] = "serving"
    /\ h \notin stuck
    /\ clients[h] = 0
    /\ KillHost(h)

-----------------------------------------------------------------------------
(* Clients of a host.                                                      *)

\* dialSession reaches whoever listens on the path; the token in the hello
\* frame only matches the host it was read from.
CanAttach(i, h) == listening[i] = h /\ phase[h] # "lost"

\* The answer to hello and addClient take the mutex.
AddClient(h) ==
    /\ h \notin stuck
    /\ clients[h] < MaxClients
    /\ clients' = [clients EXCEPT ![h] = @ + 1]
    /\ UNCHANGED <<fileVars, phase, inst, alive, doomed, watchers, cleaners,
                   callerVars, svcCrashes, stuck>>

RemoveClient(h) ==
    /\ clients[h] > 0
    /\ clients' = [clients EXCEPT ![h] = @ - 1]
    /\ UNCHANGED <<fileVars, phase, inst, alive, doomed, watchers, cleaners,
                   callerVars, svcCrashes, stuck>>

-----------------------------------------------------------------------------
(* A host that keeps its mutex.  Until it lets go nobody attaches to it,   *)
(* its end is not published, and whoever asks it for its state waits: the  *)
(* service with its own mutex held, so that every request may wait behind. *)

Sticks(h) ==
    /\ h \notin stuck
    /\ Cardinality(stuck) < MaxStuck
    /\ stuck' = stuck \cup {h}
    /\ UNCHANGED <<fileVars, hostVars, callerVars, svcCrashes>>

\* WriteStdin on the full pipe of a process that does not read.
StdinBlocks(h) ==
    /\ h \in alive
    /\ phase[h] = "serving"
    /\ clients[h] > 0
    /\ Sticks(h)

\* The process reads, or it is gone and the write fails.
StdinUnblocks(h) ==
    /\ h \in stuck
    /\ phase[h] = "serving"
    /\ stuck' = stuck \ {h}
    /\ UNCHANGED <<fileVars, hostVars, callerVars, svcCrashes>>

\* subscribe after the exit: the lines the client has not seen fill the channel,
\* the exit frame does not fit, and nobody reads from it yet.
SubscribeBlocks(h) ==
    /\ phase[h] \in {"exited", "done"}
    /\ clients[h] > 0
    /\ Sticks(h)

-----------------------------------------------------------------------------
\* The service process dies and is started again.  restore() looks for state
\* files directly in StateDir while StatePath puts them in StateDir/sessions,
\* so it finds none: the children that outlive the service belong to no one.
ServiceCrash ==
    /\ svcCrashes < MaxServiceCrash
    /\ svcCrashes' = svcCrashes + 1
    /\ sessions' = [i \in Instances |-> NoHost]
    /\ listening' = [i \in Instances |-> NoHost]
    /\ phase' = [h \in Hosts |-> IF phase[h] = "unused" THEN "unused" ELSE "lost"]
    /\ alive' \in SUBSET alive
    /\ doomed' = doomed \cap alive'
    /\ watchers' = {}
    /\ cleaners' = {}
    /\ clients' = [h \in Hosts |-> 0]
    /\ stuck' = {}
    /\ cpc' = [c \in Callers |-> IF cpc[c] = "idle" THEN "idle" ELSE "failed"]
    /\ chost' = [c \in Callers |-> NoHost]
    /\ UNCHANGED <<stateFile, inst, cinst>>

-----------------------------------------------------------------------------
(* The service on its own: callers and clients come and go as they please, *)
(* within the serialisation the daemon's operation locks provide.          *)

HostStep(h) == Finish(h) \/ FinishDone(h) \/ Watch(h) \/ Cleanup(h)

CallerStep(c) == Spawn(c) \/ SpawnFails(c) \/ Insert(c) \/ Reply(c)

Attach(i) == \E h \in Hosts : CanAttach(i, h) /\ AddClient(h)

SessNext ==
    \/ \E c \in Callers, i \in Instances :
          (SerialStarts => ~Starting(i)) /\ StartRequest(c, i)
    \/ \E c \in Callers : CallerStep(c)
    \/ \E h \in Hosts : HostStep(h)
    \/ \E h \in Hosts : Exit(h)
    \/ \E h \in Hosts : KillHost(h)
    \/ \E h \in Hosts : OrphanKill(h)
    \/ \E i \in Instances : Attach(i)
    \/ \E h \in Hosts : RemoveClient(h)
    \/ \E h \in Hosts : StdinBlocks(h) \/ StdinUnblocks(h) \/ SubscribeBlocks(h)
    \/ ServiceCrash

SessSpec == SessInit /\ [][SessNext]_sessVars

\* A killed child exits, and with it the write to its stdin; while no host keeps
\* its mutex goroutines run and the orphan timer fires.  Nothing is assumed of
\* callers, clients or the game.
SessFairness ==
    /\ \A c \in Callers : WF_sessVars(stuck = {} /\ CallerStep(c))
    /\ \A h \in Hosts :
        /\ WF_sessVars(stuck = {} /\ HostStep(h))
        /\ WF_sessVars(OrphanKill(h))
        /\ WF_sessVars(h \in doomed /\ Exit(h))
        /\ WF_sessVars(h \notin alive /\ StdinUnblocks(h))

FairSessSpec == SessSpec /\ SessFairness

-----------------------------------------------------------------------------
(* Properties.                                                             *)

\* The child processes of an instance that are running now.
Running(i) == {h \in alive : inst[h] = i}

\* The running children the service still owns: those of before a crash of the
\* service are nobody's.
Owned == {h \in alive : phase[h] # "lost"}

\* An instance never has two child processes of the running service, however
\* the goroutines of an ending session interleave with the start of the next
\* one (Service.start, Service.watch, SessionHost.Finish).
AtMostOneProcess ==
    \A h1, h2 \in Owned : inst[h1] = inst[h2] => h1 = h2

\* sessiond never loses track of a process it has announced: a child it owns
\* is in the session map or its start is about to insert it, and its state
\* file describes it (Service.start, Service.watch, SessionHost.Finish).
NoLostProcess ==
    \A h \in Owned :
        /\ \/ sessions[inst[h]] = h
           \/ \E c \in Callers : cpc[c] = "insert" /\ chost[c] = h
        /\ stateFile[inst[h]] = h

\* There is one process of an instance, and the service knows it.
ProcessIsKnown == AtMostOneProcess /\ NoLostProcess

\* When the process is gone its map entry goes too, so that the next
\* session.start is not answered with a dead session (SessionHost.Finish,
\* Service.watch).  The exception is a host that keeps its mutex: State() waits
\* for it with the mutex of the map held, and watch waits behind that.
ExitFreesEntry ==
    \A i \in Instances, h \in Hosts :
        []<>(sessions[i] # h \/ h \in alive \/ stuck # {})

\* What docs/deployment.md:17 promises: the service recovers the processes it
\* had, so that every running child is in its map (Service.restore).
SessionsAreRestored ==
    \A h \in alive :
        \/ \E i \in Instances : sessions[i] = h
        \/ \E c \in Callers : cpc[c] = "insert" /\ chost[c] = h
=============================================================================
