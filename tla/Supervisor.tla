----------------------------- MODULE Supervisor -----------------------------
(***************************************************************************)
(* The daemon's instance supervisor (daemon/internal/supervisor) on top of *)
(* prism-sessiond.                                                         *)
(*                                                                         *)
(* Every lifecycle operation of an instance (start, stop, kill, restart,   *)
(* deployment, file mutation) runs in a goroutine that try-locks the       *)
(* instance's operation mutex `op` and keeps it to its end.  Next to them  *)
(* run goroutines that do NOT take `op`: one waitSession and one           *)
(* consumeSession per control connection, the automatic-restart timers,    *)
(* and the boot sequence RecoverSessions / StartAuto, which runs while the *)
(* API already listens.  The steps of a goroutine here are the stretches   *)
(* of its code between two points where another one can run.               *)
(*                                                                         *)
(* An attempt that finds the mutex taken, or the instance reserved by a    *)
(* deployment, returns INSTANCE_BUSY and changes nothing: it is no action. *)
(*                                                                         *)
(* The set of instances is fixed here; ServerRegistry models its changes.  *)
(***************************************************************************)
EXTENDS SessionManager

CONSTANTS
    Conns,         \* control connections to a session host (*sessionConn)
    NoConn,
    Main,          \* the goroutine of main: RecoverSessions, StartAuto, Shutdown
    Free,          \* the operation mutex is not held
    Jobs,          \* the operations callers may ask for
    AutoRestart,   \* instances with process.auto_restart
    AutoStart,     \* instances with process.auto_start
    RestartLimit,  \* automatic restarts allowed per window (3 in the code)
    SlowBoot,      \* TRUE: a new daemon boots after sessiond finished the old one's requests
    QuietBoot,     \* TRUE: no request arrives while RecoverSessions runs
    MaxLoss,       \* bound on control connections that break
    MaxCrash       \* bound on daemon exits (crash or shutdown)

AllJobs == {"start", "stop", "kill", "restart", "deploy", "mutate", "mutateStopped"}

ASSUME SupervisorConstants ==
    /\ NoConn \notin Conns
    /\ Main \in Callers
    /\ Free \notin Callers
    /\ Jobs \subseteq AllJobs
    /\ AutoRestart \subseteq Instances
    /\ AutoStart \subseteq Instances
    /\ RestartLimit \in Nat
    /\ SlowBoot \in BOOLEAN
    /\ QuietBoot \in BOOLEAN
    /\ MaxLoss \in Nat
    /\ MaxCrash \in Nat

VARIABLES
    daemon,        \* "down", "up", or "closing" (Manager.closing is set)
    state,         \* instance.state
    session,       \* instance.session
    expectedExit,  \* instance.expectedExit
    op,            \* who holds instance.op
    deployLocked,  \* instance.deploymentLocked
    restarts,      \* length of instance.restarts within the window
    timers,        \* pending time.AfterFunc automatic restarts
    connHost,      \* the host a connection was dialled to
    connInst,      \* the instance its goroutines work for
    open,          \* connections whose link is up
    done,          \* connections whose done channel is closed
    detached,      \* sessionConn.detached
    waiting,       \* connections whose waitSession goroutine has not finished
    pc,            \* where each goroutine is
    job,           \* which operation it executes
    target,        \* on which instance
    conn,          \* its local *sessionConn
    want,          \* the host whose coordinates it was given
    wasRunning,    \* DeployInstance's local of that name
    recover,       \* sessions RecoverSessions has still to attach
    toStart,       \* instances StartAuto has still to start
    losses, crashes

instVars  == <<state, session, expectedExit, op, deployLocked, restarts, timers>>
connVars  == <<connHost, connInst, open, done, detached, waiting>>
localVars == <<pc, job, target, conn, want, wasRunning>>
bootVars  == <<daemon, recover, toStart, losses, crashes>>
vars      == <<sessVars, instVars, connVars, localVars, bootVars>>

States == {"stopped", "starting", "running", "stopping", "deploying", "failed"}

StartPCs == {"start", "hook", "inspect", "attach", "create", "await", "attachNew", "bind"}
StopPCs  == {"stop", "waitStop", "killWait"}
WorkPCs  == {"deploy", "applying", "mutating"}
HoldPCs  == StartPCs \cup StopPCs \cup WorkPCs
RecoverPCs == {"recoverList", "recoverNext", "recoverBind"}
BootPCs  == RecoverPCs \cup {"autostart"}
PCs      == {"idle"} \cup HoldPCs \cup BootPCs

TypeOK ==
    /\ SessTypeOK
    /\ daemon \in {"down", "up", "closing"}
    /\ state \in [Instances -> States]
    /\ session \in [Instances -> Conns \cup {NoConn}]
    /\ expectedExit \in [Instances -> BOOLEAN]
    /\ op \in [Instances -> Callers \cup {Free}]
    /\ deployLocked \in [Instances -> BOOLEAN]
    /\ restarts \in [Instances -> 0 .. RestartLimit]
    /\ timers \in [Instances -> Nat]
    /\ connHost \in [Conns -> Hosts \cup {NoHost}]
    /\ connInst \in [Conns -> Instances \cup {NoInstance}]
    /\ open \subseteq Conns
    /\ done \subseteq Conns
    /\ detached \subseteq Conns
    /\ waiting \subseteq Conns
    /\ pc \in [Callers -> PCs]
    /\ job \in [Callers -> AllJobs \cup {"none", "auto"}]
    /\ target \in [Callers -> Instances \cup {NoInstance}]
    /\ conn \in [Callers -> Conns \cup {NoConn}]
    /\ want \in [Callers -> Hosts \cup {NoHost}]
    /\ wasRunning \in [Callers -> BOOLEAN]
    /\ recover \subseteq Hosts
    /\ toStart \subseteq Instances
    /\ losses \in Nat
    /\ crashes \in Nat

Init ==
    /\ SessInit
    /\ daemon = "down"
    /\ state = [i \in Instances |-> "stopped"]
    /\ session = [i \in Instances |-> NoConn]
    /\ expectedExit = [i \in Instances |-> FALSE]
    /\ op = [i \in Instances |-> Free]
    /\ deployLocked = [i \in Instances |-> FALSE]
    /\ restarts = [i \in Instances |-> 0]
    /\ timers = [i \in Instances |-> 0]
    /\ connHost = [c \in Conns |-> NoHost]
    /\ connInst = [c \in Conns |-> NoInstance]
    /\ open = {}
    /\ done = {}
    /\ detached = {}
    /\ waiting = {}
    /\ pc = [t \in Callers |-> "idle"]
    /\ job = [t \in Callers |-> "none"]
    /\ target = [t \in Callers |-> NoInstance]
    /\ conn = [t \in Callers |-> NoConn]
    /\ want = [t \in Callers |-> NoHost]
    /\ wasRunning = [t \in Callers |-> FALSE]
    /\ recover = {}
    /\ toStart = {}
    /\ losses = 0
    /\ crashes = 0

-----------------------------------------------------------------------------
(* Helpers.                                                                *)

\* A goroutine moves on; its other locals stay.
Goto(t, label) == pc' = [pc EXCEPT ![t] = label]

\* The deferred op.Unlock and the return of the operation t executes.  main
\* goes back to StartAuto's loop.
EndOp(t) ==
    /\ op' = [op EXCEPT ![target[t]] = Free]
    /\ pc' = [pc EXCEPT ![t] = IF t = Main THEN "autostart" ELSE "idle"]
    /\ job' = [job EXCEPT ![t] = "none"]
    /\ target' = [target EXCEPT ![t] = NoInstance]
    /\ conn' = [conn EXCEPT ![t] = NoConn]
    /\ want' = [want EXCEPT ![t] = NoHost]
    /\ wasRunning' = [wasRunning EXCEPT ![t] = FALSE]

\* Mutant: a failed start returns without the unlock.
FailStartLocked(t) ==
    /\ state' = [state EXCEPT ![target[t]] = "failed"]
    /\ Goto(t, "idle")
    /\ UNCHANGED <<session, expectedExit, deployLocked, restarts, timers, op, job,
                   target, conn, want, wasRunning>>

\* markStartFailed, then the return.
FailStart(t) ==
    /\ state' = [state EXCEPT ![target[t]] = "failed"]
    /\ EndOp(t)
    /\ UNCHANGED <<session, expectedExit, deployLocked, restarts, timers>>

\* t gets the mutex of i and starts working at label.
Acquire(t, i, j, label) ==
    /\ op[i] = Free
    /\ op' = [op EXCEPT ![i] = t]
    /\ Goto(t, label)
    /\ job' = [job EXCEPT ![t] = j]
    /\ target' = [target EXCEPT ![t] = i]

\* A connection nothing refers to: a new one may get its identity.
FreeConn(c) ==
    /\ c \notin open \cup waiting
    /\ \A i \in Instances : session[i] # c
    /\ \A t \in Callers : conn[t] # c

\* dialSession to host h of instance i by t succeeds; t continues at label.
Dial(t, i, h, label) ==
    /\ CanAttach(i, h)
    /\ AddClient(h)
    /\ \E c \in Conns :
        /\ FreeConn(c)
        /\ connHost' = [connHost EXCEPT ![c] = h]
        /\ connInst' = [connInst EXCEPT ![c] = i]
        /\ open' = open \cup {c}
        /\ done' = done \ {c}
        /\ detached' = detached \ {c}
        /\ conn' = [conn EXCEPT ![t] = c]
    /\ Goto(t, label)
    /\ UNCHANGED waiting

\* Mutant: the state is not set.
BindUnshown(t, i) ==
    /\ session' = [session EXCEPT ![i] = conn[t]]
    /\ expectedExit' = [expectedExit EXCEPT ![i] = FALSE]
    /\ waiting' = waiting \cup {conn[t]}
    /\ UNCHANGED <<state, connHost, connInst, open, done, detached>>

\* The instance takes conn[t] as its session and is running; consumeSession
\* and waitSession start for it.
BindSession(t, i) ==
    /\ session' = [session EXCEPT ![i] = conn[t]]
    /\ expectedExit' = [expectedExit EXCEPT ![i] = FALSE]
    /\ state' = [state EXCEPT ![i] = "running"]
    /\ waiting' = waiting \cup {conn[t]}
    /\ UNCHANGED <<connHost, connInst, open, done, detached>>

-----------------------------------------------------------------------------
(* Entering an operation: lookup, TryLock, deploymentLockError.            *)

Idle(t) ==
    /\ t # Main
    /\ pc[t] = "idle"
    /\ cpc[t] = "idle"
    /\ daemon # "down"
    /\ QuietBoot => pc[Main] \notin RecoverPCs

\* Start, Stop, Kill, Restart: Manager.Start and its siblings.
BeginLifecycle(t, i, j) ==
    /\ Idle(t)
    /\ j \in Jobs \cap {"start", "stop", "kill", "restart"}
    /\ ~deployLocked[i]
    /\ Acquire(t, i, j, IF j = "start" THEN "start" ELSE "stop")
    /\ UNCHANGED <<sessVars, state, session, expectedExit, deployLocked, restarts,
                   timers, connVars, conn, want, wasRunning, bootVars>>

\* withFileMutation; the stopped variant returns INVALID_STATE unless the
\* instance is stopped or failed.
BeginMutation(t, i, j) ==
    /\ Idle(t)
    /\ j \in Jobs \cap {"mutate", "mutateStopped"}
    /\ ~deployLocked[i]
    /\ j = "mutateStopped" => state[i] \in {"stopped", "failed"}
    /\ Acquire(t, i, j, "mutating")
    /\ UNCHANGED <<sessVars, state, session, expectedExit, deployLocked, restarts,
                   timers, connVars, conn, want, wasRunning, bootVars>>

\* DeployInstance, called by the deployment that holds the reservation.
BeginDeploy(t, i) ==
    /\ Idle(t)
    /\ "deploy" \in Jobs
    /\ deployLocked[i]
    /\ state[i] \notin {"starting", "stopping", "deploying"}
    /\ LET running == session[i] # NoConn /\ state[i] = "running" IN
        /\ Acquire(t, i, "deploy", IF running THEN "stop" ELSE "deploy")
        /\ wasRunning' = [wasRunning EXCEPT ![t] = running]
    /\ UNCHANGED <<sessVars, state, session, expectedExit, deployLocked, restarts,
                   timers, connVars, conn, want, bootVars>>

\* ReserveDeployment try-locks every target, checks it, marks it, unlocks.
ReserveDeployment(targets) ==
    /\ "deploy" \in Jobs
    /\ daemon # "down"
    /\ \A i \in targets :
        /\ op[i] = Free
        /\ ~deployLocked[i]
        /\ state[i] \notin {"starting", "stopping", "deploying"}
    /\ deployLocked' = [i \in Instances |-> deployLocked[i] \/ i \in targets]
    /\ UNCHANGED <<sessVars, state, session, expectedExit, op, restarts, timers,
                   connVars, localVars, bootVars>>

\* One turn of the release function: it blocks on op.Lock for each target.
ReleaseDeployment(i) ==
    /\ deployLocked[i]
    /\ op[i] = Free
    /\ deployLocked' = [deployLocked EXCEPT ![i] = FALSE]
    /\ UNCHANGED <<sessVars, state, session, expectedExit, op, restarts, timers,
                   connVars, localVars, bootVars>>

\* time.AfterFunc(2s, m.Start): the start is dropped when the instance is busy.
AutoRestartFires(t, i) ==
    /\ Idle(t)
    /\ timers[i] > 0
    /\ timers' = [timers EXCEPT ![i] = @ - 1]
    /\ IF op[i] = Free /\ ~deployLocked[i]
         THEN Acquire(t, i, "auto", "start")
         ELSE UNCHANGED <<op, pc, job, target>>
    /\ UNCHANGED <<sessVars, state, session, expectedExit, deployLocked, restarts,
                   connVars, conn, want, wasRunning, bootVars>>

-----------------------------------------------------------------------------
(* startLocked.                                                            *)

\* Mutant: startLocked does not refuse a running instance.
StartCheckRunning(t) ==
    /\ pc[t] = "start"
    /\ IF daemon = "closing" \/ state[target[t]] \in {"starting", "stopping"}
         THEN EndOp(t)
         ELSE Goto(t, "hook") /\ UNCHANGED <<op, job, target, conn, want, wasRunning>>
    /\ UNCHANGED <<sessVars, state, session, expectedExit, deployLocked, restarts,
                   timers, connVars, bootVars>>

\* An already running instance is a success, one in transition is busy, a
\* closing daemon refuses.
StartCheck(t) ==
    /\ pc[t] = "start"
    /\ IF daemon = "closing" \/ state[target[t]] \in {"running", "starting", "stopping"}
         THEN EndOp(t)
         ELSE Goto(t, "hook") /\ UNCHANGED <<op, job, target, conn, want, wasRunning>>
    /\ UNCHANGED <<sessVars, state, session, expectedExit, deployLocked, restarts,
                   timers, connVars, bootVars>>

\* The beforeStart hook ran: state starting, then ensureSession.
HookDone(t) ==
    /\ pc[t] = "hook"
    /\ state' = [state EXCEPT ![target[t]] = "starting"]
    /\ Goto(t, "inspect")
    /\ UNCHANGED <<sessVars, session, expectedExit, op, deployLocked, restarts,
                   timers, connVars, job, target, conn, want, wasRunning, bootVars>>

\* The hook, prepareWorkspace or the token for the new session fails.
StartFails(t) ==
    /\ pc[t] \in {"hook", "inspect", "create"}
    /\ FailStart(t)
    /\ UNCHANGED <<sessVars, connVars, bootVars>>

\* inspectSession: a session in the map is attached, else one is created.
Inspect(t) ==
    /\ pc[t] = "inspect"
    /\ LET h == sessions[target[t]] IN
        /\ want' = [want EXCEPT ![t] = h]
        /\ Goto(t, IF h = NoHost THEN "create" ELSE "attach")
    /\ UNCHANGED <<sessVars, instVars, connVars, job, target, conn, wasRunning, bootVars>>

AttachExisting(t) ==
    /\ pc[t] = "attach"
    /\ Dial(t, target[t], want[t], "bind")
    /\ UNCHANGED <<instVars, job, target, want, wasRunning, bootVars>>

AttachExistingFails(t) ==
    /\ pc[t] = "attach"
    /\ ~CanAttach(target[t], want[t])
    /\ Goto(t, "create")
    /\ UNCHANGED <<sessVars, instVars, connVars, job, target, conn, want, wasRunning, bootVars>>

\* startSession sends session.start and waits for the reply.
CreateSession(t) ==
    /\ pc[t] = "create"
    /\ StartRequest(t, target[t])
    /\ Goto(t, "await")
    /\ UNCHANGED <<instVars, connVars, job, target, conn, want, wasRunning, bootVars>>

SessionCreated(t) ==
    /\ pc[t] = "await"
    /\ cpc[t] = "replied"
    /\ want' = [want EXCEPT ![t] = chost[t]]
    /\ Goto(t, "attachNew")
    /\ Reply(t)
    /\ UNCHANGED <<instVars, connVars, job, target, conn, wasRunning, bootVars>>

SessionNotCreated(t) ==
    /\ pc[t] = "await"
    /\ cpc[t] = "failed"
    /\ FailStart(t)
    /\ Reply(t)
    /\ UNCHANGED <<connVars, bootVars>>

AttachNew(t) ==
    /\ pc[t] = "attachNew"
    /\ Dial(t, target[t], want[t], "bind")
    /\ UNCHANGED <<instVars, job, target, want, wasRunning, bootVars>>

AttachNewFails(t) ==
    /\ pc[t] = "attachNew"
    /\ ~CanAttach(target[t], want[t])
    /\ FailStart(t)
    /\ UNCHANGED <<sessVars, connVars, bootVars>>

StartBinds(t) ==
    /\ pc[t] = "bind"
    /\ BindSession(t, target[t])
    /\ EndOp(t)
    /\ UNCHANGED <<sessVars, deployLocked, restarts, timers, bootVars>>

-----------------------------------------------------------------------------
(* stopLocked, Kill, forceKillAndWait.                                     *)

\* What the operation does once the process is considered stopped.
AfterStop(t) ==
    CASE job[t] \in {"stop", "kill"} -> EndOp(t)
      [] job[t] = "restart" -> /\ Goto(t, "start")
                               /\ UNCHANGED <<op, job, target, conn, want, wasRunning>>
      [] OTHER -> /\ Goto(t, "deploy")
                  /\ UNCHANGED <<op, job, target, conn, want, wasRunning>>

\* The running children of i the kill reaches: over the control connection,
\* through session.kill, and by the pid kept with the session.
KillSet(i) ==
    {h \in alive : h = sessions[i] \/ (session[i] # NoConn /\ h = connHost[session[i]])}

Kill(i) ==
    /\ doomed' = doomed \cup KillSet(i)
    /\ UNCHANGED <<fileVars, phase, inst, alive, watchers, cleaners, clients,
                   callerVars, svcCrashes, stuck>>

\* No session: the instance counts as stopped.
StopNothing(t) ==
    /\ pc[t] = "stop"
    /\ session[target[t]] = NoConn
    /\ state' = [state EXCEPT ![target[t]] = "stopped"]
    /\ AfterStop(t)
    /\ UNCHANGED <<sessVars, session, expectedExit, deployLocked, restarts, timers,
                   connVars, bootVars>>

StopBegins(t) ==
    LET i == target[t] IN
    /\ pc[t] = "stop"
    /\ session[i] # NoConn
    /\ state' = [state EXCEPT ![i] = "stopping"]
    /\ expectedExit' = [expectedExit EXCEPT ![i] = TRUE]
    /\ conn' = [conn EXCEPT ![t] = session[i]]
    /\ IF job[t] = "kill"
         THEN Kill(i) /\ Goto(t, "killWait")
         ELSE Goto(t, "waitStop") /\ UNCHANGED sessVars
    /\ UNCHANGED <<session, op, deployLocked, restarts, timers, connVars, job, target,
                   want, wasRunning, bootVars>>

\* The done channel of the connection is closed.  waitSession may or may not
\* have run by now.
StopDone(t) ==
    /\ pc[t] \in {"waitStop", "killWait"}
    /\ conn[t] \in done
    /\ AfterStop(t)
    /\ UNCHANGED <<sessVars, state, session, expectedExit, deployLocked, restarts,
                   timers, connVars, bootVars>>

\* Mutant: the wait for the stop command has no timeout.
StopTimeoutNever(t) ==
    /\ pc[t] = "waitStop"
    /\ conn[t] \in done
    /\ Goto(t, "killWait")
    /\ UNCHANGED <<sessVars, instVars, connVars, job, target, conn, want, wasRunning, bootVars>>

StopTimeout(t) ==
    /\ pc[t] = "waitStop"
    /\ Kill(target[t])
    /\ Goto(t, "killWait")
    /\ UNCHANGED <<instVars, connVars, job, target, conn, want, wasRunning, bootVars>>

\* Mutant: the instance is declared stopped although the kill failed.
KillTimeoutStopped(t) ==
    /\ pc[t] = "killWait"
    /\ state' = [state EXCEPT ![target[t]] = "stopped"]
    /\ EndOp(t)
    /\ UNCHANGED <<sessVars, session, expectedExit, deployLocked, restarts, timers,
                   connVars, bootVars>>

\* PROCESS_STOP_FAILED: the operation gives up and the state stays stopping.
KillTimeout(t) ==
    /\ pc[t] = "killWait"
    /\ EndOp(t)
    /\ UNCHANGED <<sessVars, state, session, expectedExit, deployLocked, restarts,
                   timers, connVars, bootVars>>

-----------------------------------------------------------------------------
(* DeployInstance after the stop, and the file mutations.                  *)

DeployMarks(t) ==
    /\ pc[t] = "deploy"
    /\ state' = [state EXCEPT ![target[t]] = "deploying"]
    /\ Goto(t, "applying")
    /\ UNCHANGED <<sessVars, session, expectedExit, op, deployLocked, restarts, timers,
                   connVars, job, target, conn, want, wasRunning, bootVars>>

\* apply returned.  A failure that is not a cancellation leaves the instance
\* failed; unless the stop was forced a running instance is started again.
DeployApplied(t) ==
    /\ pc[t] = "applying"
    /\ \E result \in {"stopped", "failed"} :
          state' = [state EXCEPT ![target[t]] = result]
    /\ \E restore \in BOOLEAN :
        IF wasRunning[t] /\ restore
          THEN Goto(t, "start") /\ UNCHANGED <<op, job, target, conn, want, wasRunning>>
          ELSE EndOp(t)
    /\ UNCHANGED <<sessVars, session, expectedExit, deployLocked, restarts, timers,
                   connVars, bootVars>>

MutationEnds(t) ==
    /\ pc[t] = "mutating"
    /\ EndOp(t)
    /\ UNCHANGED <<sessVars, state, session, expectedExit, deployLocked, restarts,
                   timers, connVars, bootVars>>

-----------------------------------------------------------------------------
(* The goroutines of a control connection.                                 *)

\* The link of c is gone and its done channel closed (markExit).
CloseConn(c) ==
    /\ open' = open \ {c}
    /\ done' = done \cup {c}
    /\ UNCHANGED <<connHost, connInst, waiting>>

\* consumeSession reads the exit frame, or the end of a dead service's stream.  A
\* host whose subscribe waits sends neither.
ConsumeExit(c) ==
    /\ c \in open \cap waiting
    /\ phase[connHost[c]] # "serving"
    /\ connHost[c] \notin stuck
    /\ CloseConn(c)
    /\ IF clients[connHost[c]] > 0 THEN RemoveClient(connHost[c]) ELSE UNCHANGED sessVars
    /\ UNCHANGED <<instVars, detached, localVars, bootVars>>

\* The connection breaks while the process runs: the host drops a subscriber
\* whose buffer is full, or the socket fails.
LoseLink(c) ==
    /\ losses < MaxLoss
    /\ c \in open \cap waiting
    /\ phase[connHost[c]] = "serving"
    /\ losses' = losses + 1
    /\ CloseConn(c)
    /\ RemoveClient(connHost[c])
    /\ UNCHANGED <<instVars, detached, localVars, daemon, recover, toStart, crashes>>

\* Mutant: the end of a connection counts although the instance has another one by now.
WaitSessionAny(c) ==
    LET i == connInst[c] IN
    /\ c \in waiting \cap done
    /\ waiting' = waiting \ {c}
    /\ session' = [session EXCEPT ![i] = NoConn]
    /\ state' = [state EXCEPT ![i] = IF expectedExit[i] THEN "stopped" ELSE "failed"]
    /\ UNCHANGED <<sessVars, expectedExit, op, deployLocked, restarts, timers, connHost,
                   connInst, open, done, detached, localVars, bootVars>>

\* waitSession after the done channel: ignored when the instance has another
\* session by now or the connection was detached; else the instance is
\* stopped or failed, and an unexpected exit may schedule a restart.
WaitSession(c) ==
    LET i == connInst[c]
        current == session[i] = c /\ c \notin detached
        restart == current /\ ~expectedExit[i] /\ i \in AutoRestart /\ restarts[i] < RestartLimit
    IN
    /\ c \in waiting \cap done
    /\ waiting' = waiting \ {c}
    /\ IF current
         THEN /\ session' = [session EXCEPT ![i] = NoConn]
              /\ state' = [state EXCEPT ![i] = IF expectedExit[i] THEN "stopped" ELSE "failed"]
         ELSE UNCHANGED <<session, state>>
    /\ IF restart
         THEN /\ restarts' = [restarts EXCEPT ![i] = @ + 1]
              /\ timers' = [timers EXCEPT ![i] = @ + 1]
         ELSE UNCHANGED <<restarts, timers>>
    /\ UNCHANGED <<sessVars, expectedExit, op, deployLocked, connHost, connInst, open,
                   done, detached, localVars, bootVars>>

\* An automatic restart leaves the five-minute window, long after its
\* two-second timer fired.
RestartWindow(i) ==
    /\ restarts[i] > 0
    /\ timers[i] = 0
    /\ restarts' = [restarts EXCEPT ![i] = @ - 1]
    /\ UNCHANGED <<sessVars, state, session, expectedExit, op, deployLocked, timers,
                   connVars, localVars, bootVars>>

-----------------------------------------------------------------------------
(* The life of the daemon process.                                         *)

Boot ==
    /\ daemon = "down"
    /\ SlowBoot => \A t \in Callers : cpc[t] = "idle"
    /\ daemon' = "up"
    /\ Goto(Main, "recoverList")
    /\ UNCHANGED <<sessVars, instVars, connVars, job, target, conn, want, wasRunning,
                   recover, toStart, losses, crashes>>

\* RecoverSessions asks for the list; it never takes an operation mutex.  When the
\* call fails it returns, which leaves every session where it is: that counts as
\* a loss.
RecoverList ==
    /\ pc[Main] = "recoverList"
    /\ \/ /\ recover' = {h \in Hosts : \E i \in Instances : sessions[i] = h}
          /\ UNCHANGED losses
       \/ /\ losses < MaxLoss
          /\ losses' = losses + 1
          /\ recover' = {}
    /\ Goto(Main, "recoverNext")
    /\ UNCHANGED <<sessVars, instVars, connVars, job, target, conn, want, wasRunning,
                   daemon, toStart, crashes>>

RecoverAttach(h) ==
    /\ pc[Main] = "recoverNext"
    /\ h \in recover
    /\ recover' = recover \ {h}
    /\ IF CanAttach(inst[h], h)
         THEN /\ Dial(Main, inst[h], h, "recoverBind")
              /\ target' = [target EXCEPT ![Main] = inst[h]]
         ELSE UNCHANGED <<sessVars, connVars, pc, conn, target>>
    /\ UNCHANGED <<instVars, job, want, wasRunning, daemon, toStart, losses, crashes>>

RecoverBind ==
    /\ pc[Main] = "recoverBind"
    /\ BindSession(Main, target[Main])
    /\ Goto(Main, "recoverNext")
    /\ conn' = [conn EXCEPT ![Main] = NoConn]
    /\ target' = [target EXCEPT ![Main] = NoInstance]
    /\ UNCHANGED <<sessVars, op, deployLocked, restarts, timers, job, want, wasRunning, bootVars>>

RecoverDone ==
    /\ pc[Main] = "recoverNext"
    /\ recover = {}
    /\ toStart' = AutoStart
    /\ Goto(Main, "autostart")
    /\ UNCHANGED <<sessVars, instVars, connVars, job, target, conn, want, wasRunning,
                   daemon, recover, losses, crashes>>

\* StartAuto calls Start for each instance; a busy one is skipped.
StartAutoNext(i) ==
    /\ pc[Main] = "autostart"
    /\ i \in toStart
    /\ cpc[Main] = "idle"
    /\ toStart' = toStart \ {i}
    /\ IF op[i] = Free /\ ~deployLocked[i]
         THEN Acquire(Main, i, "start", "start")
         ELSE UNCHANGED <<op, pc, job, target>>
    /\ UNCHANGED <<sessVars, state, session, expectedExit, deployLocked, restarts, timers,
                   connVars, conn, want, wasRunning, daemon, recover, losses, crashes>>

BootDone ==
    /\ pc[Main] = "autostart"
    /\ toStart = {}
    /\ Goto(Main, "idle")
    /\ UNCHANGED <<sessVars, instVars, connVars, job, target, conn, want, wasRunning, bootVars>>

\* Shutdown: closing is set first, then every session is let go without
\* touching its process.
BeginShutdown ==
    /\ daemon = "up"
    /\ crashes < MaxCrash
    /\ pc[Main] = "idle"
    /\ daemon' = "closing"
    /\ UNCHANGED <<sessVars, instVars, connVars, localVars, recover, toStart, losses, crashes>>

DetachSession(i) ==
    /\ daemon = "closing"
    /\ session[i] # NoConn
    /\ session' = [session EXCEPT ![i] = NoConn]
    /\ detached' = detached \cup {session[i]}
    /\ CloseConn(session[i])
    /\ IF session[i] \in open /\ clients[connHost[session[i]]] > 0
         THEN RemoveClient(connHost[session[i]])
         ELSE UNCHANGED sessVars
    /\ UNCHANGED <<state, expectedExit, op, deployLocked, restarts, timers, localVars, bootVars>>

\* The process ends, after a shutdown or at any other moment: everything it
\* held is gone and its connections close.  sessiond goes on.
DaemonExit ==
    /\ daemon # "down"
    /\ crashes < MaxCrash
    /\ crashes' = crashes + 1
    /\ daemon' = "down"
    /\ state' = [i \in Instances |-> "stopped"]
    /\ session' = [i \in Instances |-> NoConn]
    /\ expectedExit' = [i \in Instances |-> FALSE]
    /\ op' = [i \in Instances |-> Free]
    /\ deployLocked' = [i \in Instances |-> FALSE]
    /\ restarts' = [i \in Instances |-> 0]
    /\ timers' = [i \in Instances |-> 0]
    /\ open' = {}
    /\ done' = {}
    /\ detached' = {}
    /\ waiting' = {}
    /\ pc' = [t \in Callers |-> "idle"]
    /\ job' = [t \in Callers |-> "none"]
    /\ target' = [t \in Callers |-> NoInstance]
    /\ conn' = [t \in Callers |-> NoConn]
    /\ want' = [t \in Callers |-> NoHost]
    /\ wasRunning' = [t \in Callers |-> FALSE]
    /\ recover' = {}
    /\ toStart' = {}
    /\ clients' = [h \in Hosts |-> 0]
    /\ UNCHANGED <<fileVars, phase, inst, alive, doomed, watchers, cleaners, callerVars,
                   svcCrashes, stuck, connHost, connInst, losses>>

-----------------------------------------------------------------------------
(* sessiond's own steps, seen from here.                                   *)

\* The reply to a daemon that is gone is dropped.
DropReply(t) == pc[t] # "await" /\ Reply(t)

\* A new session gets an identity (a token) no goroutine here still holds.
SpawnFresh(t) == Spawn(t) /\ chost'[t] \notin recover \cup {want[u] : u \in Callers}

\* The subscription of a connection dialled after the process began to end.  The
\* exit frames of those that were subscribed before are taken first, which
\* changes nothing for this one.
SubscribesLate(h) ==
    /\ \E c \in open \ waiting : connHost[c] = h
    /\ \A c \in open \cap waiting : connHost[c] # h
    /\ SubscribeBlocks(h)

SessiondStep ==
    /\ \/ \E t \in Callers : SpawnFresh(t) \/ SpawnFails(t) \/ Insert(t) \/ DropReply(t)
       \/ \E h \in Hosts : HostStep(h) \/ Exit(h) \/ OrphanKill(h)
       \/ \E h \in Hosts : StdinBlocks(h) \/ StdinUnblocks(h) \/ SubscribesLate(h)
       \/ ServiceCrash
    /\ UNCHANGED <<instVars, connVars, localVars, bootVars>>

Begin ==
    \/ \E t \in Callers, i \in Instances, j \in AllJobs : BeginLifecycle(t, i, j)
    \/ \E t \in Callers, i \in Instances, j \in AllJobs : BeginMutation(t, i, j)
    \/ \E t \in Callers, i \in Instances : BeginDeploy(t, i)

StartStep(t) ==
    \/ StartCheck(t)
    \/ HookDone(t)
    \/ StartFails(t)
    \/ Inspect(t)
    \/ AttachExisting(t)
    \/ AttachExistingFails(t)
    \/ CreateSession(t)
    \/ SessionCreated(t)
    \/ SessionNotCreated(t)
    \/ AttachNew(t)
    \/ AttachNewFails(t)
    \/ StartBinds(t)

StopStep(t) ==
    \/ StopNothing(t)
    \/ StopBegins(t)
    \/ StopDone(t)
    \/ StopTimeout(t)
    \/ KillTimeout(t)

WorkStep(t) ==
    \/ DeployMarks(t)
    \/ DeployApplied(t)
    \/ MutationEnds(t)

BootStep ==
    \/ RecoverList
    \/ \E h \in Hosts : RecoverAttach(h)
    \/ RecoverBind
    \/ RecoverDone
    \/ \E i \in Instances : StartAutoNext(i)
    \/ BootDone

Next ==
    \/ Begin
    \/ \E targets \in SUBSET Instances \ {{}} : ReserveDeployment(targets)
    \/ \E i \in Instances : ReleaseDeployment(i)
    \/ \E t \in Callers, i \in Instances : AutoRestartFires(t, i)
    \/ \E t \in Callers : StartStep(t)
    \/ \E t \in Callers : StopStep(t)
    \/ \E t \in Callers : WorkStep(t)
    \/ \E c \in Conns : ConsumeExit(c)
    \/ \E c \in Conns : LoseLink(c)
    \/ \E c \in Conns : WaitSession(c)
    \/ \E i \in Instances : RestartWindow(i)
    \/ Boot
    \/ BootStep
    \/ BeginShutdown
    \/ \E i \in Instances : DetachSession(i)
    \/ DaemonExit
    \/ SessiondStep

Spec == Init /\ [][Next]_vars

\* A killed process exits, and with it a write to its stdin; a daemon that shuts
\* down exits and one that is down is started again.  While no host keeps its
\* mutex goroutines run, sessiond answers, the orphan timer fires, and hooks, file
\* copies and waits end (they read and write local files or have a timeout).  The
\* calls to sessiond and to a host have a deadline for the dial only: once a host
\* keeps its mutex nothing is assumed of anybody who may wait for it.  Nor is
\* anything assumed of users, links or the game.
Fairness ==
    /\ \A t \in Callers :
        /\ WF_vars(stuck = {} /\ (StartStep(t) \/ StopStep(t) \/ WorkStep(t)))
        /\ WF_vars(stuck = {} /\ (SpawnFresh(t) \/ SpawnFails(t) \/ Insert(t) \/ DropReply(t))
                   /\ UNCHANGED <<instVars, connVars, localVars, bootVars>>)
    /\ \A c \in Conns :
        /\ WF_vars(ConsumeExit(c))
        /\ WF_vars(WaitSession(c))
    /\ \A h \in Hosts :
        /\ WF_vars(stuck = {} /\ HostStep(h) /\ UNCHANGED <<instVars, connVars, localVars, bootVars>>)
        /\ WF_vars((\/ OrphanKill(h)
                    \/ h \in doomed /\ Exit(h)
                    \/ h \notin alive /\ StdinUnblocks(h))
                   /\ UNCHANGED <<instVars, connVars, localVars, bootVars>>)
    /\ WF_vars(Boot)
    /\ WF_vars(stuck = {} /\ BootStep)
    /\ WF_vars(daemon = "closing" /\ DaemonExit)

FairSpec == Spec /\ Fairness

-----------------------------------------------------------------------------
(* Safety.                                                                 *)

\* The operation mutex is held exactly by the goroutine that is inside an
\* operation of the instance, so no two operations overlap and no return path
\* forgets the unlock (the deferred op.Unlock of Start, Stop, Kill, Restart,
\* DeployInstance and withFileMutation).
LockDiscipline ==
    \A t \in Callers, i \in Instances :
        op[i] = t <=> (pc[t] \in HoldPCs /\ target[t] = i)

\* While a deployment holds an instance no other operation is inside it, even
\* one that passed deploymentLockError before the reservation was made.
ReservationExcludes ==
    \A t \in Callers :
        (pc[t] \in HoldPCs /\ deployLocked[target[t]]) => job[t] = "deploy"

\* What an operation relies on: the types, its mutex and the reservation
\* (Start, Stop, Kill, Restart, DeployInstance, ReserveDeployment).
OperationsExclude == TypeOK /\ LockDiscipline /\ ReservationExcludes

\* A session the instance relies on has a waitSession goroutine of its own
\* that will see it end, and a running instance has a session.
SessionIsWatched ==
    \A i \in Instances :
        /\ session[i] # NoConn =>
              /\ session[i] \in waiting
              /\ connInst[session[i]] = i
              /\ session[i] \in open \cup done
        /\ (state[i] = "running" /\ daemon = "up") => session[i] # NoConn

\* The children of i that answer on the instance's socket.
Reachable(i) == {h \in Running(i) : listening[i] = h}

\* Files of an instance are replaced only when none of its processes the
\* daemon could reach is running: DeployInstance between its stop and its
\* restart, WithStoppedFileMutation inside mutate.
QuietWorkspace ==
    \A t \in Callers :
        (pc[t] = "applying" \/ (pc[t] = "mutating" /\ job[t] = "mutateStopped"))
            => Reachable(target[t]) = {}

\* An instance nobody is working on that shows stopped has no reachable
\* process (stopLocked, waitSession, DeployInstance).
StoppedIsStopped ==
    \A i \in Instances :
        (daemon = "up" /\ pc[Main] \notin BootPCs /\ op[i] = Free /\ state[i] = "stopped")
            => Reachable(i) = {}

\* What is shown as stopped or treated as stopped is: no process that the
\* daemon could reach runs behind an operation on files, nor behind the state
\* the panel shows.
StoppedIsQuiet == QuietWorkspace /\ StoppedIsStopped

\* An instance has one consumer of its process output (consumeSession).
OneConsumer ==
    \A c1, c2 \in open \cap waiting : connInst[c1] = connInst[c2] => c1 = c2

\* The process of an instance is watched, once.
OneWatcher == SessionIsWatched /\ OneConsumer

\* A stop that was begun is never taken back: stopping ends in stopped, or in
\* the deployment that asked for the stop.
StoppingNeverResumes ==
    [][\A i \in Instances :
        (state[i] = "stopping" /\ state'[i] # "stopping")
            => state'[i] \in {"stopped", "deploying"}]_vars

\* What an instance shows is true: starting and deploying have somebody who works on
\* it, so that no return path of startLocked, startSession or DeployInstance leaves it
\* where every further operation is refused; an open session shows as running or
\* stopping.
ShownIsTrue ==
    \A i \in Instances :
        /\ state[i] \in {"starting", "deploying"} => op[i] # Free
        /\ session[i] \in open => state[i] \in {"running", "stopping"}

\* The life of an instance as its users see it (Lifecycle).
Life == INSTANCE Lifecycle WITH
    Workers <- Callers,
    phase   <- CASE daemon = "down"         -> "down"
                 [] pc[Main] \in RecoverPCs -> "recovers"
                 [] daemon = "closing"      -> "closes"
                 [] OTHER                   -> "serves",
    holder  <- op,
    shown   <- state,
    link    <- [i \in Instances |->
                  CASE session[i] = NoConn  -> "none"
                    [] session[i] \in open  -> "open"
                    [] OTHER                -> "ended"]

\* Every step of the goroutines, of prism-sessiond and of the daemon's own life is a
\* step of that life or leaves it alone: an open session is never replaced, nor is one
\* shown as over before it is, whatever waitSession goroutines come late.
KeepsLifecycle == Life!LifeSpec

-----------------------------------------------------------------------------
(* What the documents say of the supervisor and the code does not keep.    *)

\* A manual restart whose stop succeeded goes on to start the instance
\* (Restart: stopLocked, then startLocked).
RestartGoesOn ==
    [][\A t \in Callers :
        (pc[t] = "start" /\ job[t] = "restart" /\ pc'[t] = "idle" /\ daemon = "up")
            => state[target[t]] = "running"]_vars

\* Files are replaced only after the process is confirmed to have exited.
NoProcessWhileApplying ==
    \A t \in Callers : pc[t] = "applying" => Running(target[t]) = {}

-----------------------------------------------------------------------------
(* Liveness.                                                               *)

\* Each of them names the same exception: a host that keeps its mutex, because a
\* process does not read its stdin or because a subscription came after the exit.
\* sessiond waits for it inside List, inspect and start, the daemon for the answers
\* of both, and the connection of the late subscription never learns of the exit.

\* Every operation gives the mutex back (the timeouts of stopLocked and
\* forceKillAndWait, the replies of sessiond).
OperationsEnd == \A i \in Instances : []<>(op[i] = Free \/ stuck # {})

\* stopping is transient, even after PROCESS_STOP_FAILED: the killed process
\* exits and waitSession corrects the state.
StoppingEnds == \A i \in Instances : []<>(state[i] # "stopping" \/ stuck # {})

\* A session whose process exited does not stay the instance's session.
ExitIsNoticed ==
    \A i \in Instances, c \in Conns :
        []<>(session[i] # c \/ phase[connHost[c]] = "serving" \/ stuck # {})

\* The exit of a process is noticed on both sides (Service.watch, waitSession).
ExitsAreNoticed == ExitFreesEntry /\ ExitIsNoticed

\* An operation leaves nothing behind that is on its way, nor does the end of a process.
OperationsSettle == OperationsEnd /\ StoppingEnds /\ ExitsAreNoticed

\* A running process is owned: it ends, or some instance has a session with
\* it; what a daemon exit, a lost connection or a failed start leaves behind
\* is taken over again or killed as an orphan.
ProcessIsOwned ==
    \A h \in Hosts :
        []<>(\/ h \notin alive
             \/ \E i \in Instances : session[i] # NoConn /\ connHost[session[i]] = h
             \/ stuck # {})
=============================================================================
