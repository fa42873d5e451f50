-------------------------- MODULE Supervisor_proofs --------------------------
(***************************************************************************)
(* Proofs about the daemon's supervisor on top of prism-sessiond, for any  *)
(* number of instances, goroutines, connections, broken links and exits.   *)
(***************************************************************************)
EXTENDS Supervisor, SessionManager_proofs

-----------------------------------------------------------------------------
(* Types.                                                                  *)

InstTypes ==
    /\ state \in [Instances -> States]
    /\ session \in [Instances -> Conns \cup {NoConn}]
    /\ expectedExit \in [Instances -> BOOLEAN]
    /\ op \in [Instances -> Callers \cup {Free}]
    /\ deployLocked \in [Instances -> BOOLEAN]
    /\ restarts \in [Instances -> 0 .. RestartLimit]
    /\ timers \in [Instances -> Nat]

ConnTypes ==
    /\ connHost \in [Conns -> Hosts \cup {NoHost}]
    /\ connInst \in [Conns -> Instances \cup {NoInstance}]
    /\ open \subseteq Conns
    /\ done \subseteq Conns
    /\ detached \subseteq Conns
    /\ waiting \subseteq Conns

LocalTypes ==
    /\ pc \in [Callers -> PCs]
    /\ job \in [Callers -> AllJobs \cup {"none", "auto"}]
    /\ target \in [Callers -> Instances \cup {NoInstance}]
    /\ conn \in [Callers -> Conns \cup {NoConn}]
    /\ want \in [Callers -> Hosts \cup {NoHost}]
    /\ wasRunning \in [Callers -> BOOLEAN]

BootTypes ==
    /\ daemon \in {"down", "up", "closing"}
    /\ recover \subseteq Hosts
    /\ toStart \subseteq Instances
    /\ losses \in Nat
    /\ crashes \in Nat

\* A goroutine inside an operation works on an instance.
HoldsInstance == \A t \in Callers : pc[t] \in HoldPCs => target[t] \in Instances

\* A goroutine about to bind a session has dialled it; without this the type
\* of waiting is not inductive.
BindHasConn == \A t \in Callers : pc[t] \in {"bind", "recoverBind"} => conn[t] \in Conns

SupTypeInv ==
    /\ TypeInv
    /\ InstTypes
    /\ ConnTypes
    /\ LocalTypes
    /\ BootTypes
    /\ HoldsInstance
    /\ BindHasConn

LEMMA SupTypes == SupTypeInv => TypeOK
BY DEF SupTypeInv, TypeInv, TypeOK, InstTypes, ConnTypes, LocalTypes, BootTypes

\* A host that waits with its mutex held, or no longer does.
Sticking(h) == StdinBlocks(h) \/ StdinUnblocks(h) \/ SubscribeBlocks(h)

\* It changes nothing else.
LEMMA StickingFrame ==
    ASSUME NEW h \in Hosts, Sticking(h)
    PROVE  UNCHANGED <<fileVars, hostVars, callerVars>>
BY DEF Sticking, StdinBlocks, StdinUnblocks, SubscribeBlocks, Sticks

\* What a step of the supervisor does to prism-sessiond.
SessPart ==
    \/ \E t \in Callers, i \in Instances :
          pc[t] = "create" /\ target[t] = i /\ StartRequest(t, i)
    \/ \E t \in Callers : SpawnFresh(t) \/ SpawnFails(t) \/ Insert(t) \/ Reply(t)
    \/ \E h \in Hosts : HostStep(h) \/ Exit(h) \/ OrphanKill(h)
    \/ \E h \in Hosts : Sticking(h)
    \/ \E h \in Hosts \cup {NoHost} : AddClient(h) \/ RemoveClient(h)
    \/ \E i \in Instances : Kill(i)
    \/ clients' = [h \in Hosts |-> 0]
       /\ UNCHANGED <<fileVars, phase, inst, alive, doomed, watchers, cleaners, callerVars,
                      svcCrashes, stuck>>
    \/ ServiceCrash
    \/ UNCHANGED sessVars

LEMMA SessTypes == TypeInv /\ SessPart => TypeInv'
<1> SUFFICES ASSUME TypeInv, SessPart
             PROVE  TypeInv'
  OBVIOUS
<1> USE DEF TypeInv, InsertHasHost, SessTypeOK, Phases, CallerPCs, fileVars, hostVars, callerVars
<1>1. ASSUME NEW t \in Callers, NEW i \in Instances, StartRequest(t, i)
      PROVE  TypeInv'
  BY <1>1, SessTypeStep DEF SessMove, ServiceMove
<1>2. ASSUME NEW t \in Callers, SpawnFresh(t) \/ SpawnFails(t) \/ Insert(t) \/ Reply(t)
      PROVE  TypeInv'
  BY <1>2, SessTypeStep DEF SessMove, ServiceMove, CallerStep, SpawnFresh
<1>3. ASSUME NEW h \in Hosts, HostStep(h) \/ Exit(h) \/ OrphanKill(h) \/ Sticking(h)
      PROVE  TypeInv'
  BY <1>3, SessTypeStep DEF SessMove, ServiceMove, Sticking
<1>4. ASSUME NEW h \in Hosts \cup {NoHost}, AddClient(h) \/ RemoveClient(h)
      PROVE  TypeInv'
  BY <1>4 DEF AddClient, RemoveClient
<1>5. ASSUME NEW i \in Instances, Kill(i)
      PROVE  TypeInv'
  BY <1>5 DEF Kill, KillSet
<1>6. CASE clients' = [h \in Hosts |-> 0]
           /\ UNCHANGED <<fileVars, phase, inst, alive, doomed, watchers, cleaners, callerVars,
                          svcCrashes, stuck>>
  BY <1>6
<1>7. CASE ServiceCrash
  BY <1>7, SessTypeStep DEF SessMove, ServiceMove
<1>8. CASE UNCHANGED sessVars
  BY <1>8, SessTypeStep DEF SessMove, ServiceMove
<1> QED
  BY <1>1, <1>2, <1>3, <1>4, <1>5, <1>6, <1>7, <1>8 DEF SessPart

-----------------------------------------------------------------------------
LEMMA SessPartStep == SupTypeInv /\ [Next]_vars => SessPart
<1> SUFFICES ASSUME SupTypeInv, [Next]_vars
             PROVE  SessPart
  OBVIOUS
<1> USE DEF SupTypeInv, HoldsInstance, HoldPCs, StartPCs, StopPCs
<1>1. CASE Begin
  BY <1>1 DEF Begin, BeginLifecycle, BeginMutation, BeginDeploy, SessPart
<1>2. CASE \E targets \in SUBSET Instances \ {{}} : ReserveDeployment(targets)
  BY <1>2 DEF ReserveDeployment, SessPart
<1>3. ASSUME NEW i \in Instances,
             ReleaseDeployment(i) \/ RestartWindow(i) \/ \E t \in Callers : AutoRestartFires(t, i)
      PROVE  SessPart
  BY <1>3 DEF ReleaseDeployment, RestartWindow, AutoRestartFires, SessPart
<1>4. ASSUME NEW t \in Callers, StartStep(t)
      PROVE  SessPart
  <2>1. CASE AttachExisting(t) \/ AttachNew(t)
    <3>1. PICK h \in Hosts \cup {NoHost} : AddClient(h)
      BY <2>1 DEF AttachExisting, AttachNew, Dial, LocalTypes
    <3> QED
      BY <3>1 DEF SessPart
  <2>2. CASE CreateSession(t)
    BY <2>2 DEF CreateSession, SessPart
  <2>3. CASE SessionCreated(t) \/ SessionNotCreated(t)
    BY <2>3 DEF SessionCreated, SessionNotCreated, SessPart
  <2>4. CASE \/ StartCheck(t) \/ HookDone(t) \/ StartFails(t) \/ Inspect(t)
             \/ AttachExistingFails(t) \/ AttachNewFails(t) \/ StartBinds(t)
    BY <2>4 DEF StartCheck, HookDone, StartFails, Inspect, AttachExistingFails, AttachNewFails,
       StartBinds, SessPart
  <2> QED
    BY <1>4, <2>1, <2>2, <2>3, <2>4 DEF StartStep
<1>5. ASSUME NEW t \in Callers, StopStep(t)
      PROVE  SessPart
  BY <1>5 DEF StopStep, StopNothing, StopBegins, StopDone, StopTimeout, KillTimeout, SessPart
<1>6. ASSUME NEW t \in Callers, WorkStep(t)
      PROVE  SessPart
  BY <1>6 DEF WorkStep, DeployMarks, DeployApplied, MutationEnds, SessPart
<1>7. ASSUME NEW c \in Conns, ConsumeExit(c) \/ LoseLink(c) \/ WaitSession(c)
      PROVE  SessPart
  <2>1. connHost[c] \in Hosts \cup {NoHost}
    BY DEF ConnTypes
  <2> QED
    BY <1>7, <2>1 DEF ConsumeExit, LoseLink, WaitSession, SessPart
<1>8. CASE Boot \/ BeginShutdown
  BY <1>8 DEF Boot, BeginShutdown, SessPart
<1>9. CASE BootStep
  <2>1. ASSUME NEW h \in Hosts, RecoverAttach(h)
        PROVE  SessPart
    BY <2>1 DEF RecoverAttach, Dial, SessPart
  <2> QED
    BY <1>9, <2>1 DEF BootStep, RecoverList, RecoverBind, RecoverDone, StartAutoNext, BootDone, SessPart
<1>10. ASSUME NEW i \in Instances, DetachSession(i)
       PROVE  SessPart
  <2>1. session[i] \in Conns
    BY <1>10 DEF DetachSession, InstTypes
  <2>2. connHost[session[i]] \in Hosts \cup {NoHost}
    BY <2>1 DEF ConnTypes
  <2> QED
    BY <1>10, <2>2 DEF DetachSession, SessPart
<1>11. CASE DaemonExit
  BY <1>11 DEF DaemonExit, SessPart
<1>12. CASE SessiondStep
  BY <1>12 DEF SessiondStep, SubscribesLate, Sticking, DropReply, SessPart
<1>13. CASE UNCHANGED vars
  BY <1>13 DEF vars, SessPart
<1> QED
  BY <1>1, <1>2, <1>3, <1>4, <1>5, <1>6, <1>7, <1>8, <1>9, <1>10, <1>11, <1>12, <1>13 DEF Next

\* The end of an operation keeps the types.
LEMMA EndOpTypes ==
    ASSUME InstTypes, LocalTypes, HoldsInstance, BindHasConn, NEW t \in Callers, EndOp(t)
    PROVE  /\ op' \in [Instances -> Callers \cup {Free}]
           /\ LocalTypes'
           /\ HoldsInstance'
           /\ BindHasConn'
<1> USE DEF InstTypes, LocalTypes, HoldsInstance, BindHasConn, PCs, HoldPCs, StartPCs, StopPCs,
        WorkPCs, BootPCs, RecoverPCs, EndOp
<1>1. op' \in [Instances -> Callers \cup {Free}]
  OBVIOUS
<1>2. pc' \in [Callers -> PCs] /\ pc'[t] \in {"idle", "autostart"}
      /\ \A u \in Callers \ {t} : pc'[u] = pc[u]
  OBVIOUS
<1>3. job' \in [Callers -> AllJobs \cup {"none", "auto"}]
      /\ wasRunning' \in [Callers -> BOOLEAN]
      /\ want' \in [Callers -> Hosts \cup {NoHost}]
  OBVIOUS
<1>4. target' \in [Callers -> Instances \cup {NoInstance}]
      /\ \A u \in Callers \ {t} : target'[u] = target[u]
  OBVIOUS
<1>5. conn' \in [Callers -> Conns \cup {NoConn}]
      /\ \A u \in Callers \ {t} : conn'[u] = conn[u]
  OBVIOUS
<1> QED
  BY <1>1, <1>2, <1>3, <1>4, <1>5

LEMMA SupTypeStep == SupTypeInv /\ [Next]_vars => SupTypeInv'
<1> SUFFICES ASSUME SupTypeInv, [Next]_vars
             PROVE  SupTypeInv'
  OBVIOUS
<1> DEFINE Typed == InstTypes /\ ConnTypes /\ LocalTypes /\ BootTypes /\ HoldsInstance /\ BindHasConn
<1> SUFFICES Typed'
  BY SessPartStep, SessTypes DEF SupTypeInv
<1>a. Typed
  BY DEF SupTypeInv
<1> USE DEF InstTypes, ConnTypes, LocalTypes, BootTypes, HoldsInstance, BindHasConn, States, AllJobs,
        PCs, HoldPCs, StartPCs, StopPCs, WorkPCs, BootPCs, RecoverPCs,
        instVars, connVars, localVars, bootVars, Goto, Acquire
<1>1. ASSUME NEW t \in Callers, NEW i \in Instances, NEW j \in AllJobs, BeginLifecycle(t, i, j)
      PROVE  Typed'
  BY <1>a, <1>1 DEF BeginLifecycle
<1>2. ASSUME NEW t \in Callers, NEW i \in Instances, NEW j \in AllJobs, BeginMutation(t, i, j)
      PROVE  Typed'
  BY <1>a, <1>2 DEF BeginMutation
<1>3. ASSUME NEW t \in Callers, NEW i \in Instances, BeginDeploy(t, i)
      PROVE  Typed'
  BY <1>a, <1>3 DEF BeginDeploy
<1>4. ASSUME NEW targets \in SUBSET Instances, ReserveDeployment(targets)
      PROVE  Typed'
  BY <1>a, <1>4 DEF ReserveDeployment
<1>5. ASSUME NEW i \in Instances, ReleaseDeployment(i) \/ RestartWindow(i)
      PROVE  Typed'
  <2>1. restarts[i] \in 0 .. RestartLimit
    BY <1>a
  <2>2. RestartWindow(i) => restarts[i] - 1 \in 0 .. RestartLimit
    BY <2>1, SupervisorConstants DEF RestartWindow
  <2>3. CASE ReleaseDeployment(i)
    BY <1>a, <2>3 DEF ReleaseDeployment
  <2>4. CASE RestartWindow(i)
    <3>1. restarts' \in [Instances -> 0 .. RestartLimit]
      BY ONLY <1>a, <2>2, <2>4 DEF RestartWindow, InstTypes
    <3> QED
      BY <1>a, <2>4, <3>1 DEF RestartWindow
  <2> QED
    BY <1>5, <2>3, <2>4
<1>6. ASSUME NEW t \in Callers, NEW i \in Instances, AutoRestartFires(t, i)
      PROVE  Typed'
  BY <1>a, <1>6 DEF AutoRestartFires
<1>7. ASSUME NEW t \in Callers, StartStep(t)
      PROVE  Typed'
  <2>1. CASE StartCheck(t)
    BY <1>a, <2>1, EndOpTypes DEF StartCheck
  <2>2. CASE HookDone(t)
    BY <1>a, <2>2 DEF HookDone
  <2>8. CASE StartFails(t)
    BY <1>a, <2>8, EndOpTypes DEF StartFails, FailStart
  <2>3. CASE Inspect(t)
    BY <1>a, <2>3 DEF Inspect, SupTypeInv, TypeInv, SessTypeOK
  <2>4. CASE AttachExisting(t) \/ AttachNew(t)
    BY <1>a, <2>4 DEF AttachExisting, AttachNew, Dial
  <2>5. CASE AttachExistingFails(t) \/ CreateSession(t) \/ AttachNewFails(t)
    BY <1>a, <2>5, EndOpTypes DEF AttachExistingFails, CreateSession, AttachNewFails, FailStart
  <2>6. CASE SessionCreated(t)
    BY <1>a, <2>6 DEF SessionCreated, SupTypeInv, TypeInv, SessTypeOK
  <2>9. CASE SessionNotCreated(t)
    BY <1>a, <2>9, EndOpTypes DEF SessionNotCreated, FailStart
  <2>7. CASE StartBinds(t)
    BY <1>a, <2>7, EndOpTypes DEF StartBinds, BindSession
  <2> QED
    BY <1>7, <2>1, <2>2, <2>3, <2>4, <2>5, <2>6, <2>7, <2>8, <2>9 DEF StartStep
<1>8. ASSUME NEW t \in Callers, StopStep(t)
      PROVE  Typed'
  <2>1. CASE StopNothing(t)
    BY <1>a, <2>1, EndOpTypes DEF StopNothing, AfterStop
  <2>2. CASE StopBegins(t)
    BY <1>a, <2>2 DEF StopBegins
  <2>3. CASE StopDone(t)
    BY <1>a, <2>3, EndOpTypes DEF StopDone, AfterStop
  <2>4. CASE StopTimeout(t) \/ KillTimeout(t)
    BY <1>a, <2>4, EndOpTypes DEF StopTimeout, KillTimeout
  <2> QED
    BY <1>8, <2>1, <2>2, <2>3, <2>4 DEF StopStep
<1>9. ASSUME NEW t \in Callers, WorkStep(t)
      PROVE  Typed'
  BY <1>a, <1>9, EndOpTypes DEF WorkStep, DeployMarks, DeployApplied, MutationEnds
<1>10. ASSUME NEW c \in Conns, ConsumeExit(c) \/ LoseLink(c)
       PROVE  Typed'
  BY <1>a, <1>10 DEF ConsumeExit, LoseLink, CloseConn
<1>11. ASSUME NEW c \in Conns, WaitSession(c)
       PROVE  Typed'
  BY <1>a, <1>11, SupervisorConstants DEF WaitSession
<1>12. CASE Boot \/ BeginShutdown
  BY <1>a, <1>12, SupervisorConstants DEF Boot, BeginShutdown
<1>13. CASE RecoverList \/ RecoverDone \/ BootDone
  BY <1>a, <1>13, SupervisorConstants DEF RecoverList, RecoverDone, BootDone
<1>14. ASSUME NEW h \in Hosts, RecoverAttach(h)
       PROVE  Typed'
  <2>1. CASE CanAttach(inst[h], h)
    <3>1. inst[h] \in Instances \cup {NoInstance}
      BY DEF SupTypeInv, TypeInv, SessTypeOK
    <3>2. Dial(Main, inst[h], h, "recoverBind") /\ target' = [target EXCEPT ![Main] = inst[h]]
          /\ UNCHANGED <<instVars, job, want, wasRunning, daemon, toStart, losses, crashes>>
          /\ recover' = recover \ {h}
      BY <1>14, <2>1 DEF RecoverAttach
    <3>3. ConnTypes'
      BY ONLY <1>a, <3>1, <3>2, h \in Hosts, SMTT(20) DEF ConnTypes, Dial, Typed
    <3>4. LocalTypes' /\ HoldsInstance' /\ BindHasConn'
      BY <1>a, <1>14, <3>1, <3>2, SupervisorConstants, SMTT(20) DEF Dial
    <3>5. InstTypes' /\ BootTypes'
      BY <1>a, <1>14, <3>2, SMTT(20) DEF RecoverAttach
    <3> QED
      BY <3>3, <3>4, <3>5
  <2>2. CASE ~CanAttach(inst[h], h)
    BY <1>a, <1>14, <2>2, SupervisorConstants, SMTT(20) DEF RecoverAttach
  <2> QED
    BY <2>1, <2>2
<1>15. CASE RecoverBind
  <2>3. conn[Main] \in Conns
    BY <1>a, <1>15, SupervisorConstants DEF RecoverBind
  <2>4. state' \in [Instances -> States]
    BY <1>a, <1>15 DEF RecoverBind, BindSession
  <2>5. session' \in [Instances -> Conns \cup {NoConn}]
    BY <1>a, <1>15, <2>3 DEF RecoverBind, BindSession
  <2>6. waiting' \subseteq Conns
    BY <1>a, <1>15, <2>3 DEF RecoverBind, BindSession
  <2>1. InstTypes' /\ ConnTypes'
    BY <1>a, <1>15, <2>4, <2>5, <2>6, SMTT(20) DEF RecoverBind, BindSession
  <2>2. LocalTypes' /\ HoldsInstance' /\ BindHasConn' /\ BootTypes'
    BY <1>a, <1>15, SupervisorConstants, SMTT(20) DEF RecoverBind
  <2> QED
    BY <2>1, <2>2
<1>16. ASSUME NEW i \in Instances, StartAutoNext(i)
       PROVE  Typed'
  BY <1>a, <1>16, SupervisorConstants DEF StartAutoNext
<1>17. ASSUME NEW i \in Instances, DetachSession(i)
       PROVE  Typed'
  BY <1>a, <1>17 DEF DetachSession, CloseConn
<1>18. CASE DaemonExit
  BY <1>a, <1>18, SupervisorConstants DEF DaemonExit
<1>19. CASE SessiondStep
  BY <1>a, <1>19 DEF SessiondStep
<1>20. CASE UNCHANGED vars
  BY <1>a, <1>20 DEF vars
<1> QED
  BY <1>1, <1>2, <1>3, <1>4, <1>5, <1>6, <1>7, <1>8, <1>9, <1>10, <1>11, <1>12, <1>13, <1>14, <1>15,
     <1>16, <1>17, <1>18, <1>19, <1>20 DEF Next, Begin, BootStep

LEMMA SupTypeInvariant == Spec => []SupTypeInv
<1>1. Init => SupTypeInv
  <2> SUFFICES ASSUME Init
               PROVE  SupTypeInv
    OBVIOUS
  <2>1. TypeInv
    BY SessionConstants DEF Init, SessInit, TypeInv, InsertHasHost, SessTypeOK, Phases, CallerPCs
  <2>2. /\ pc = [t \in Callers |-> "idle"]
        /\ restarts = [i \in Instances |-> 0]
        /\ RestartLimit \in Nat
    BY SupervisorConstants DEF Init
  <2> QED
    BY <2>1, <2>2 DEF Init, SupTypeInv, InstTypes, ConnTypes, LocalTypes, BootTypes, HoldsInstance,
       BindHasConn, States, AllJobs, PCs, HoldPCs, StartPCs, StopPCs, WorkPCs
<1> QED
  BY <1>1, SupTypeStep, PTL DEF Spec

\* The supervisor's variables and those of prism-sessiond under it keep their
\* types, whatever breaks, exits or restarts (Manager, instance, sessionConn).
THEOREM SupTypeCorrect == Spec => []TypeOK
BY SupTypeInvariant, SupTypes, PTL

-----------------------------------------------------------------------------
(* The operation mutex and the reservation.                                *)

\* A daemon that is down has no goroutine.
DownIsIdle == daemon = "down" => \A t \in Callers : pc[t] = "idle"

\* Nobody works on an instance while RecoverSessions runs, if no request comes.
QuietRecovery ==
    QuietBoot /\ pc[Main] \in RecoverPCs => \A t \in Callers \ {Main} : pc[t] = "idle"

OpInv ==
    /\ LockDiscipline
    /\ ReservationExcludes
    /\ DownIsIdle
    /\ QuietRecovery

\* A step that is none of the mutex's business.
LEMMA OpFrame ==
    ASSUME OpInv, UNCHANGED <<op, pc, target, job, daemon, deployLocked>>
    PROVE  OpInv'
BY DEF OpInv, LockDiscipline, ReservationExcludes, DownIsIdle, QuietRecovery

\* A goroutine goes on inside its operation.
LEMMA OpGoes ==
    ASSUME SupTypeInv, OpInv, NEW t \in Callers, NEW label \in HoldPCs, pc[t] \in HoldPCs,
           Goto(t, label), UNCHANGED <<op, target, job, daemon, deployLocked>>
    PROVE  OpInv'
<1>1. pc[t] # "idle" /\ label \notin RecoverPCs /\ pc[t] \notin RecoverPCs
  BY DEF HoldPCs, StartPCs, StopPCs, WorkPCs, RecoverPCs
<1>2. pc'[t] = label /\ \A u \in Callers \ {t} : pc'[u] = pc[u]
  BY DEF Goto, SupTypeInv, LocalTypes
<1> QED
  BY <1>1, <1>2, SupervisorConstants
     DEF OpInv, LockDiscipline, ReservationExcludes, DownIsIdle, QuietRecovery

\* It ends and unlocks.
LEMMA OpEnds ==
    ASSUME SupTypeInv, OpInv, NEW t \in Callers, pc[t] \in HoldPCs, EndOp(t),
           UNCHANGED <<daemon, deployLocked>>
    PROVE  OpInv'
<1>1. /\ pc[t] # "idle" /\ pc[t] \notin RecoverPCs
      /\ pc'[t] \in {"idle", "autostart"} /\ pc'[t] \notin HoldPCs \cup RecoverPCs
      /\ \A u \in Callers \ {t} : pc'[u] = pc[u] /\ target'[u] = target[u] /\ job'[u] = job[u]
  BY DEF EndOp, SupTypeInv, LocalTypes, HoldPCs, StartPCs, StopPCs, WorkPCs, RecoverPCs
<1>2. /\ target[t] \in Instances /\ op[target[t]] = t
      /\ op'[target[t]] = Free
      /\ \A i \in Instances \ {target[t]} : op'[i] = op[i]
  BY DEF EndOp, SupTypeInv, InstTypes, HoldsInstance, OpInv, LockDiscipline
<1>3. LockDiscipline'
  BY <1>1, <1>2, SupervisorConstants DEF OpInv, LockDiscipline
<1> QED
  BY <1>1, <1>3, SupervisorConstants DEF OpInv, ReservationExcludes, DownIsIdle, QuietRecovery

\* An operation begins: the mutex was free.
LEMMA OpBegins ==
    ASSUME SupTypeInv, OpInv, NEW t \in Callers, NEW i \in Instances, NEW j, NEW label \in HoldPCs,
           Acquire(t, i, j, label), pc[t] \notin HoldPCs \cup RecoverPCs, daemon # "down",
           deployLocked[i] => j = "deploy",
           t # Main => (QuietBoot => pc[Main] \notin RecoverPCs),
           UNCHANGED <<daemon, deployLocked>>
    PROVE  OpInv'
<1>1. label \notin RecoverPCs
  BY DEF HoldPCs, StartPCs, StopPCs, WorkPCs, RecoverPCs
<1>2. /\ pc'[t] = label /\ target'[t] = i /\ job'[t] = j /\ op[i] = Free /\ op'[i] = t
      /\ \A u \in Callers \ {t} : pc'[u] = pc[u] /\ target'[u] = target[u] /\ job'[u] = job[u]
      /\ \A k \in Instances \ {i} : op'[k] = op[k]
  <2>1. pc' = [pc EXCEPT ![t] = label] /\ target' = [target EXCEPT ![t] = i]
        /\ job' = [job EXCEPT ![t] = j] /\ op' = [op EXCEPT ![i] = t] /\ op[i] = Free
    BY DEF Acquire, Goto
  <2> QED
    BY <2>1 DEF SupTypeInv, LocalTypes, InstTypes
<1>3. LockDiscipline'
  BY <1>2, SupervisorConstants DEF OpInv, LockDiscipline
<1>4. ReservationExcludes'
  BY <1>2 DEF OpInv, ReservationExcludes
<1> QED
  BY <1>1, <1>2, <1>3, <1>4, SupervisorConstants DEF OpInv, DownIsIdle, QuietRecovery

LEMMA OpStep == SupTypeInv /\ OpInv /\ [Next]_vars => OpInv'
<1> SUFFICES ASSUME SupTypeInv, OpInv, [Next]_vars
             PROVE  OpInv'
  OBVIOUS
<1> USE DEF instVars, connVars, localVars, bootVars
<1>p. /\ HoldPCs \cap (RecoverPCs \cup {"idle", "autostart"}) = {}
      /\ "idle" \notin RecoverPCs /\ "autostart" \notin RecoverPCs
      /\ StartPCs \cup StopPCs \cup WorkPCs \subseteq HoldPCs
  BY DEF HoldPCs, StartPCs, StopPCs, WorkPCs, RecoverPCs
<1>t. pc \in [Callers -> PCs] /\ op \in [Instances -> Callers \cup {Free}] /\ Main \in Callers
      /\ Free \notin Callers /\ deployLocked \in [Instances -> BOOLEAN]
  BY SupervisorConstants DEF SupTypeInv, LocalTypes, InstTypes
<1>1. ASSUME NEW t \in Callers, NEW i \in Instances, NEW j \in AllJobs, BeginLifecycle(t, i, j)
      PROVE  OpInv'
  BY <1>1, <1>p, OpBegins DEF BeginLifecycle, Idle, StartPCs, StopPCs
<1>2. ASSUME NEW t \in Callers, NEW i \in Instances, NEW j \in AllJobs, BeginMutation(t, i, j)
      PROVE  OpInv'
  BY <1>2, <1>p, OpBegins DEF BeginMutation, Idle, WorkPCs
<1>3. ASSUME NEW t \in Callers, NEW i \in Instances, BeginDeploy(t, i)
      PROVE  OpInv'
  BY <1>3, <1>p, OpBegins DEF BeginDeploy, Idle, WorkPCs, StopPCs
<1>4. ASSUME NEW targets \in SUBSET Instances, ReserveDeployment(targets)
      PROVE  OpInv'
  <2>1. \A i \in Instances : deployLocked'[i] = (deployLocked[i] \/ i \in targets)
    BY <1>4 DEF ReserveDeployment
  <2>2. ReservationExcludes'
    BY <1>4, <1>t, <2>1 DEF ReserveDeployment, SupTypeInv, HoldsInstance, OpInv, LockDiscipline,
       ReservationExcludes
  <2> QED
    BY <1>4, <2>2 DEF ReserveDeployment, OpInv, LockDiscipline, DownIsIdle, QuietRecovery
<1>5. ASSUME NEW i \in Instances, ReleaseDeployment(i)
      PROVE  OpInv'
  BY <1>5, <1>t DEF ReleaseDeployment, SupTypeInv, HoldsInstance, OpInv, LockDiscipline,
     ReservationExcludes, DownIsIdle, QuietRecovery
<1>6. ASSUME NEW t \in Callers, NEW i \in Instances, AutoRestartFires(t, i)
      PROVE  OpInv'
  BY <1>6, <1>p, OpBegins, OpFrame DEF AutoRestartFires, Idle, StartPCs
<1>7. ASSUME NEW t \in Callers, StartStep(t)
      PROVE  OpInv'
  <2>1. pc[t] \in HoldPCs
    BY <1>7, <1>p DEF StartStep, StartPCs, StartCheck, HookDone, StartFails, Inspect, AttachExisting,
       AttachExistingFails, CreateSession, SessionCreated, SessionNotCreated, AttachNew,
       AttachNewFails, StartBinds
  <2>2. UNCHANGED <<daemon, deployLocked>>
    BY <1>7 DEF StartStep, StartCheck, HookDone, StartFails, FailStart, Inspect, AttachExisting,
       AttachExistingFails, CreateSession, SessionCreated, SessionNotCreated, AttachNew,
       AttachNewFails, StartBinds
  <2>3. \/ EndOp(t)
        \/ (\E label \in StartPCs : Goto(t, label)) /\ UNCHANGED <<op, target, job>>
    BY <1>7 DEF StartStep, StartPCs, StartCheck, HookDone, StartFails, FailStart, Inspect,
       AttachExisting, AttachExistingFails, CreateSession, SessionCreated, SessionNotCreated,
       AttachNew, AttachNewFails, StartBinds, Dial
  <2> QED
    BY <1>p, <2>1, <2>2, <2>3, OpEnds, OpGoes
<1>8. ASSUME NEW t \in Callers, StopStep(t) \/ WorkStep(t)
      PROVE  OpInv'
  <2>1. pc[t] \in HoldPCs
    BY <1>8, <1>p DEF StopStep, StopPCs, WorkPCs, StopNothing, StopBegins, StopDone, StopTimeout,
       KillTimeout, WorkStep, DeployMarks, DeployApplied, MutationEnds
  <2>2. UNCHANGED <<daemon, deployLocked>>
    BY <1>8 DEF StopStep, StopNothing, StopBegins, StopDone, StopTimeout, KillTimeout, WorkStep,
       DeployMarks, DeployApplied, MutationEnds
  <2>3. \/ EndOp(t)
        \/ (\E label \in HoldPCs : Goto(t, label)) /\ UNCHANGED <<op, target, job>>
    BY <1>8 DEF StopStep, HoldPCs, StartPCs, StopPCs, WorkPCs, StopNothing, StopBegins, StopDone,
       StopTimeout, KillTimeout, AfterStop, WorkStep, DeployMarks, DeployApplied, MutationEnds
  <2> QED
    BY <2>1, <2>2, <2>3, OpEnds, OpGoes
<1>9. ASSUME NEW c \in Conns, ConsumeExit(c) \/ LoseLink(c) \/ WaitSession(c)
      PROVE  OpInv'
  BY <1>9, OpFrame DEF ConsumeExit, LoseLink, WaitSession
<1>10. ASSUME NEW i \in Instances, RestartWindow(i) \/ DetachSession(i)
       PROVE  OpInv'
  BY <1>10, OpFrame DEF RestartWindow, DetachSession
<1>11. CASE Boot
  BY <1>11, <1>p, <1>t DEF Boot, Goto, OpInv, LockDiscipline, ReservationExcludes, DownIsIdle,
     QuietRecovery, RecoverPCs
<1>12. CASE BeginShutdown
  BY <1>12 DEF BeginShutdown, OpInv, LockDiscipline, ReservationExcludes, DownIsIdle, QuietRecovery
<1>13. CASE RecoverList \/ (\E h \in Hosts : RecoverAttach(h)) \/ RecoverBind \/ RecoverDone \/ BootDone
  <2>1. /\ pc[Main] \in RecoverPCs \cup {"autostart"}
        /\ UNCHANGED <<op, job, daemon, deployLocked>>
        /\ \A u \in Callers \ {Main} : pc'[u] = pc[u] /\ target'[u] = target[u]
        /\ pc'[Main] \in RecoverPCs \cup {"autostart", "idle"}
        /\ pc'[Main] \in RecoverPCs => pc[Main] \in RecoverPCs
    BY <1>13, <1>t DEF RecoverList, RecoverAttach, Dial, RecoverBind, RecoverDone, BootDone, Goto,
       BindSession, RecoverPCs, SupTypeInv, LocalTypes
  <2> QED
    BY <1>p, <1>t, <2>1 DEF OpInv, LockDiscipline, ReservationExcludes, DownIsIdle, QuietRecovery
<1>14. ASSUME NEW i \in Instances, StartAutoNext(i)
       PROVE  OpInv'
  <2>1. pc[Main] = "autostart" /\ daemon # "down"
    BY <1>14, <1>t DEF StartAutoNext, OpInv, DownIsIdle
  <2> QED
    BY <1>14, <1>p, <1>t, <2>1, OpBegins, OpFrame DEF StartAutoNext, StartPCs
<1>15. CASE DaemonExit
  BY <1>15, <1>p, <1>t DEF DaemonExit, OpInv, LockDiscipline, ReservationExcludes, DownIsIdle,
     QuietRecovery
<1>16. CASE SessiondStep
  BY <1>16, OpFrame DEF SessiondStep
<1>17. CASE UNCHANGED vars
  BY <1>17, OpFrame DEF vars
<1> QED
  BY <1>1, <1>2, <1>3, <1>4, <1>5, <1>6, <1>7, <1>8, <1>9, <1>10, <1>11, <1>12, <1>13, <1>14, <1>15,
     <1>16, <1>17 DEF Next, Begin, BootStep

LEMMA OpInvariant == Spec => []OpInv
<1>1. Init => OpInv
  BY SupervisorConstants DEF Init, OpInv, LockDiscipline, ReservationExcludes, DownIsIdle,
     QuietRecovery, HoldPCs, StartPCs, StopPCs, WorkPCs, RecoverPCs
<1> QED
  BY <1>1, OpStep, SupTypeInvariant, PTL DEF Spec

\* No two operations of an instance overlap and every path unlocks
\* (Manager.Start and its siblings, the deferred op.Unlock).
THEOREM SupLockDiscipline == Spec => []LockDiscipline
<1>1. OpInv => LockDiscipline
  BY DEF OpInv
<1> QED
  BY <1>1, OpInvariant, PTL

\* A reservation keeps every other operation out (ReserveDeployment,
\* deploymentLockError).
THEOREM SupReservationExcludes == Spec => []ReservationExcludes
<1>1. OpInv => ReservationExcludes
  BY DEF OpInv
<1> QED
  BY <1>1, OpInvariant, PTL

\* What an operation of an instance relies on holds as a whole
\* (Manager.Start and its siblings, ReserveDeployment).
THEOREM SupOperationsExclude == Spec => []OperationsExclude
<1>1. TypeOK /\ LockDiscipline /\ ReservationExcludes => OperationsExclude
  BY DEF OperationsExclude
<1> QED
  BY <1>1, SupTypeCorrect, SupLockDiscipline, SupReservationExcludes, PTL

-----------------------------------------------------------------------------
(* Sessions and their waiters.                                             *)

BindPCs == {"bind", "recoverBind"}

\* A daemon that is down has no instance at work and no connection.
DownIsEmpty ==
    daemon = "down" =>
        /\ \A i \in Instances : session[i] = NoConn /\ state[i] = "stopped"
        /\ waiting = {}
        /\ open = {}

SessionTracked ==
    \A i \in Instances : session[i] # NoConn =>
        /\ session[i] \in waiting
        /\ connInst[session[i]] = i
        /\ session[i] \in open \cup done
        /\ session[i] \notin detached

\* A connection about to be bound is nobody else's.
BindIsNew ==
    \A t \in Callers : pc[t] \in BindPCs =>
        /\ conn[t] \in (open \cup done) \ detached
        /\ connInst[conn[t]] = target[t]
        /\ \A i \in Instances : session[i] # conn[t]
        /\ \A u \in Callers \ {t} : conn[u] # conn[t]

RunningHasSession ==
    \A i \in Instances : state[i] = "running" /\ daemon = "up" => session[i] # NoConn

ConnInv ==
    /\ DownIsEmpty
    /\ SessionTracked
    /\ BindIsNew
    /\ RunningHasSession

\* Goroutines that neither bind nor dial: their connection is kept, dropped,
\* or the session of an instance.
BindersKept ==
    \A u \in Callers :
        /\ pc'[u] \in BindPCs => pc'[u] = pc[u] /\ conn'[u] = conn[u] /\ target'[u] = target[u]
        /\ conn'[u] \in {conn[u], NoConn} \cup {session[i] : i \in Instances}

\* A step that leaves sessions and connections alone.
Plain ==
    /\ UNCHANGED <<session, connVars, daemon>>
    /\ BindersKept
    /\ \A i \in Instances : state'[i] = "running" => state[i] = "running"
    /\ daemon = "down" => UNCHANGED state

LEMMA EndOpKeeps ==
    ASSUME SupTypeInv, NEW t \in Callers, EndOp(t)
    PROVE  BindersKept
<1>1. pc'[t] \notin BindPCs /\ conn'[t] = NoConn
  BY DEF EndOp, SupTypeInv, LocalTypes, BindPCs
<1>2. \A u \in Callers \ {t} : pc'[u] = pc[u] /\ conn'[u] = conn[u] /\ target'[u] = target[u]
  BY DEF EndOp, SupTypeInv, LocalTypes
<1> QED
  BY <1>1, <1>2 DEF BindersKept

LEMMA GotoKeeps ==
    ASSUME SupTypeInv, NEW t \in Callers, NEW label, label \notin BindPCs, Goto(t, label),
           \A u \in Callers \ {t} : target'[u] = target[u],
           \/ UNCHANGED conn
           \/ \E i \in Instances : conn' = [conn EXCEPT ![t] = session[i]]
    PROVE  BindersKept
<1>1. pc'[t] \notin BindPCs /\ \A u \in Callers \ {t} : pc'[u] = pc[u] /\ conn'[u] = conn[u]
  BY DEF Goto, SupTypeInv, LocalTypes
<1>2. conn'[t] \in {conn[t], NoConn} \cup {session[i] : i \in Instances}
  BY DEF SupTypeInv, LocalTypes
<1> QED
  BY <1>1, <1>2 DEF BindersKept

LEMMA AcquireKeeps ==
    ASSUME SupTypeInv, NEW t \in Callers, NEW i \in Instances, NEW j, NEW label,
           label \notin BindPCs, Acquire(t, i, j, label), UNCHANGED conn
    PROVE  BindersKept
<1>1. Goto(t, label) /\ \A u \in Callers \ {t} : target'[u] = target[u]
  BY DEF Acquire, SupTypeInv, LocalTypes
<1> QED
  BY <1>1, GotoKeeps

LEMMA PlainSteps ==
    ASSUME SupTypeInv, OpInv, [Next]_vars
    PROVE  \/ Plain
           \/ \E t \in Callers : AttachExisting(t) \/ AttachNew(t) \/ StartBinds(t)
           \/ \E h \in Hosts : RecoverAttach(h)
           \/ \E c \in Conns : ConsumeExit(c) \/ LoseLink(c) \/ WaitSession(c)
           \/ \E i \in Instances : DetachSession(i)
           \/ RecoverBind \/ Boot \/ BeginShutdown \/ DaemonExit
<1> USE DEF instVars, connVars, localVars, bootVars, BindPCs
<1>d. \A t \in Callers : pc[t] # "idle" => daemon # "down"
  BY DEF OpInv, DownIsIdle
<1>e. UNCHANGED localVars => BindersKept
  BY DEF BindersKept
<1>m. Main \in Callers
  BY SupervisorConstants
<1>1. ASSUME NEW t \in Callers, NEW i \in Instances, NEW j \in AllJobs,
             BeginLifecycle(t, i, j) \/ BeginMutation(t, i, j) \/ BeginDeploy(t, i)
      PROVE  Plain
  BY <1>1, AcquireKeeps DEF BeginLifecycle, BeginMutation, BeginDeploy, Plain
<1>2. ASSUME NEW targets \in SUBSET Instances, ReserveDeployment(targets)
      PROVE  Plain
  BY <1>2, <1>e DEF ReserveDeployment, Plain
<1>3. ASSUME NEW i \in Instances, ReleaseDeployment(i) \/ RestartWindow(i)
      PROVE  Plain
  BY <1>3, <1>e DEF ReleaseDeployment, RestartWindow, Plain
<1>4. ASSUME NEW t \in Callers, NEW i \in Instances, AutoRestartFires(t, i)
      PROVE  Plain
  <2>1. BindersKept
    BY <1>4, AcquireKeeps DEF AutoRestartFires, BindersKept
  <2> QED
    BY <1>4, <2>1 DEF AutoRestartFires, Plain
<1>5. ASSUME NEW t \in Callers,
             \/ StartCheck(t) \/ HookDone(t) \/ StartFails(t) \/ Inspect(t)
             \/ AttachExistingFails(t) \/ CreateSession(t) \/ SessionCreated(t)
             \/ SessionNotCreated(t) \/ AttachNewFails(t)
      PROVE  Plain
  <2>1. UNCHANGED <<session, connVars, daemon>> /\ pc[t] # "idle"
    BY <1>5 DEF StartCheck, HookDone, StartFails, FailStart, Inspect, AttachExistingFails,
       CreateSession, SessionCreated, SessionNotCreated, AttachNewFails
  <2>2. BindersKept
    BY <1>5, EndOpKeeps, GotoKeeps DEF StartCheck, HookDone, StartFails, FailStart, Inspect,
       AttachExistingFails, CreateSession, SessionCreated, SessionNotCreated, AttachNewFails
  <2>3. UNCHANGED state \/ \E s \in {"starting", "failed"} : state' = [state EXCEPT ![target[t]] = s]
    BY <1>5 DEF StartCheck, HookDone, StartFails, FailStart, Inspect, AttachExistingFails,
       CreateSession, SessionCreated, SessionNotCreated, AttachNewFails
  <2> QED
    BY <1>d, <2>1, <2>2, <2>3 DEF Plain, SupTypeInv, InstTypes
<1>6. ASSUME NEW t \in Callers, StopStep(t) \/ WorkStep(t)
      PROVE  Plain
  <2>1. UNCHANGED <<session, connVars, daemon>> /\ pc[t] \in HoldPCs /\ pc[t] # "idle"
    BY <1>6 DEF StopStep, StopNothing, StopBegins, StopDone, StopTimeout, KillTimeout, WorkStep,
       DeployMarks, DeployApplied, MutationEnds, HoldPCs, StopPCs, WorkPCs
  <2>2. target[t] \in Instances
    BY <2>1 DEF SupTypeInv, HoldsInstance
  <2>3. BindersKept
    BY <1>6, <2>2, EndOpKeeps, GotoKeeps DEF StopStep, StopNothing, StopBegins, StopDone,
       StopTimeout, KillTimeout, AfterStop, WorkStep, DeployMarks, DeployApplied, MutationEnds
  <2>4. \/ UNCHANGED state
        \/ \E s \in {"stopped", "stopping", "deploying", "failed"} :
               state' = [state EXCEPT ![target[t]] = s]
    BY <1>6 DEF StopStep, StopNothing, StopBegins, StopDone, StopTimeout, KillTimeout, WorkStep,
       DeployMarks, DeployApplied, MutationEnds
  <2> QED
    BY <1>d, <2>1, <2>3, <2>4 DEF Plain, SupTypeInv, InstTypes
<1>7. CASE RecoverList \/ RecoverDone \/ BootDone
  BY <1>7, <1>m, GotoKeeps DEF RecoverList, RecoverDone, BootDone, Plain
<1>8. ASSUME NEW i \in Instances, StartAutoNext(i)
      PROVE  Plain
  <2>1. BindersKept
    BY <1>8, <1>m, AcquireKeeps DEF StartAutoNext, BindersKept
  <2> QED
    BY <1>8, <2>1 DEF StartAutoNext, Plain
<1>9. CASE SessiondStep
  BY <1>9, <1>e DEF SessiondStep, Plain
<1>10. CASE UNCHANGED vars
  BY <1>10, <1>e DEF vars, Plain
<1>11. ASSUME NEW t \in Callers, StartStep(t)
       PROVE  Plain \/ AttachExisting(t) \/ AttachNew(t) \/ StartBinds(t)
  BY ONLY <1>5, <1>11 DEF StartStep
<1>12. CASE BootStep
  BY ONLY <1>7, <1>8, <1>12 DEF BootStep
<1>13. CASE Begin
  BY ONLY <1>1, <1>13 DEF Begin, AllJobs
<1> QED
  BY ONLY [Next]_vars, <1>2, <1>3, <1>4, <1>6, <1>9, <1>10, <1>11, <1>12, <1>13 DEF Next

\* A dial by t on behalf of i gives t a connection nobody has.
Dialled(t, i, c) ==
    /\ FreeConn(c)
    /\ connInst' = [connInst EXCEPT ![c] = i]
    /\ open' = open \cup {c}
    /\ done' = done \ {c}
    /\ detached' = detached \ {c}
    /\ conn' = [conn EXCEPT ![t] = c]
    /\ target'[t] = i
    /\ \A u \in Callers \ {t} : pc'[u] = pc[u] /\ target'[u] = target[u]
    /\ UNCHANGED <<waiting, session, state, expectedExit, daemon>>

LEMMA Dials ==
    ASSUME SupTypeInv, OpInv, NEW t \in Callers, NEW i \in Instances \cup {NoInstance}, NEW h,
           NEW label, Dial(t, i, h, label), target' = target \/ target' = [target EXCEPT ![t] = i],
           target'[t] = i, UNCHANGED <<session, state, expectedExit, daemon>>
    PROVE  \E c \in Conns : Dialled(t, i, c)
<1>1. PICK c \in Conns :
        /\ FreeConn(c)
        /\ connInst' = [connInst EXCEPT ![c] = i]
        /\ open' = open \cup {c}
        /\ done' = done \ {c}
        /\ detached' = detached \ {c}
        /\ conn' = [conn EXCEPT ![t] = c]
  BY DEF Dial
<1>2. \A u \in Callers \ {t} : pc'[u] = pc[u] /\ target'[u] = target[u]
  BY DEF Dial, Goto, SupTypeInv, LocalTypes
<1>3. UNCHANGED waiting
  BY DEF Dial
<1> QED
  BY <1>1, <1>2, <1>3 DEF Dialled

LEMMA DialKeeps ==
    ASSUME SupTypeInv, ConnInv, NEW t \in Callers, NEW i, NEW c \in Conns, Dialled(t, i, c),
           daemon # "down"
    PROVE  ConnInv'
<1>1. /\ c \notin open \cup waiting
      /\ \A k \in Instances : session[k] # c
      /\ \A u \in Callers : conn[u] # c
      /\ connInst'[c] = i
      /\ \A d \in Conns \ {c} : connInst'[d] = connInst[d]
      /\ conn'[t] = c
      /\ \A u \in Callers \ {t} : conn'[u] = conn[u] /\ pc'[u] = pc[u] /\ target'[u] = target[u]
  BY DEF Dialled, FreeConn, SupTypeInv, ConnTypes, LocalTypes
<1>2. SessionTracked'
  BY <1>1 DEF Dialled, ConnInv, SessionTracked, SupTypeInv, InstTypes
<1>3. BindIsNew'
  <2> SUFFICES ASSUME NEW u \in Callers, pc'[u] \in BindPCs
               PROVE  /\ conn'[u] \in (open' \cup done') \ detached'
                      /\ connInst'[conn'[u]] = target'[u]
                      /\ \A k \in Instances : session'[k] # conn'[u]
                      /\ \A v \in Callers \ {u} : conn'[v] # conn'[u]
    BY DEF BindIsNew
  <2>1. CASE u = t
    BY <1>1, <2>1 DEF Dialled
  <2>2. CASE u # t
    <3>1. /\ conn[u] \in Conns
          /\ conn[u] \in (open \cup done) \ detached
          /\ connInst[conn[u]] = target[u]
          /\ \A k \in Instances : session[k] # conn[u]
          /\ \A v \in Callers \ {u} : conn[v] # conn[u]
      BY <1>1, <2>2 DEF ConnInv, BindIsNew, SupTypeInv, BindHasConn, BindPCs
    <3> QED
      BY <1>1, <2>2, <3>1 DEF Dialled
  <2> QED
    BY <2>1, <2>2
<1> QED
  BY <1>2, <1>3 DEF Dialled, ConnInv, DownIsEmpty, RunningHasSession

LEMMA ConnStep == SupTypeInv /\ OpInv /\ ConnInv /\ [Next]_vars => ConnInv'
<1> SUFFICES ASSUME SupTypeInv, OpInv, ConnInv, [Next]_vars
             PROVE  ConnInv'
  OBVIOUS
<1> USE DEF instVars, connVars, localVars, bootVars
<1>d. \A t \in Callers : pc[t] # "idle" => daemon # "down"
  BY DEF OpInv, DownIsIdle
<1>m. Main \in Callers
  BY SupervisorConstants
<1>1. CASE Plain
  <2>1. BindIsNew'
    <3> SUFFICES ASSUME NEW t \in Callers, pc'[t] \in BindPCs
                 PROVE  /\ conn'[t] \in (open \cup done) \ detached
                        /\ connInst[conn'[t]] = target'[t]
                        /\ \A i \in Instances : session[i] # conn'[t]
                        /\ \A u \in Callers \ {t} : conn'[u] # conn'[t]
      BY <1>1 DEF Plain, BindIsNew
    <3>1. /\ pc[t] \in BindPCs /\ conn'[t] = conn[t] /\ target'[t] = target[t]
          /\ conn[t] \in Conns
          /\ \A u \in Callers : conn'[u] \in {conn[u], NoConn} \cup {session[i] : i \in Instances}
      BY <1>1 DEF Plain, BindersKept, SupTypeInv, BindHasConn, BindPCs
    <3> QED
      BY <3>1, SupervisorConstants DEF ConnInv, BindIsNew
  <2> QED
    BY <1>1, <2>1 DEF Plain, ConnInv, DownIsEmpty, SessionTracked, RunningHasSession
<1>2. ASSUME NEW t \in Callers, AttachExisting(t) \/ AttachNew(t)
      PROVE  ConnInv'
  <2>1. PICK c \in Conns : Dialled(t, target[t], c)
    <3>1. target[t] \in Instances \cup {NoInstance}
      BY DEF SupTypeInv, LocalTypes
    <3> QED
      BY <1>2, <3>1, Dials DEF AttachExisting, AttachNew
  <2> QED
    BY <1>2, <1>d, <2>1, DialKeeps DEF AttachExisting, AttachNew
<1>3. ASSUME NEW h \in Hosts, RecoverAttach(h)
      PROVE  ConnInv'
  <2>1. CASE CanAttach(inst[h], h)
    <3>1. /\ inst[h] \in Instances \cup {NoInstance}
          /\ target' = [target EXCEPT ![Main] = inst[h]]
          /\ target'[Main] = inst[h]
      BY <1>3, <1>m, <2>1 DEF RecoverAttach, SupTypeInv, LocalTypes, TypeInv, SessTypeOK
    <3>2. PICK c \in Conns : Dialled(Main, inst[h], c)
      BY <1>3, <1>m, <2>1, <3>1, Dials DEF RecoverAttach
    <3> QED
      BY <1>3, <1>d, <1>m, <3>2, DialKeeps DEF RecoverAttach
  <2>2. CASE ~CanAttach(inst[h], h)
    BY <1>3, <2>2 DEF RecoverAttach, ConnInv, DownIsEmpty, SessionTracked, BindIsNew, RunningHasSession
  <2> QED
    BY <2>1, <2>2
<1>4. ASSUME NEW t \in Callers, StartBinds(t) \/ (t = Main /\ RecoverBind)
      PROVE  ConnInv'
  <2>1. /\ pc[t] \in BindPCs
        /\ BindSession(t, target[t])
        /\ conn' = [conn EXCEPT ![t] = NoConn]
        /\ pc'[t] \notin BindPCs
        /\ \A u \in Callers \ {t} : pc'[u] = pc[u] /\ target'[u] = target[u]
        /\ UNCHANGED daemon
    BY <1>4 DEF StartBinds, RecoverBind, EndOp, Goto, BindPCs, SupTypeInv, LocalTypes
  <2>2. /\ conn[t] \in Conns /\ conn[t] # NoConn
        /\ conn'[t] = NoConn
        /\ \A u \in Callers \ {t} : conn'[u] = conn[u]
        /\ \A i \in Instances : session'[i] = IF i = target[t] THEN conn[t] ELSE session[i]
        /\ \A i \in Instances : state'[i] = IF i = target[t] THEN "running" ELSE state[i]
        /\ waiting' = waiting \cup {conn[t]}
        /\ UNCHANGED <<connInst, open, done, detached>>
    BY <2>1, SupervisorConstants
       DEF BindSession, SupTypeInv, LocalTypes, InstTypes, BindHasConn, BindPCs
  <2>3. SessionTracked'
    BY <2>1, <2>2 DEF ConnInv, SessionTracked, BindIsNew
  <2>4. BindIsNew'
    <3> SUFFICES ASSUME NEW u \in Callers, pc'[u] \in BindPCs
                 PROVE  /\ conn'[u] \in (open \cup done) \ detached
                        /\ connInst[conn'[u]] = target'[u]
                        /\ \A i \in Instances : session'[i] # conn'[u]
                        /\ \A v \in Callers \ {u} : conn'[v] # conn'[u]
      BY <2>2 DEF BindIsNew
    <3>1. u # t /\ pc[u] \in BindPCs /\ conn'[u] = conn[u] /\ target'[u] = target[u]
          /\ conn[u] \in Conns
      BY <2>1, <2>2 DEF SupTypeInv, BindHasConn, BindPCs
    <3> QED
      BY <2>2, <3>1, SupervisorConstants DEF ConnInv, BindIsNew
  <2>5. daemon # "down"
    BY <2>1, <1>d DEF BindPCs
  <2> QED
    BY <2>1, <2>2, <2>3, <2>4, <2>5 DEF ConnInv, DownIsEmpty, RunningHasSession
<1>5. ASSUME NEW c \in Conns, ConsumeExit(c) \/ LoseLink(c)
      PROVE  ConnInv'
  BY <1>5 DEF ConsumeExit, LoseLink, CloseConn, ConnInv, DownIsEmpty, SessionTracked, BindIsNew,
     RunningHasSession
<1>6. ASSUME NEW c \in Conns, WaitSession(c)
      PROVE  ConnInv'
  <2>1. \A i \in Instances : session[i] = c => i = connInst[c] /\ c \notin detached
    BY <1>6, SupervisorConstants DEF ConnInv, SessionTracked
  <2>2. \A i \in Instances :
          \/ session[i] # c /\ session'[i] = session[i]
                            /\ state'[i] = state[i]
          \/ session'[i] = NoConn /\ state'[i] \in {"stopped", "failed"}
    BY <1>6, <2>1 DEF WaitSession, SupTypeInv, InstTypes
  <2>3. daemon # "down" /\ waiting' = waiting \ {c}
        /\ UNCHANGED <<connInst, open, done, detached, pc, target, conn, daemon>>
    BY <1>6 DEF WaitSession, ConnInv, DownIsEmpty
  <2>4. SessionTracked'
    BY <2>2, <2>3 DEF ConnInv, SessionTracked
  <2>5. BindIsNew'
    BY <2>2, <2>3, SupervisorConstants DEF ConnInv, BindIsNew, SupTypeInv, BindHasConn, BindPCs
  <2> QED
    BY <2>2, <2>3, <2>4, <2>5 DEF ConnInv, DownIsEmpty, RunningHasSession
<1>7. ASSUME NEW i \in Instances, DetachSession(i)
      PROVE  ConnInv'
  <2>1. /\ session'[i] = NoConn
        /\ \A k \in Instances \ {i} : session'[k] = session[k]
        /\ detached' = detached \cup {session[i]}
        /\ open' \cup done' = open \cup done \cup {session[i]}
        /\ daemon = "closing"
        /\ UNCHANGED <<state, connInst, waiting, pc, target, conn, daemon>>
    BY <1>7 DEF DetachSession, CloseConn, SupTypeInv, InstTypes
  <2>2. SessionTracked'
    BY <2>1 DEF ConnInv, SessionTracked
  <2>3. BindIsNew'
    BY <2>1, SupervisorConstants DEF ConnInv, BindIsNew, SupTypeInv, BindHasConn, BindPCs
  <2> QED
    BY <2>1, <2>2, <2>3 DEF ConnInv, DownIsEmpty, RunningHasSession
<1>8. CASE Boot \/ BeginShutdown
  BY <1>8, <1>m DEF Boot, BeginShutdown, Goto, SupTypeInv, LocalTypes, BindPCs, ConnInv,
     DownIsEmpty, SessionTracked, BindIsNew, RunningHasSession
<1>9. CASE DaemonExit
  BY <1>9 DEF DaemonExit, BindPCs, ConnInv, DownIsEmpty, SessionTracked, BindIsNew, RunningHasSession
<1> QED
  BY ONLY PlainSteps, SupTypeInv, OpInv, [Next]_vars, <1>m, <1>1, <1>2, <1>3, <1>4, <1>5, <1>6, <1>7, <1>8, <1>9

LEMMA ConnInvariant == Spec => []ConnInv
<1>1. Init => ConnInv
  BY DEF Init, ConnInv, DownIsEmpty, SessionTracked, BindIsNew, BindPCs, RunningHasSession
<1> QED
  BY <1>1, ConnStep, SupTypeInvariant, OpInvariant, PTL DEF Spec

\* A session an instance relies on is watched and its own, and a running
\* instance has one (bindSession, waitSession, detachSession).
THEOREM SupSessionIsWatched == Spec => []SessionIsWatched
<1>1. ConnInv => SessionIsWatched
  BY DEF ConnInv, SessionTracked, RunningHasSession, SessionIsWatched
<1> QED
  BY <1>1, ConnInvariant, PTL

-----------------------------------------------------------------------------
(* A stop is never taken back.                                             *)

\* Where startLocked and DeployInstance have left "stopping" behind.
StartedPCs == (StartPCs \ {"start"}) \cup {"applying"}

NotStopping == \A t \in Callers : pc[t] \in StartedPCs => state[target[t]] # "stopping"

StoppingExpectsExit ==
    \A i \in Instances : state[i] = "stopping" /\ session[i] # NoConn => expectedExit[i]

RecoverFindsNoStop ==
    QuietBoot /\ pc[Main] \in RecoverPCs => \A i \in Instances : state[i] # "stopping"

StopInv == NotStopping /\ StoppingExpectsExit /\ RecoverFindsNoStop

\* The mutex keeps the others away from the instance t works on.
LEMMA OthersElsewhere ==
    ASSUME SupTypeInv, OpInv, NEW t \in Callers, NEW u \in Callers \ {t},
           pc[t] \in HoldPCs, pc[u] \in HoldPCs
    PROVE  target[t] # target[u]
BY DEF SupTypeInv, HoldsInstance, OpInv, LockDiscipline

\* A goroutine that moves without touching the instances.
Moves(t) ==
    /\ \A u \in Callers \ {t} : pc'[u] = pc[u] /\ target'[u] = target[u]
    /\ pc'[t] \in StartedPCs => pc[t] \in StartedPCs /\ target'[t] = target[t]
    /\ pc'[Main] \in RecoverPCs => pc[Main] \in RecoverPCs

LEMMA MoveKeepsStop ==
    ASSUME SupTypeInv, StopInv, NEW t \in Callers, Moves(t), UNCHANGED <<state, session, expectedExit>>
    PROVE  StopInv'
BY SupervisorConstants DEF StopInv, NotStopping, StoppingExpectsExit, RecoverFindsNoStop, Moves

\* A goroutine sets the state of the instance it works on.
LEMMA OwnStateKeepsStop ==
    ASSUME SupTypeInv, OpInv, StopInv, NEW t \in Callers, pc[t] \in HoldPCs, NEW s \in States,
           s # "stopping", state' = [state EXCEPT ![target[t]] = s],
           \A u \in Callers \ {t} : pc'[u] = pc[u] /\ target'[u] = target[u],
           pc'[t] \in StartedPCs => target'[t] = target[t],
           pc'[t] \notin RecoverPCs,
           UNCHANGED <<session, expectedExit>>
    PROVE  StopInv'
<1>1. /\ target[t] \in Instances
      /\ state'[target[t]] = s
      /\ \A i \in Instances \ {target[t]} : state'[i] = state[i]
  BY DEF SupTypeInv, HoldsInstance, InstTypes
<1>2. NotStopping'
  <2>1. \A u \in Callers \ {t} : pc[u] \in StartedPCs => target[u] \in Instances \ {target[t]}
    BY OthersElsewhere DEF SupTypeInv, HoldsInstance, StartedPCs, HoldPCs, WorkPCs
  <2> QED
    BY <1>1, <2>1 DEF StopInv, NotStopping
<1>3. pc'[Main] \in RecoverPCs => pc[Main] \in RecoverPCs
  BY SupervisorConstants
<1> QED
  BY <1>1, <1>2, <1>3 DEF StopInv, StoppingExpectsExit, RecoverFindsNoStop

LEMMA EndOpMoves ==
    ASSUME SupTypeInv, NEW t \in Callers, EndOp(t)
    PROVE  Moves(t) /\ pc'[t] \notin StartedPCs \cup RecoverPCs
<1>1. pc'[t] \in {"idle", "autostart"} /\ pc'[t] \notin StartedPCs \cup RecoverPCs
  BY DEF EndOp, SupTypeInv, LocalTypes, StartedPCs, StartPCs, RecoverPCs
<1>2. \A u \in Callers \ {t} : pc'[u] = pc[u] /\ target'[u] = target[u]
  BY DEF EndOp, SupTypeInv, LocalTypes
<1> QED
  BY <1>1, <1>2, SupervisorConstants DEF Moves

LEMMA GotoMoves ==
    ASSUME SupTypeInv, NEW t \in Callers, NEW label, Goto(t, label), UNCHANGED target,
           label \in StartedPCs => pc[t] \in StartedPCs,
           label \notin RecoverPCs
    PROVE  Moves(t) /\ pc'[t] = label
BY SupervisorConstants DEF Goto, SupTypeInv, LocalTypes, Moves

LEMMA AcquireMoves ==
    ASSUME SupTypeInv, NEW t \in Callers, NEW i \in Instances, NEW j, NEW label,
           label \notin StartedPCs \cup RecoverPCs, Acquire(t, i, j, label)
    PROVE  Moves(t)
<1>1. pc'[t] = label /\ \A u \in Callers \ {t} : pc'[u] = pc[u] /\ target'[u] = target[u]
  BY DEF Acquire, Goto, SupTypeInv, LocalTypes
<1> QED
  BY <1>1, SupervisorConstants DEF Moves

LEMMA StopInvStep == SupTypeInv /\ OpInv /\ ConnInv /\ StopInv /\ [Next]_vars => StopInv'
<1> SUFFICES ASSUME SupTypeInv, OpInv, ConnInv, StopInv, [Next]_vars
             PROVE  StopInv'
  OBVIOUS
<1> USE DEF instVars, connVars, localVars, bootVars
<1>p. /\ StartedPCs \cap (RecoverPCs \cup {"idle", "autostart", "start", "deploy"} \cup StopPCs) = {}
      /\ HoldPCs \cap RecoverPCs = {} /\ StartedPCs \subseteq HoldPCs
      /\ {"start", "deploy", "mutating"} \cup StopPCs \subseteq HoldPCs \ StartedPCs
      /\ {"start", "deploy", "mutating"} \cap RecoverPCs = {} /\ StopPCs \cap RecoverPCs = {}
      /\ StartPCs = (StartedPCs \ {"applying"}) \cup {"start"}
      /\ "idle" \notin RecoverPCs /\ "autostart" \notin RecoverPCs
  BY DEF StartedPCs, HoldPCs, StartPCs, StopPCs, WorkPCs, RecoverPCs
<1>m. Main \in Callers
  BY SupervisorConstants
<1>f. ASSUME UNCHANGED <<pc, target, state, session, expectedExit>>
      PROVE  StopInv'
  BY <1>f DEF StopInv, NotStopping, StoppingExpectsExit, RecoverFindsNoStop
<1>1. ASSUME NEW t \in Callers, NEW i \in Instances, NEW j \in AllJobs,
             BeginLifecycle(t, i, j) \/ BeginMutation(t, i, j) \/ BeginDeploy(t, i)
      PROVE  StopInv'
  <2>1. Moves(t)
    BY <1>1, <1>p, AcquireMoves DEF BeginLifecycle, BeginMutation, BeginDeploy, StopPCs
  <2> QED
    BY <1>1, <2>1, MoveKeepsStop DEF BeginLifecycle, BeginMutation, BeginDeploy
<1>2. ASSUME NEW targets \in SUBSET Instances, ReserveDeployment(targets)
      PROVE  StopInv'
  BY <1>2, <1>f DEF ReserveDeployment
<1>3. ASSUME NEW i \in Instances, ReleaseDeployment(i) \/ RestartWindow(i)
      PROVE  StopInv'
  BY <1>3, <1>f DEF ReleaseDeployment, RestartWindow
<1>4. ASSUME NEW t \in Callers, NEW i \in Instances, AutoRestartFires(t, i)
      PROVE  StopInv'
  <2>1. Moves(t)
    BY <1>4, <1>p, AcquireMoves DEF AutoRestartFires, Moves
  <2> QED
    BY <1>4, <2>1, MoveKeepsStop DEF AutoRestartFires
<1>5. ASSUME NEW t \in Callers, StartStep(t)
      PROVE  StopInv'
  <2>1. CASE StartCheck(t) /\ state[target[t]] # "stopping"
    <3>1. /\ \A u \in Callers \ {t} : pc'[u] = pc[u] /\ target'[u] = target[u]
          /\ pc'[t] \in StartedPCs => target'[t] = target[t]
          /\ pc'[t] \notin RecoverPCs
      BY <2>1, <1>p, EndOpMoves DEF StartCheck, Goto, Moves, SupTypeInv, LocalTypes, RecoverPCs
    <3> QED
      BY <1>m, <2>1, <3>1 DEF StartCheck, StopInv, NotStopping, StoppingExpectsExit, RecoverFindsNoStop
  <2>2. CASE StartCheck(t) /\ state[target[t]] = "stopping"
    BY <2>2, EndOpMoves, MoveKeepsStop DEF StartCheck
  <2>3. CASE HookDone(t)
    <3>1. Moves(t) /\ pc'[t] = "inspect" /\ pc[t] = "hook"
      BY <2>3, GotoMoves DEF HookDone, StartedPCs, StartPCs, RecoverPCs
    <3> QED
      BY <2>3, <3>1, OwnStateKeepsStop DEF HookDone, Moves, HoldPCs, StartPCs, States, RecoverPCs
  <2>4. ASSUME FailStart(t), pc[t] \in StartedPCs
        PROVE  StopInv'
    <3>1. Moves(t) /\ pc'[t] \notin StartedPCs \cup RecoverPCs
      BY <2>4, EndOpMoves DEF FailStart
    <3> QED
      BY <1>p, <2>4, <3>1, OwnStateKeepsStop DEF FailStart, Moves, States
  <2>5. CASE StartFails(t) \/ SessionNotCreated(t) \/ AttachNewFails(t)
    BY <2>4, <2>5 DEF StartFails, SessionNotCreated, AttachNewFails, StartedPCs, StartPCs
  <2>6. CASE \/ Inspect(t) \/ AttachExistingFails(t) \/ CreateSession(t) \/ SessionCreated(t)
             \/ AttachExisting(t) \/ AttachNew(t)
    <3>1. Moves(t)
      BY <2>6, GotoMoves DEF Inspect, AttachExistingFails, CreateSession, SessionCreated,
         AttachExisting, AttachNew, Dial, StartedPCs, StartPCs, RecoverPCs
    <3> QED
      BY <2>6, <3>1, MoveKeepsStop DEF Inspect, AttachExistingFails, CreateSession, SessionCreated,
         AttachExisting, AttachNew
  <2>7. CASE StartBinds(t)
    <3>1. /\ pc[t] = "bind" /\ pc[t] \in HoldPCs
          /\ Moves(t) /\ pc'[t] \notin StartedPCs \cup RecoverPCs
          /\ target[t] \in Instances
      BY <2>7, EndOpMoves DEF StartBinds, HoldPCs, StartPCs, SupTypeInv, HoldsInstance
    <3>2. \A u \in Callers \ {t} : pc[u] \in StartedPCs => target[u] \in Instances \ {target[t]}
      BY <1>p, <3>1, OthersElsewhere DEF SupTypeInv, HoldsInstance
    <3>3. /\ state'[target[t]] = "running"
          /\ \A i \in Instances \ {target[t]} :
                state'[i] = state[i] /\ session'[i] = session[i] /\ expectedExit'[i] = expectedExit[i]
      BY <2>7, <3>1 DEF StartBinds, BindSession, SupTypeInv, InstTypes
    <3> QED
      BY <1>m, <3>1, <3>2, <3>3
         DEF Moves, StopInv, NotStopping, StoppingExpectsExit, RecoverFindsNoStop
  <2> QED
    BY ONLY <1>5, <2>1, <2>2, <2>3, <2>5, <2>6, <2>7 DEF StartStep
<1>6. ASSUME NEW t \in Callers, StopStep(t)
      PROVE  StopInv'
  <2>h. pc[t] \in StopPCs /\ pc[t] \in HoldPCs /\ target[t] \in Instances
    BY <1>6 DEF StopStep, StopNothing, StopBegins, StopDone, StopTimeout, KillTimeout, StopPCs,
       HoldPCs, SupTypeInv, HoldsInstance
  <2>a. AfterStop(t) => Moves(t) /\ pc'[t] \notin StartedPCs \cup RecoverPCs
    BY <1>p, EndOpMoves, GotoMoves DEF AfterStop
  <2>1. CASE StopNothing(t)
    BY <2>1, <2>h, <2>a, OwnStateKeepsStop DEF StopNothing, Moves, States
  <2>2. CASE StopBegins(t)
    <3>1. Moves(t) /\ pc'[t] \notin StartedPCs
      BY <2>2, <1>p, GotoMoves DEF StopBegins, StopPCs
    <3>2. \A u \in Callers \ {t} : pc[u] \in StartedPCs => target[u] \in Instances \ {target[t]}
      BY <1>p, <2>h, OthersElsewhere DEF SupTypeInv, HoldsInstance
    <3>3. /\ expectedExit'[target[t]]
          /\ \A i \in Instances \ {target[t]} : state'[i] = state[i] /\ expectedExit'[i] = expectedExit[i]
          /\ UNCHANGED session
      BY <2>2, <2>h DEF StopBegins, SupTypeInv, InstTypes
    <3>4. QuietBoot => pc'[Main] \notin RecoverPCs
      BY <1>m, <1>p, <2>h, <3>1 DEF Moves, OpInv, QuietRecovery, StopPCs
    <3> QED
      BY <3>1, <3>2, <3>3, <3>4 DEF Moves, StopInv, NotStopping, StoppingExpectsExit, RecoverFindsNoStop
  <2>3. CASE StopDone(t) \/ StopTimeout(t) \/ KillTimeout(t)
    <3>1. Moves(t)
      BY <2>3, <2>a, <1>p, EndOpMoves, GotoMoves DEF StopDone, StopTimeout, KillTimeout, StopPCs
    <3> QED
      BY <2>3, <3>1, MoveKeepsStop DEF StopDone, StopTimeout, KillTimeout
  <2> QED
    BY ONLY <1>6, <2>1, <2>2, <2>3 DEF StopStep
<1>7. ASSUME NEW t \in Callers, WorkStep(t)
      PROVE  StopInv'
  <2>1. CASE MutationEnds(t)
    BY <2>1, EndOpMoves, MoveKeepsStop DEF MutationEnds
  <2>2. CASE DeployMarks(t)
    <3>1. pc[t] \in HoldPCs /\ pc'[t] \notin RecoverPCs /\ UNCHANGED target
          /\ \A u \in Callers \ {t} : pc'[u] = pc[u]
      BY <2>2 DEF DeployMarks, Goto, SupTypeInv, LocalTypes, HoldPCs, WorkPCs, RecoverPCs
    <3> QED
      BY <2>2, <3>1, OwnStateKeepsStop DEF DeployMarks, States
  <2>3. CASE DeployApplied(t)
    <3>1. pc[t] \in HoldPCs /\ Moves(t) /\ pc'[t] \notin StartedPCs \cup RecoverPCs
      BY <2>3, <1>p, EndOpMoves, GotoMoves DEF DeployApplied, HoldPCs, WorkPCs
    <3> QED
      BY <2>3, <3>1, OwnStateKeepsStop DEF DeployApplied, Moves, States
  <2> QED
    BY <1>7, <2>1, <2>2, <2>3 DEF WorkStep
<1>8. ASSUME NEW c \in Conns, ConsumeExit(c) \/ LoseLink(c)
      PROVE  StopInv'
  BY <1>8, <1>f DEF ConsumeExit, LoseLink
<1>9. ASSUME NEW c \in Conns, WaitSession(c)
      PROVE  StopInv'
  <2>1. \A i \in Instances :
          \/ state'[i] = state[i] /\ session'[i] = session[i]
          \/ state'[i] \in {"stopped", "failed"}
    BY <1>9 DEF WaitSession, SupTypeInv, InstTypes
  <2> QED
    BY <1>9, <1>p, <2>1 DEF WaitSession, StopInv, NotStopping, StoppingExpectsExit,
       RecoverFindsNoStop, SupTypeInv, HoldsInstance
<1>10. CASE Boot
  BY <1>10, <1>m, <1>p DEF Boot, Goto, ConnInv, DownIsEmpty, SupTypeInv, LocalTypes, StopInv, NotStopping,
     StoppingExpectsExit, RecoverFindsNoStop, OpInv, DownIsIdle, RecoverPCs
<1>11. CASE BeginShutdown
  BY <1>11, <1>f DEF BeginShutdown
<1>12. CASE RecoverList \/ (\E h \in Hosts : RecoverAttach(h)) \/ RecoverDone \/ BootDone
  <2>1. /\ pc[Main] \notin StartedPCs /\ pc'[Main] \notin StartedPCs
        /\ \A u \in Callers \ {Main} : pc'[u] = pc[u] /\ target'[u] = target[u]
        /\ pc'[Main] \in RecoverPCs => pc[Main] \in RecoverPCs
        /\ UNCHANGED <<state, session, expectedExit>>
    BY <1>12, <1>m, <1>p DEF RecoverList, RecoverAttach, Dial, RecoverDone, BootDone, Goto,
       RecoverPCs, SupTypeInv, LocalTypes
  <2> QED
    BY <1>m, <2>1, MoveKeepsStop DEF Moves
<1>13. CASE RecoverBind
  <2>1. /\ pc[Main] \in RecoverPCs /\ pc'[Main] \in RecoverPCs
        /\ \A u \in Callers \ {Main} : pc'[u] = pc[u] /\ target'[u] = target[u]
        /\ \A i \in Instances :
             \/ state'[i] = "running"
             \/ state'[i] = state[i] /\ session'[i] = session[i] /\ expectedExit'[i] = expectedExit[i]
    BY <1>13, <1>m DEF RecoverBind, BindSession, Goto, RecoverPCs, SupTypeInv, LocalTypes, InstTypes
  <2> QED
    BY <1>p, <2>1 DEF StopInv, NotStopping, StoppingExpectsExit, RecoverFindsNoStop, SupTypeInv, HoldsInstance
<1>14. ASSUME NEW i \in Instances, StartAutoNext(i)
       PROVE  StopInv'
  <2>1. Moves(Main)
    BY <1>14, <1>m, <1>p, AcquireMoves DEF StartAutoNext, Moves
  <2> QED
    BY <1>14, <1>m, <2>1, MoveKeepsStop DEF StartAutoNext
<1>15. ASSUME NEW i \in Instances, DetachSession(i)
       PROVE  StopInv'
  <2>1. \A k \in Instances : session'[k] = session[k] \/ session'[k] = NoConn
    BY <1>15 DEF DetachSession, SupTypeInv, InstTypes
  <2> QED
    BY <1>15, <2>1 DEF DetachSession, StopInv, NotStopping, StoppingExpectsExit, RecoverFindsNoStop
<1>16. CASE DaemonExit
  BY <1>16, <1>m, <1>p DEF DaemonExit, StopInv, NotStopping, StoppingExpectsExit, RecoverFindsNoStop
<1>17. CASE SessiondStep
  BY <1>17, <1>f DEF SessiondStep
<1>18. CASE UNCHANGED vars
  BY <1>18, <1>f DEF vars
<1>19. CASE Begin
  BY ONLY <1>1, <1>19 DEF Begin, AllJobs
<1>20. CASE BootStep
  BY ONLY <1>12, <1>13, <1>14, <1>20 DEF BootStep
<1> QED
  BY ONLY [Next]_vars, <1>2, <1>3, <1>4, <1>5, <1>6, <1>7, <1>8, <1>9, <1>10, <1>11, <1>15, <1>16,
     <1>17, <1>18, <1>19, <1>20 DEF Next

LEMMA StopInvariant == Spec => []StopInv
<1>1. Init => StopInv
  BY DEF Init, StopInv, NotStopping, StoppingExpectsExit, RecoverFindsNoStop, StartedPCs, StartPCs
<1> QED
  BY <1>1, StopInvStep, SupTypeInvariant, OpInvariant, ConnInvariant, PTL DEF Spec

StoppingKept ==
    \A i \in Instances :
        (state[i] = "stopping" /\ state'[i] # "stopping") => state'[i] \in {"stopped", "deploying"}

LEMMA StoppingStep ==
    ASSUME QuietBoot, SupTypeInv, StopInv, [Next]_vars
    PROVE  StoppingKept
<1> USE DEF instVars, connVars, localVars, bootVars, StoppingKept
<1>i. state \in [Instances -> States]
  BY DEF SupTypeInv, InstTypes
<1>f. ASSUME UNCHANGED state
      PROVE  StoppingKept
  BY <1>f
<1>o. ASSUME NEW t \in Callers, pc[t] \in StartedPCs, NEW s, state' = [state EXCEPT ![target[t]] = s]
      PROVE  StoppingKept
  BY <1>i, <1>o DEF StopInv, NotStopping
<1>w. ASSUME NEW t \in Callers, NEW s \in {"stopped", "stopping", "deploying"},
             state' = [state EXCEPT ![target[t]] = s]
      PROVE  StoppingKept
  BY <1>i, <1>w
<1>1. ASSUME NEW t \in Callers, StartStep(t)
      PROVE  StoppingKept
  <2>1. CASE HookDone(t) \/ StartFails(t) \/ SessionNotCreated(t) \/ AttachNewFails(t) \/ StartBinds(t)
    <3>1. pc[t] \in StartedPCs /\ \E s \in States : state' = [state EXCEPT ![target[t]] = s]
      BY <2>1 DEF HookDone, StartFails, FailStart, SessionNotCreated, AttachNewFails, StartBinds,
         BindSession, StartedPCs, StartPCs, States
    <3> QED
      BY <1>o, <3>1
  <2>2. CASE \/ StartCheck(t) \/ Inspect(t) \/ AttachExisting(t) \/ AttachExistingFails(t)
             \/ CreateSession(t) \/ SessionCreated(t) \/ AttachNew(t)
    BY <1>f, <2>2 DEF StartCheck, Inspect, AttachExisting, AttachExistingFails, CreateSession,
       SessionCreated, AttachNew
  <2> QED
    BY ONLY <1>1, <2>1, <2>2 DEF StartStep
<1>2. ASSUME NEW t \in Callers, StopStep(t)
      PROVE  StoppingKept
  BY <1>f, <1>w, <1>2 DEF StopStep, StopNothing, StopBegins, StopDone, StopTimeout, KillTimeout
<1>3. ASSUME NEW t \in Callers, WorkStep(t)
      PROVE  StoppingKept
  BY <1>f, <1>o, <1>w, <1>3 DEF WorkStep, DeployMarks, DeployApplied, MutationEnds, StartedPCs
<1>4. ASSUME NEW c \in Conns, WaitSession(c)
      PROVE  StoppingKept
  <2>1. CASE connInst[c] \in Instances
    BY <1>i, <1>4, <2>1, SupervisorConstants DEF WaitSession, StopInv, StoppingExpectsExit
  <2>2. CASE connInst[c] \notin Instances
    BY <1>i, <1>4, <2>2 DEF WaitSession
  <2> QED
    BY <2>1, <2>2
<1>5. CASE RecoverBind
  BY <1>5 DEF RecoverBind, StopInv, RecoverFindsNoStop, RecoverPCs
<1>6. CASE DaemonExit
  BY <1>6 DEF DaemonExit
<1>7. CASE \/ Begin
           \/ \E targets \in SUBSET Instances \ {{}} : ReserveDeployment(targets)
           \/ \E i \in Instances : ReleaseDeployment(i) \/ RestartWindow(i) \/ DetachSession(i)
           \/ \E t \in Callers, i \in Instances : AutoRestartFires(t, i)
           \/ \E c \in Conns : ConsumeExit(c) \/ LoseLink(c)
           \/ Boot \/ BeginShutdown \/ SessiondStep
  BY <1>f, <1>7 DEF Begin, BeginLifecycle, BeginMutation, BeginDeploy, ReserveDeployment,
     ReleaseDeployment, RestartWindow, DetachSession, AutoRestartFires, ConsumeExit, LoseLink,
     Boot, BeginShutdown, SessiondStep
<1>8. CASE BootStep
  BY <1>f, <1>5, <1>8 DEF BootStep, RecoverList, RecoverAttach, RecoverDone, StartAutoNext, BootDone
<1>9. CASE UNCHANGED vars
  BY <1>f, <1>9 DEF vars
<1> QED
  BY ONLY [Next]_vars, <1>1, <1>2, <1>3, <1>4, <1>6, <1>7, <1>8, <1>9 DEF Next

\* A stop that was begun is never taken back, as long as no request arrives
\* while RecoverSessions runs (stopLocked, startLocked, waitSession).
THEOREM SupStoppingNeverResumes ==
    ASSUME QuietBoot
    PROVE  Spec => StoppingNeverResumes
<1>1. SupTypeInv /\ StopInv /\ [Next]_vars => [StoppingKept]_vars
  BY StoppingStep
<1>2. Spec => [][StoppingKept]_vars
  BY <1>1, SupTypeInvariant, StopInvariant, PTL DEF Spec
<1> QED
  BY <1>2 DEF StoppingNeverResumes, StoppingKept

-----------------------------------------------------------------------------
(* One consumer.                                                           *)

\* prism-sessiond's map names a host of the instance; this needs no assumption
\* on who asks for sessions.
InsertsOwn == \A t \in Callers : cpc[t] = "insert" => inst[chost[t]] = cinst[t]

MapInv == MapIsWatched /\ InsertsOwn

\* The sessions to recover keep their instance.
RecoverKept == \A h \in recover : inst'[h] = inst[h]

LEMMA MapStep ==
    ASSUME SupTypeInv, MapInv, SessPart
    PROVE  MapInv' /\ RecoverKept
<1> USE DEF MapInv, MapIsWatched, InsertsOwn, RecoverKept, fileVars, hostVars, callerVars
<1>t. /\ SessTypeOK /\ recover \subseteq Hosts
      /\ \A t \in Callers : cpc[t] = "insert" => chost[t] \in Hosts
      /\ NoHost \notin Hosts
  BY SessionConstants DEF SupTypeInv, TypeInv, InsertHasHost, BootTypes
<1>f. ASSUME UNCHANGED <<sessions, watchers, inst, cpc, chost, cinst>>
      PROVE  MapInv' /\ RecoverKept
  BY <1>f
<1>1. ASSUME NEW t \in Callers, NEW i \in Instances, StartRequest(t, i)
      PROVE  MapInv' /\ RecoverKept
  BY <1>t, <1>1 DEF StartRequest, SessTypeOK
<1>2. ASSUME NEW t \in Callers, SpawnFresh(t)
      PROVE  MapInv' /\ RecoverKept
  <2>1. PICK h \in Hosts :
          /\ Recyclable(h)
          /\ inst' = [inst EXCEPT ![h] = cinst[t]]
          /\ chost' = [chost EXCEPT ![t] = h]
    BY <1>2 DEF SpawnFresh, Spawn
  <2>2. /\ h \notin watchers \cup recover
        /\ \A u \in Callers : chost[u] # h
        /\ inst'[h] = cinst[t] /\ chost'[t] = h
        /\ \A g \in Hosts \ {h} : inst'[g] = inst[g]
        /\ \A u \in Callers \ {t} : chost'[u] = chost[u] /\ cpc'[u] = cpc[u]
        /\ UNCHANGED <<sessions, watchers, cinst>>
    BY <1>t, <1>2, <2>1 DEF SpawnFresh, Spawn, Recyclable, SessTypeOK
  <2>3. MapIsWatched'
    BY <1>t, <2>2 DEF SessTypeOK
  <2>4. InsertsOwn'
    BY <1>t, <2>2
  <2> QED
    BY <1>t, <2>2, <2>3, <2>4
<1>3. ASSUME NEW t \in Callers, Insert(t)
      PROVE  MapInv' /\ RecoverKept
  <2>1. /\ chost[t] \in Hosts /\ inst[chost[t]] = cinst[t]
        /\ \A i \in Instances : sessions'[i] = IF i = cinst[t] THEN chost[t] ELSE sessions[i]
        /\ watchers' = watchers \cup {chost[t]}
        /\ \A u \in Callers : cpc'[u] = "insert" => cpc[u] = "insert"
        /\ UNCHANGED <<inst, chost, cinst>>
    BY <1>t, <1>3 DEF Insert, SessTypeOK
  <2> QED
    BY <2>1
<1>4. ASSUME NEW t \in Callers, SpawnFails(t) \/ Reply(t)
      PROVE  MapInv' /\ RecoverKept
  BY <1>t, <1>4 DEF SpawnFails, Reply, SessTypeOK
<1>5. ASSUME NEW h \in Hosts, Watch(h)
      PROVE  MapInv' /\ RecoverKept
  <2>1. /\ \A i \in Instances : sessions'[i] = IF i = inst[h] THEN NoHost ELSE sessions[i]
        /\ watchers' = watchers \ {h}
        /\ UNCHANGED <<inst, cpc, chost, cinst>>
    BY <1>t, <1>5 DEF Watch, SessTypeOK
  <2> QED
    BY <2>1
<1>6. ASSUME NEW h \in Hosts, Finish(h) \/ FinishDone(h) \/ Cleanup(h) \/ Exit(h) \/ OrphanKill(h)
      PROVE  MapInv' /\ RecoverKept
  BY <1>f, <1>6 DEF Finish, FinishDone, Cleanup, Exit, OrphanKill, KillHost
<1>7. ASSUME NEW h \in Hosts \cup {NoHost}, AddClient(h) \/ RemoveClient(h)
      PROVE  MapInv' /\ RecoverKept
  BY <1>f, <1>7 DEF AddClient, RemoveClient
<1>8. ASSUME NEW i \in Instances, Kill(i)
      PROVE  MapInv' /\ RecoverKept
  BY <1>f, <1>8 DEF Kill
<1>9. CASE ServiceCrash
  BY <1>t, <1>9 DEF ServiceCrash, SessTypeOK
<1>10. CASE UNCHANGED sessVars \/ \E h \in Hosts : Sticking(h)
  BY <1>f, <1>10, StickingFrame DEF sessVars
<1> QED
  BY <1>f, <1>1, <1>2, <1>3, <1>4, <1>5, <1>6, <1>7, <1>8, <1>9, <1>10 DEF SessPart, HostStep

LEMMA MapInvariant == Spec => []MapInv
<1>1. Init => MapInv
  BY DEF Init, SessInit, MapInv, MapIsWatched, InsertsOwn
<1>2. SupTypeInv /\ MapInv /\ [Next]_vars => MapInv'
  BY SessPartStep, MapStep
<1> QED
  BY <1>1, <1>2, SupTypeInvariant, PTL DEF Spec

\* Between the checks of startLocked and the bind, and around the copy of the
\* files, the instance has no open session.
ReadyPCs == StartedPCs \cup {"deploy"}
WaitPCs  == {"waitStop", "killWait"}
Rest     == {"stopped", "failed", "deploying"}

OpenIsSession ==
    \A c \in open \cap waiting : connInst[c] \in Instances /\ session[connInst[c]] = c

ReadyIsClosed == \A t \in Callers : pc[t] \in ReadyPCs => session[target[t]] \notin open

RestIsClosed == \A i \in Instances : state[i] \in Rest => session[i] \notin open

OpenNotDone == open \cap done = {}

WaitsForSession ==
    \A t \in Callers : pc[t] \in WaitPCs => session[target[t]] \in {conn[t], NoConn}

\* RecoverSessions finds no session where it is about to bind one.
RecoverFree ==
    /\ pc[Main] = "recoverList" => \A i \in Instances : session[i] = NoConn
    /\ pc[Main] \in {"recoverNext", "recoverBind"} =>
          \A h \in recover :
             /\ inst[h] \in Instances
             /\ session[inst[h]] = NoConn
             /\ \A g \in recover : inst[g] = inst[h] => g = h
             /\ pc[Main] = "recoverBind" => inst[h] # target[Main]
    /\ pc[Main] = "recoverBind" => target[Main] \in Instances /\ session[target[Main]] = NoConn

ConsumerInv ==
    /\ OpenIsSession
    /\ ReadyIsClosed
    /\ RestIsClosed
    /\ OpenNotDone
    /\ WaitsForSession
    /\ RecoverFree

\* A goroutine moves on, the sessions stay.
LEMMA LocalKeeps ==
    ASSUME SupTypeInv, ConsumerInv, RecoverKept, NEW t \in Callers,
           UNCHANGED <<session, connVars, recover>>,
           \A u \in Callers \ {t} : pc'[u] = pc[u] /\ target'[u] = target[u] /\ conn'[u] = conn[u],
           pc'[t] \notin RecoverPCs,
           pc'[t] \in ReadyPCs => session[target'[t]] \notin open,
           pc'[t] \in WaitPCs => session[target'[t]] \in {conn'[t], NoConn},
           \A i \in Instances : state'[i] \in Rest => state[i] \in Rest \/ session[i] \notin open
    PROVE  ConsumerInv'
<1> USE DEF connVars
<1>1. pc'[Main] \in RecoverPCs => pc'[Main] = pc[Main] /\ target'[Main] = target[Main]
  BY SupervisorConstants
<1>2. RecoverFree'
  BY <1>1 DEF ConsumerInv, RecoverFree, RecoverKept, RecoverPCs
<1> QED
  BY <1>2 DEF ConsumerInv, OpenIsSession, ReadyIsClosed, RestIsClosed, OpenNotDone, WaitsForSession

\* The same with the labels as the operations set them.
LEMMA GotoLocal ==
    ASSUME SupTypeInv, ConsumerInv, RecoverKept, NEW t \in Callers, NEW label, Goto(t, label),
           UNCHANGED <<session, connVars, recover, target>>,
           \A u \in Callers \ {t} : conn'[u] = conn[u],
           label \notin RecoverPCs,
           label \in ReadyPCs => session[target[t]] \notin open,
           label \in WaitPCs => session[target[t]] \in {conn'[t], NoConn},
           \A i \in Instances : state'[i] \in Rest => state[i] \in Rest \/ session[i] \notin open
    PROVE  ConsumerInv'
<1>1. pc'[t] = label /\ \A u \in Callers \ {t} : pc'[u] = pc[u]
  BY DEF Goto, SupTypeInv, LocalTypes
<1> QED
  BY <1>1, LocalKeeps

LEMMA EndOpLocal ==
    ASSUME SupTypeInv, ConsumerInv, RecoverKept, NEW t \in Callers, EndOp(t),
           UNCHANGED <<session, connVars, recover>>,
           \A i \in Instances : state'[i] \in Rest => state[i] \in Rest \/ session[i] \notin open
    PROVE  ConsumerInv'
<1>1. /\ pc'[t] \in {"idle", "autostart"} /\ pc'[t] \notin ReadyPCs \cup WaitPCs \cup RecoverPCs
      /\ \A u \in Callers \ {t} : pc'[u] = pc[u] /\ target'[u] = target[u] /\ conn'[u] = conn[u]
  BY DEF EndOp, SupTypeInv, LocalTypes, ReadyPCs, StartedPCs, StartPCs, WaitPCs, RecoverPCs
<1> QED
  BY <1>1, LocalKeeps

LEMMA AcquireLocal ==
    ASSUME SupTypeInv, ConsumerInv, RecoverKept, NEW t \in Callers, NEW i \in Instances, NEW j,
           NEW label, Acquire(t, i, j, label), UNCHANGED <<session, connVars, recover, conn, state>>,
           label \notin WaitPCs \cup RecoverPCs,
           label \in ReadyPCs => session[i] \notin open
    PROVE  ConsumerInv'
<1>1. /\ pc'[t] = label /\ target'[t] = i
      /\ \A u \in Callers \ {t} : pc'[u] = pc[u] /\ target'[u] = target[u]
  BY DEF Acquire, Goto, SupTypeInv, LocalTypes
<1> QED
  BY <1>1, LocalKeeps

LEMMA ConsumerStep ==
    ASSUME QuietBoot, SupTypeInv, OpInv, ConnInv, MapInv, ConsumerInv, [Next]_vars
    PROVE  ConsumerInv'
<1> USE DEF instVars, connVars, localVars, bootVars
<1>k. RecoverKept
  BY SessPartStep, MapStep
<1>m. Main \in Callers /\ NoConn \notin open
  BY SupervisorConstants DEF SupTypeInv, ConnTypes
<1>p. /\ ReadyPCs \cup WaitPCs \subseteq HoldPCs
      /\ HoldPCs \cap RecoverPCs = {}
      /\ {"start", "stop", "mutating"} \cap (ReadyPCs \cup WaitPCs) = {}
      /\ {"start", "stop", "mutating", "idle", "autostart", "deploy"} \cap RecoverPCs = {}
      /\ {"idle", "autostart"} \cap (ReadyPCs \cup WaitPCs) = {}
      /\ ReadyPCs \cap WaitPCs = {} /\ RecoverPCs \cap (ReadyPCs \cup WaitPCs) = {}
  BY DEF StartedPCs, HoldPCs, StartPCs, StopPCs, WorkPCs, RecoverPCs, ReadyPCs, WaitPCs
<1>f. ASSUME UNCHANGED <<session, connVars, recover, pc, target, conn, state>>
      PROVE  ConsumerInv'
  BY <1>f, <1>k DEF ConsumerInv, OpenIsSession, ReadyIsClosed, RestIsClosed, OpenNotDone,
     WaitsForSession, RecoverFree, RecoverKept
<1>1. ASSUME NEW t \in Callers, NEW i \in Instances, NEW j \in AllJobs,
             BeginLifecycle(t, i, j) \/ BeginMutation(t, i, j)
      PROVE  ConsumerInv'
  BY <1>1, <1>k, <1>p, AcquireLocal DEF BeginLifecycle, BeginMutation
<1>2. ASSUME NEW t \in Callers, NEW i \in Instances, BeginDeploy(t, i)
      PROVE  ConsumerInv'
  <2>1. (session[i] # NoConn /\ state[i] = "running") \/ session[i] \notin open
    BY <1>2, <1>m DEF BeginDeploy, ConsumerInv, RestIsClosed, Rest, SupTypeInv, InstTypes, States
  <2> QED
    BY <1>2, <1>k, <1>p, <2>1, AcquireLocal DEF BeginDeploy, WaitPCs
<1>3. CASE \/ \E targets \in SUBSET Instances \ {{}} : ReserveDeployment(targets)
           \/ \E i \in Instances : ReleaseDeployment(i) \/ RestartWindow(i)
           \/ BeginShutdown \/ SessiondStep \/ UNCHANGED vars
  BY <1>f, <1>3 DEF ReserveDeployment, ReleaseDeployment, RestartWindow, BeginShutdown, SessiondStep, vars
<1>4. ASSUME NEW t \in Callers, NEW i \in Instances, AutoRestartFires(t, i)
      PROVE  ConsumerInv'
  BY <1>4, <1>f, <1>k, <1>p, AcquireLocal DEF AutoRestartFires
<1>5. ASSUME NEW t \in Callers, StartStep(t)
      PROVE  ConsumerInv'
  <2>1. CASE StartCheck(t)
    <3>1. CASE EndOp(t)
      BY <1>k, <2>1, <3>1, EndOpLocal DEF StartCheck
    <3>2. CASE Goto(t, "hook") /\ state[target[t]] \in Rest /\ UNCHANGED <<target, conn>>
      <4>1. target[t] \in Instances
        BY <2>1 DEF StartCheck, SupTypeInv, HoldsInstance, HoldPCs, StartPCs
      <4>2. session[target[t]] \notin open
        BY <3>2, <4>1 DEF ConsumerInv, RestIsClosed
      <4> QED
        BY <1>k, <1>p, <2>1, <3>2, <4>2, GotoLocal DEF StartCheck, WaitPCs, RecoverPCs
    <3>3. state[target[t]] \in States
      BY <2>1 DEF StartCheck, SupTypeInv, HoldsInstance, HoldPCs, StartPCs, InstTypes
    <3> QED
      BY <2>1, <3>1, <3>2, <3>3 DEF StartCheck, States, Rest
  <2>2. CASE HookDone(t)
    <3>1. session[target[t]] \notin open
      BY <2>2 DEF HookDone, ConsumerInv, ReadyIsClosed, ReadyPCs, StartedPCs, StartPCs
    <3>2. \A i \in Instances : state'[i] \in Rest => state[i] \in Rest
      BY <2>2 DEF HookDone, Rest, SupTypeInv, InstTypes
    <3> QED
      BY <1>k, <2>2, <3>1, <3>2, GotoLocal DEF HookDone, WaitPCs, RecoverPCs
  <2>3. ASSUME FailStart(t), pc[t] \in ReadyPCs, UNCHANGED <<connVars, recover>>
        PROVE  ConsumerInv'
    <3>1. session[target[t]] \notin open
      BY <2>3 DEF ConsumerInv, ReadyIsClosed
    <3>2. \A i \in Instances : state'[i] \in Rest => state[i] \in Rest \/ i = target[t]
      BY <2>3 DEF FailStart, SupTypeInv, InstTypes
    <3> QED
      BY <1>k, <2>3, <3>1, <3>2, EndOpLocal DEF FailStart
  <2>4. CASE StartFails(t) \/ SessionNotCreated(t) \/ AttachNewFails(t)
    BY <2>3, <2>4 DEF StartFails, SessionNotCreated, AttachNewFails, ReadyPCs, StartedPCs, StartPCs
  <2>5. CASE Inspect(t) \/ AttachExistingFails(t) \/ CreateSession(t) \/ SessionCreated(t)
    <3>1. session[target[t]] \notin open
      BY <2>5 DEF Inspect, AttachExistingFails, CreateSession, SessionCreated, ConsumerInv,
         ReadyIsClosed, ReadyPCs, StartedPCs, StartPCs
    <3>2. UNCHANGED <<session, connVars, recover, target, conn, state>>
      BY <2>5 DEF Inspect, AttachExistingFails, CreateSession, SessionCreated
    <3>3. \E label \in {"create", "attach", "await", "attachNew"} : Goto(t, label)
      BY <2>5 DEF Inspect, AttachExistingFails, CreateSession, SessionCreated
    <3> QED
      BY <1>k, <3>1, <3>2, <3>3, GotoLocal DEF WaitPCs, RecoverPCs
  <2>6. CASE AttachExisting(t) \/ AttachNew(t)
    <3>1. target[t] \in Instances /\ pc[t] \in ReadyPCs /\ pc'[t] = "bind" /\ UNCHANGED recover
      BY <2>6 DEF AttachExisting, AttachNew, Dial, Goto, SupTypeInv, LocalTypes, HoldsInstance,
         HoldPCs, StartPCs, ReadyPCs, StartedPCs
    <3>2. PICK c \in Conns : Dialled(t, target[t], c)
      BY <2>6, <3>1, Dials DEF AttachExisting, AttachNew
    <3>3. /\ c \notin open \cup waiting
          /\ \A k \in Instances : session[k] # c
          /\ \A d \in Conns \ {c} : connInst'[d] = connInst[d]
          /\ \A u \in Callers \ {t} : conn'[u] = conn[u] /\ pc'[u] = pc[u] /\ target'[u] = target[u]
      BY <3>2 DEF Dialled, FreeConn, SupTypeInv, ConnTypes, LocalTypes
    <3>4. ReadyIsClosed'
      BY <1>p, <3>1, <3>2, <3>3 DEF Dialled, ConsumerInv, ReadyIsClosed, SupTypeInv, HoldsInstance
    <3>5. OpenIsSession' /\ RestIsClosed' /\ OpenNotDone'
      BY <3>2, <3>3 DEF Dialled, ConsumerInv, OpenIsSession, RestIsClosed, OpenNotDone, SupTypeInv, ConnTypes
    <3>6. WaitsForSession'
      BY <3>1, <3>2, <3>3 DEF Dialled, ConsumerInv, WaitsForSession, WaitPCs
    <3>7. pc'[Main] \in RecoverPCs => pc'[Main] = pc[Main] /\ target'[Main] = target[Main]
      BY <1>m, <3>1, <3>3 DEF RecoverPCs
    <3>8. RecoverFree'
      BY <1>k, <3>1, <3>2, <3>7 DEF Dialled, ConsumerInv, RecoverFree, RecoverKept, RecoverPCs
    <3> QED
      BY <3>4, <3>5, <3>6, <3>8 DEF ConsumerInv
  <2>7. CASE StartBinds(t)
    <3>1. /\ pc[t] = "bind" /\ pc[t] \in HoldPCs /\ pc[t] \in ReadyPCs /\ pc[t] \in BindPCs
          /\ target[t] \in Instances
          /\ pc'[t] \in {"idle", "autostart"}
          /\ \A u \in Callers \ {t} : pc'[u] = pc[u] /\ target'[u] = target[u] /\ conn'[u] = conn[u]
      BY <2>7 DEF StartBinds, EndOp, HoldPCs, StartPCs, ReadyPCs, StartedPCs, BindPCs, SupTypeInv,
         LocalTypes, HoldsInstance
    <3>2. /\ \A i \in Instances : session'[i] = IF i = target[t] THEN conn[t] ELSE session[i]
          /\ \A i \in Instances : state'[i] = IF i = target[t] THEN "running" ELSE state[i]
          /\ waiting' = waiting \cup {conn[t]}
          /\ UNCHANGED <<connInst, open, done>>
      BY <2>7, <3>1 DEF StartBinds, BindSession, SupTypeInv, InstTypes
    <3>3. connInst[conn[t]] = target[t] /\ session[target[t]] \notin open
      BY <3>1 DEF ConnInv, BindIsNew, ConsumerInv, ReadyIsClosed
    <3>4. \A u \in Callers \ {t} : pc[u] \in ReadyPCs \cup WaitPCs => target[u] \in Instances \ {target[t]}
      BY <1>p, <3>1, OthersElsewhere DEF SupTypeInv, HoldsInstance
    <3>5. pc'[Main] \notin RecoverPCs
      BY <1>m, <1>p, <3>1 DEF OpInv, QuietRecovery
    <3>6. OpenIsSession'
      BY <3>1, <3>2, <3>3 DEF ConsumerInv, OpenIsSession
    <3>7. ReadyIsClosed' /\ WaitsForSession'
      BY <1>p, <3>1, <3>2, <3>4 DEF ConsumerInv, ReadyIsClosed, WaitsForSession
    <3>8. RestIsClosed' /\ OpenNotDone'
      BY <3>2 DEF ConsumerInv, RestIsClosed, Rest, OpenNotDone
    <3> QED
      BY <3>5, <3>6, <3>7, <3>8 DEF ConsumerInv, RecoverFree, RecoverPCs
  <2> QED
    BY ONLY <1>5, <2>1, <2>2, <2>4, <2>5, <2>6, <2>7 DEF StartStep
<1>6. ASSUME NEW t \in Callers, StopStep(t)
      PROVE  ConsumerInv'
  <2>h. target[t] \in Instances
    BY <1>6 DEF StopStep, StopNothing, StopBegins, StopDone, StopTimeout, KillTimeout, SupTypeInv,
       HoldsInstance, HoldPCs, StopPCs
  <2>a. ASSUME AfterStop(t), session[target[t]] \notin open, UNCHANGED <<session, connVars, recover>>,
               \A i \in Instances : state'[i] \in Rest => state[i] \in Rest \/ session[i] \notin open
        PROVE  ConsumerInv'
    <3>1. CASE EndOp(t)
      BY <1>k, <2>a, <3>1, EndOpLocal
    <3>2. CASE (Goto(t, "start") \/ Goto(t, "deploy")) /\ UNCHANGED <<target, conn>>
      BY <1>k, <1>p, <2>a, <3>2, GotoLocal DEF WaitPCs
    <3> QED
      BY <2>a, <3>1, <3>2 DEF AfterStop
  <2>1. CASE StopNothing(t)
    <3>1. session[target[t]] \notin open
      BY <1>m, <2>1 DEF StopNothing
    <3>2. \A i \in Instances : state'[i] \in Rest => state[i] \in Rest \/ session[i] \notin open
      BY <2>1, <2>h, <3>1 DEF StopNothing, SupTypeInv, InstTypes
    <3> QED
      BY <2>1, <2>a, <3>1, <3>2 DEF StopNothing
  <2>2. CASE StopBegins(t)
    <3>1. /\ conn'[t] = session[target[t]]
          /\ \A u \in Callers \ {t} : conn'[u] = conn[u]
          /\ \A i \in Instances : state'[i] \in Rest => state[i] \in Rest
      BY <2>2, <2>h DEF StopBegins, SupTypeInv, LocalTypes, InstTypes, Rest
    <3>2. /\ Goto(t, "waitStop") \/ Goto(t, "killWait")
          /\ UNCHANGED <<session, connVars, recover, target>>
      BY <2>2 DEF StopBegins
    <3> QED
      BY <1>k, <1>p, <3>1, <3>2, GotoLocal DEF WaitPCs, RecoverPCs
  <2>3. CASE StopDone(t)
    <3>1. session[target[t]] \notin open
      BY <1>m, <2>3 DEF StopDone, ConsumerInv, WaitsForSession, WaitPCs, OpenNotDone
    <3> QED
      BY <2>3, <2>a, <3>1 DEF StopDone
  <2>4. CASE StopTimeout(t)
    BY <1>k, <1>p, <2>4, GotoLocal DEF StopTimeout, ConsumerInv, WaitsForSession, WaitPCs, RecoverPCs
  <2>5. CASE KillTimeout(t)
    BY <1>k, <2>5, EndOpLocal DEF KillTimeout
  <2> QED
    BY ONLY <1>6, <2>1, <2>2, <2>3, <2>4, <2>5 DEF StopStep
<1>7. ASSUME NEW t \in Callers, WorkStep(t)
      PROVE  ConsumerInv'
  <2>1. CASE MutationEnds(t)
    BY <1>k, <2>1, EndOpLocal DEF MutationEnds
  <2>2. CASE DeployMarks(t) \/ DeployApplied(t)
    <3>1. session[target[t]] \notin open
      BY <2>2 DEF DeployMarks, DeployApplied, ConsumerInv, ReadyIsClosed, ReadyPCs, StartedPCs
    <3>2. \A i \in Instances : state'[i] \in Rest => state[i] \in Rest \/ session[i] \notin open
      BY <2>2, <3>1 DEF DeployMarks, DeployApplied, SupTypeInv, InstTypes
    <3>3. CASE EndOp(t)
      BY <1>k, <2>2, <3>2, <3>3, EndOpLocal DEF DeployMarks, DeployApplied
    <3>4. CASE (Goto(t, "applying") \/ Goto(t, "start")) /\ UNCHANGED <<target, conn>>
      <4>1. UNCHANGED <<session, connVars, recover>>
        BY <2>2 DEF DeployMarks, DeployApplied
      <4> QED
        BY <1>k, <1>p, <3>1, <3>2, <3>4, <4>1, GotoLocal DEF WaitPCs, RecoverPCs
    <3> QED
      BY <2>2, <3>3, <3>4 DEF DeployMarks, DeployApplied
  <2> QED
    BY <1>7, <2>1, <2>2 DEF WorkStep
<1>8. ASSUME NEW c \in Conns, ConsumeExit(c) \/ LoseLink(c)
      PROVE  ConsumerInv'
  <2>1. open' = open \ {c} /\ done' = done \cup {c}
        /\ UNCHANGED <<connInst, waiting, session, state, recover, pc, target, conn>>
    BY <1>8 DEF ConsumeExit, LoseLink, CloseConn
  <2> QED
    BY <1>k, <2>1 DEF ConsumerInv, OpenIsSession, ReadyIsClosed, RestIsClosed, OpenNotDone,
       WaitsForSession, RecoverFree, RecoverKept
<1>9. ASSUME NEW c \in Conns, WaitSession(c)
      PROVE  ConsumerInv'
  <2>1. \A i \in Instances :
          \/ state'[i] = state[i] /\ session'[i] = session[i]
          \/ session[i] = c /\ session'[i] = NoConn
    BY <1>9 DEF WaitSession, SupTypeInv, InstTypes
  <2>2. c \notin open /\ waiting' \subseteq waiting
        /\ UNCHANGED <<connInst, open, done, recover, pc, target, conn>>
    BY <1>9 DEF WaitSession, ConsumerInv, OpenNotDone
  <2>3. OpenIsSession' /\ RestIsClosed' /\ OpenNotDone'
    BY <1>m, <2>1, <2>2 DEF ConsumerInv, OpenIsSession, RestIsClosed, OpenNotDone
  <2>4. ReadyIsClosed' /\ WaitsForSession'
    BY <1>m, <1>p, <2>1, <2>2 DEF ConsumerInv, ReadyIsClosed, WaitsForSession, SupTypeInv, HoldsInstance
  <2>5. RecoverFree'
    BY <1>k, <2>1, <2>2 DEF ConsumerInv, RecoverFree, RecoverKept
  <2> QED
    BY <2>3, <2>4, <2>5 DEF ConsumerInv
<1>10. ASSUME NEW i \in Instances, DetachSession(i)
       PROVE  ConsumerInv'
  <2>1. /\ session'[i] = NoConn
        /\ \A k \in Instances \ {i} : session'[k] = session[k]
        /\ open' = open \ {session[i]} /\ done' = done \cup {session[i]}
        /\ UNCHANGED <<connInst, waiting, state, recover, pc, target, conn>>
    BY <1>10 DEF DetachSession, CloseConn, SupTypeInv, InstTypes
  <2>2. OpenIsSession' /\ RestIsClosed' /\ OpenNotDone'
    BY <1>m, <2>1 DEF ConsumerInv, OpenIsSession, RestIsClosed, OpenNotDone
  <2>3. ReadyIsClosed' /\ WaitsForSession'
    BY <1>m, <1>p, <2>1 DEF ConsumerInv, ReadyIsClosed, WaitsForSession, SupTypeInv, HoldsInstance
  <2>4. RecoverFree'
    BY <1>k, <2>1 DEF ConsumerInv, RecoverFree, RecoverKept
  <2> QED
    BY <2>2, <2>3, <2>4 DEF ConsumerInv
<1>11. CASE Boot
  <2>1. /\ pc'[Main] = "recoverList"
        /\ \A u \in Callers \ {Main} : pc'[u] = pc[u]
        /\ \A i \in Instances : session[i] = NoConn
        /\ UNCHANGED <<session, connVars, target, conn, state>>
    BY <1>11, <1>m DEF Boot, Goto, ConnInv, DownIsEmpty, SupTypeInv, LocalTypes
  <2>2. RecoverFree'
    BY <2>1 DEF RecoverFree
  <2> QED
    BY <1>m, <1>p, <2>1, <2>2 DEF ConsumerInv, OpenIsSession, ReadyIsClosed, RestIsClosed, OpenNotDone,
       WaitsForSession, ReadyPCs, StartedPCs, StartPCs, WaitPCs
<1>12. CASE RecoverList
  <2>1. /\ pc'[Main] = "recoverNext"
        /\ \A u \in Callers \ {Main} : pc'[u] = pc[u]
        /\ recover' \subseteq {h \in Hosts : \E i \in Instances : sessions[i] = h}
        /\ \A i \in Instances : session[i] = NoConn
        /\ UNCHANGED <<session, connVars, target, conn, state, inst>>
    BY <1>12, <1>m DEF RecoverList, Goto, ConsumerInv, RecoverFree, SupTypeInv, LocalTypes,
       sessVars, hostVars
  <2>2. \A h \in recover' : inst[h] \in Instances /\ sessions[inst[h]] = h
    BY <2>1, SessionConstants DEF MapInv, MapIsWatched
  <2>3. RecoverFree'
    BY <2>1, <2>2 DEF RecoverFree
  <2> QED
    BY <1>m, <2>1, <2>3 DEF ConsumerInv, OpenIsSession, ReadyIsClosed, RestIsClosed, OpenNotDone,
       WaitsForSession, ReadyPCs, StartedPCs, StartPCs, WaitPCs
<1>13. ASSUME NEW h \in Hosts, RecoverAttach(h)
       PROVE  ConsumerInv'
  <2>1. CASE CanAttach(inst[h], h)
    <3>1. /\ inst[h] \in Instances
          /\ target' = [target EXCEPT ![Main] = inst[h]]
          /\ target'[Main] = inst[h]
          /\ pc[Main] = "recoverNext" /\ pc'[Main] = "recoverBind"
          /\ h \in recover /\ recover' = recover \ {h}
      BY <1>13, <1>m, <2>1 DEF RecoverAttach, Dial, Goto, SupTypeInv, LocalTypes, ConsumerInv, RecoverFree
    <3>2. PICK c \in Conns : Dialled(Main, inst[h], c)
      BY <1>13, <1>m, <2>1, <3>1, Dials DEF RecoverAttach
    <3>3. /\ c \notin open \cup waiting
          /\ \A k \in Instances : session[k] # c
          /\ \A d \in Conns \ {c} : connInst'[d] = connInst[d]
          /\ \A u \in Callers \ {Main} : pc[u] = "idle" /\ pc'[u] = "idle"
      BY <1>m, <3>1, <3>2 DEF Dialled, FreeConn, SupTypeInv, ConnTypes, OpInv, QuietRecovery, RecoverPCs
    <3>4. ReadyIsClosed' /\ WaitsForSession'
      BY <1>p, <3>1, <3>3 DEF ReadyIsClosed, WaitsForSession, RecoverPCs
    <3>5. OpenIsSession' /\ RestIsClosed' /\ OpenNotDone'
      BY <3>2, <3>3 DEF Dialled, ConsumerInv, OpenIsSession, RestIsClosed, OpenNotDone, SupTypeInv, ConnTypes
    <3>6. RecoverFree'
      BY <1>k, <3>1, <3>2 DEF Dialled, ConsumerInv, RecoverFree, RecoverKept
    <3> QED
      BY <3>4, <3>5, <3>6 DEF ConsumerInv
  <2>2. CASE ~CanAttach(inst[h], h)
    BY <1>13, <1>k, <2>2 DEF RecoverAttach, ConsumerInv, OpenIsSession, ReadyIsClosed, RestIsClosed,
       OpenNotDone, WaitsForSession, RecoverFree, RecoverKept
  <2> QED
    BY <2>1, <2>2
<1>14. CASE RecoverBind
  <2>1. /\ pc[Main] = "recoverBind" /\ pc'[Main] = "recoverNext"
        /\ target[Main] \in Instances /\ session[target[Main]] = NoConn
        /\ \A u \in Callers \ {Main} : pc'[u] = pc[u] /\ pc[u] = "idle"
        /\ \A i \in Instances : session'[i] = IF i = target[Main] THEN conn[Main] ELSE session[i]
        /\ \A i \in Instances : state'[i] = IF i = target[Main] THEN "running" ELSE state[i]
        /\ waiting' = waiting \cup {conn[Main]}
        /\ connInst[conn[Main]] = target[Main]
        /\ UNCHANGED <<connInst, open, done, recover>>
    BY <1>14, <1>m DEF RecoverBind, BindSession, Goto, SupTypeInv, LocalTypes, InstTypes, ConsumerInv,
       RecoverFree, OpInv, QuietRecovery, RecoverPCs, ConnInv, BindIsNew, BindPCs
  <2>2. OpenIsSession'
    BY <1>m, <2>1 DEF ConsumerInv, OpenIsSession
  <2>3. ReadyIsClosed' /\ WaitsForSession'
    BY <1>p, <2>1 DEF ReadyIsClosed, WaitsForSession, RecoverPCs
  <2>4. RestIsClosed' /\ OpenNotDone'
    BY <2>1 DEF ConsumerInv, RestIsClosed, Rest, OpenNotDone
  <2>5. RecoverFree'
    BY <1>k, <2>1 DEF ConsumerInv, RecoverFree, RecoverKept
  <2> QED
    BY <2>2, <2>3, <2>4, <2>5 DEF ConsumerInv
<1>15. CASE RecoverDone \/ BootDone
  BY <1>15, <1>k, <1>m, <1>p, GotoLocal DEF RecoverDone, BootDone
<1>16. ASSUME NEW i \in Instances, StartAutoNext(i)
       PROVE  ConsumerInv'
  BY <1>16, <1>f, <1>k, <1>m, <1>p, AcquireLocal DEF StartAutoNext
<1>17. CASE DaemonExit
  <2>1. /\ open' = {} /\ done' = {} /\ \A t \in Callers : pc'[t] = "idle"
    BY <1>17 DEF DaemonExit
  <2> QED
    BY <1>m, <1>p, <2>1 DEF ConsumerInv, OpenIsSession, ReadyIsClosed, RestIsClosed, OpenNotDone,
       WaitsForSession, RecoverFree
<1>18. CASE Begin
  BY ONLY <1>1, <1>2, <1>18 DEF Begin
<1>19. CASE BootStep
  BY ONLY <1>12, <1>13, <1>14, <1>15, <1>16, <1>19 DEF BootStep
<1> QED
  BY ONLY [Next]_vars, <1>3, <1>4, <1>5, <1>6, <1>7, <1>8, <1>9, <1>10, <1>11, <1>17, <1>18, <1>19
     DEF Next

LEMMA ConsumerInvariant ==
    ASSUME QuietBoot
    PROVE  Spec => []ConsumerInv
<1>1. Init => ConsumerInv
  BY SupervisorConstants DEF Init, ConsumerInv, OpenIsSession, ReadyIsClosed, RestIsClosed, OpenNotDone,
     WaitsForSession, RecoverFree, ReadyPCs, StartedPCs, StartPCs, WaitPCs
<1>2. SupTypeInv /\ OpInv /\ ConnInv /\ MapInv /\ ConsumerInv /\ [Next]_vars => ConsumerInv'
  BY ConsumerStep
<1> QED
  BY <1>1, <1>2, SupTypeInvariant, OpInvariant, ConnInvariant, MapInvariant, PTL DEF Spec

\* An instance has one consumer of its output, as long as no request arrives
\* while RecoverSessions runs (consumeSession, bindSession, RecoverSessions).
THEOREM SupOneConsumer ==
    ASSUME QuietBoot
    PROVE  Spec => []OneConsumer
<1>1. ConsumerInv => OneConsumer
  BY DEF ConsumerInv, OpenIsSession, OneConsumer
<1> QED
  BY <1>1, ConsumerInvariant, PTL

\* The process of an instance is watched, and by one consumer, under the same
\* assumption (waitSession, consumeSession).
THEOREM SupOneWatcher ==
    ASSUME QuietBoot
    PROVE  Spec => []OneWatcher
<1>1. SessionIsWatched /\ OneConsumer => OneWatcher
  BY DEF OneWatcher
<1> QED
  BY <1>1, SupSessionIsWatched, SupOneConsumer, PTL

-----------------------------------------------------------------------------
(* The daemon is a serial caller of prism-sessiond.                        *)

\* A session.start under way is that of a goroutine that waits for it, unless
\* it is left over from a daemon that is gone.
StartIsAwaited ==
    daemon # "down" =>
        \A t \in Callers : InStart(t) => pc[t] = "await" /\ cinst[t] = target[t]

\* Nobody leaves startSession before the reply.
AwaitKept ==
    \A t \in Callers : pc[t] = "await" /\ InStart(t) => pc'[t] = "await" /\ target'[t] = target[t]

\* Steps of prism-sessiond's handlers.
HandlersKept ==
    \A t \in Callers : (cpc'[t] \in {"spawn", "insert"}) => InStart(t) /\ cinst'[t] = cinst[t]

LEMMA AwaitStep ==
    ASSUME SlowBoot, SupTypeInv, OpInv, StartIsAwaited, [Next]_vars
    PROVE  StartIsAwaited'
<1> USE DEF instVars, connVars, localVars, bootVars, callerVars, sessVars, InStart
<1>m. Main \in Callers
  BY SupervisorConstants
<1>t. /\ pc \in [Callers -> PCs] /\ target \in [Callers -> Instances \cup {NoInstance}]
      /\ cpc \in [Callers -> CallerPCs] /\ cinst \in [Callers -> Instances \cup {NoInstance}]
      /\ chost \in [Callers -> Hosts \cup {NoHost}]
  BY DEF SupTypeInv, LocalTypes, TypeInv, SessTypeOK
<1>f. ASSUME AwaitKept, HandlersKept, daemon = "down" => daemon' = "down"
      PROVE  StartIsAwaited'
  BY <1>f DEF StartIsAwaited, AwaitKept, HandlersKept
<1>h. ASSUME UNCHANGED callerVars
      PROVE  HandlersKept
  BY <1>h DEF HandlersKept
<1>l. ASSUME UNCHANGED localVars
      PROVE  AwaitKept
  BY <1>l DEF AwaitKept
<1>g. ASSUME NEW t \in Callers, pc[t] # "await",
             \A u \in Callers \ {t} : pc'[u] = pc[u] /\ target'[u] = target[u]
      PROVE  AwaitKept
  BY <1>g DEF AwaitKept
<1>e. ASSUME NEW t \in Callers, EndOp(t) \/ (\E label \in PCs : Goto(t, label) /\ UNCHANGED target)
      PROVE  \A u \in Callers \ {t} : pc'[u] = pc[u] /\ target'[u] = target[u]
  BY <1>e, <1>t DEF EndOp, Goto
<1>a. ASSUME NEW t \in Callers, NEW i \in Instances, NEW j, NEW label, Acquire(t, i, j, label)
      PROVE  \A u \in Callers \ {t} : pc'[u] = pc[u] /\ target'[u] = target[u]
  BY <1>a, <1>t DEF Acquire, Goto
<1>p. HoldPCs \cup BootPCs \subseteq PCs /\ "idle" \in PCs
  BY DEF PCs
<1>1. ASSUME NEW t \in Callers, NEW i \in Instances, NEW j \in AllJobs,
             \/ BeginLifecycle(t, i, j) \/ BeginMutation(t, i, j) \/ BeginDeploy(t, i)
             \/ AutoRestartFires(t, i)
      PROVE  StartIsAwaited'
  <2>1. AwaitKept
    BY <1>1, <1>a, <1>g, <1>l DEF BeginLifecycle, BeginMutation, BeginDeploy, AutoRestartFires, Idle
  <2> QED
    BY <1>1, <1>f, <1>h, <2>1 DEF BeginLifecycle, BeginMutation, BeginDeploy, AutoRestartFires
<1>2. CASE \/ \E targets \in SUBSET Instances \ {{}} : ReserveDeployment(targets)
           \/ \E i \in Instances : ReleaseDeployment(i) \/ RestartWindow(i)
           \/ \E c \in Conns : ConsumeExit(c) \/ LoseLink(c) \/ WaitSession(c)
           \/ BeginShutdown
           \/ \E i \in Instances : DetachSession(i)
  <2>1. UNCHANGED localVars /\ UNCHANGED callerVars /\ (daemon = "down" => daemon' = "down")
    BY <1>2 DEF ReserveDeployment, ReleaseDeployment, RestartWindow, ConsumeExit, LoseLink,
       WaitSession, BeginShutdown, DetachSession, RemoveClient
  <2> QED
    BY <1>f, <1>h, <1>l, <2>1
<1>3. ASSUME NEW t \in Callers, StartStep(t)
      PROVE  StartIsAwaited'
  <2>1. CASE CreateSession(t)
    <3>1. \A u \in Callers \ {t} :
             pc'[u] = pc[u] /\ target'[u] = target[u] /\ cpc'[u] = cpc[u] /\ cinst'[u] = cinst[u]
      BY <1>t, <2>1 DEF CreateSession, StartRequest, Goto
    <3>2. pc'[t] = "await" /\ cinst'[t] = target'[t] /\ UNCHANGED daemon
      BY <1>t, <2>1 DEF CreateSession, StartRequest, Goto
    <3> QED
      BY <3>1, <3>2 DEF StartIsAwaited
  <2>2. CASE SessionCreated(t) \/ SessionNotCreated(t)
    <3>1. \A u \in Callers \ {t} :
             pc'[u] = pc[u] /\ target'[u] = target[u] /\ cpc'[u] = cpc[u] /\ cinst'[u] = cinst[u]
      BY <1>t, <2>2 DEF SessionCreated, SessionNotCreated, FailStart, Reply, EndOp, Goto
    <3>2. cpc'[t] = "idle" /\ UNCHANGED daemon
      BY <1>t, <2>2 DEF SessionCreated, SessionNotCreated, Reply
    <3> QED
      BY <3>1, <3>2 DEF StartIsAwaited
  <2>3. CASE \/ StartCheck(t) \/ HookDone(t) \/ StartFails(t) \/ Inspect(t) \/ AttachExisting(t)
             \/ AttachExistingFails(t) \/ AttachNew(t) \/ AttachNewFails(t) \/ StartBinds(t)
    <3>1. pc[t] # "await"
      BY <2>3 DEF StartCheck, HookDone, StartFails, Inspect, AttachExisting, AttachExistingFails,
         AttachNew, AttachNewFails, StartBinds
    <3>2. EndOp(t) \/ \E label \in StartPCs : Goto(t, label) /\ UNCHANGED target
      BY <2>3 DEF StartCheck, HookDone, StartFails, FailStart, Inspect, AttachExisting, Dial,
         AttachExistingFails, AttachNew, AttachNewFails, StartBinds, StartPCs
    <3>3. UNCHANGED callerVars /\ UNCHANGED daemon
      BY <2>3 DEF StartCheck, HookDone, StartFails, Inspect, AttachExisting, Dial, AddClient,
         AttachExistingFails, AttachNew, AttachNewFails, StartBinds
    <3>4. StartPCs \subseteq PCs
      BY DEF PCs, HoldPCs
    <3> QED
      BY <1>e, <1>f, <1>g, <1>h, <3>1, <3>2, <3>3, <3>4
  <2> QED
    BY ONLY <1>3, <2>1, <2>2, <2>3 DEF StartStep
<1>4. ASSUME NEW t \in Callers, StopStep(t) \/ WorkStep(t)
      PROVE  StartIsAwaited'
  <2>1. pc[t] # "await" /\ UNCHANGED callerVars /\ UNCHANGED daemon
    BY <1>4 DEF StopStep, StopNothing, StopBegins, StopDone, StopTimeout, KillTimeout, Kill, WorkStep,
       DeployMarks, DeployApplied, MutationEnds
  <2>2. EndOp(t) \/ \E label \in HoldPCs : Goto(t, label) /\ UNCHANGED target
    BY <1>4 DEF StopStep, StopNothing, StopBegins, StopDone, StopTimeout, KillTimeout, AfterStop,
       WorkStep, DeployMarks, DeployApplied, MutationEnds, HoldPCs, StartPCs, StopPCs, WorkPCs
  <2> QED
    BY <1>e, <1>f, <1>g, <1>h, <1>p, <2>1, <2>2
<1>5. CASE Boot
  <2>1. \A t \in Callers : cpc'[t] = "idle"
    BY <1>5 DEF Boot
  <2> QED
    BY <2>1 DEF StartIsAwaited
<1>6. CASE BootStep
  <2>1. pc[Main] # "await" /\ UNCHANGED callerVars /\ UNCHANGED daemon
    BY <1>6 DEF BootStep, RecoverList, RecoverAttach, Dial, AddClient, RecoverBind, RecoverDone,
       StartAutoNext, BootDone
  <2>2. \A u \in Callers \ {Main} : pc'[u] = pc[u] /\ target'[u] = target[u]
    BY <1>6, <1>a, <1>m, <1>t DEF BootStep, RecoverList, RecoverAttach, Dial, RecoverBind, RecoverDone,
       StartAutoNext, BootDone, Goto
  <2> QED
    BY <1>f, <1>g, <1>h, <1>m, <2>1, <2>2
<1>7. CASE DaemonExit
  BY <1>7 DEF DaemonExit, StartIsAwaited
<1>8. CASE SessiondStep
  <2>1. HandlersKept
    <3>1. ASSUME NEW t \in Callers, SpawnFresh(t) \/ SpawnFails(t) \/ Insert(t) \/ DropReply(t)
          PROVE  HandlersKept
      BY <1>t, <3>1 DEF SpawnFresh, Spawn, SpawnFails, Insert, DropReply, Reply, HandlersKept
    <3>2. ASSUME NEW h \in Hosts, HostStep(h) \/ Exit(h) \/ OrphanKill(h)
          PROVE  UNCHANGED callerVars
      BY <3>2 DEF HostStep, Finish, FinishDone, Watch, Cleanup, Exit, OrphanKill, KillHost, hostVars
    <3>3. ServiceCrash => HandlersKept
      BY <1>t DEF ServiceCrash, HandlersKept
    <3>4. ASSUME NEW h \in Hosts, SubscribesLate(h) \/ StdinBlocks(h) \/ StdinUnblocks(h)
          PROVE  UNCHANGED callerVars
      BY <3>4, StickingFrame DEF SubscribesLate, Sticking
    <3> QED
      BY <1>8, <1>h, <3>1, <3>2, <3>3, <3>4 DEF SessiondStep
  <2> QED
    BY <1>8, <1>f, <1>l, <2>1 DEF SessiondStep
<1>9. CASE UNCHANGED vars
  BY <1>9, <1>f, <1>h, <1>l DEF vars
<1>10. CASE Begin
  BY ONLY <1>1, <1>10 DEF Begin, AllJobs
<1>11. CASE \E t \in Callers, i \in Instances : AutoRestartFires(t, i)
  BY ONLY <1>1, <1>11 DEF AllJobs
<1> QED
  BY ONLY [Next]_vars, <1>2, <1>3, <1>4, <1>5, <1>6, <1>7, <1>8, <1>9, <1>10, <1>11 DEF Next

LEMMA AwaitInvariant ==
    ASSUME SlowBoot
    PROVE  Spec => []StartIsAwaited
<1>1. Init => StartIsAwaited
  BY DEF Init, StartIsAwaited
<1>2. SupTypeInv /\ OpInv /\ StartIsAwaited /\ [Next]_vars => StartIsAwaited'
  BY AwaitStep
<1> QED
  BY <1>1, <1>2, SupTypeInvariant, OpInvariant, PTL DEF Spec

\* The mutex makes the starts of an instance serial, so prism-sessiond's own
\* invariant holds below the supervisor.
LEMMA SerialPart ==
    ASSUME SupTypeInv, OpInv, StartIsAwaited, SerialInv, SessPart
    PROVE  SerialInv'
<1>1. ASSUME NEW t \in Callers, NEW i \in Instances,
             pc[t] = "create", target[t] = i, StartRequest(t, i)
      PROVE  SerialInv'
  <2>1. pc[t] \in HoldPCs /\ daemon # "down"
    BY <1>1 DEF HoldPCs, StartPCs, OpInv, DownIsIdle
  <2>2. ASSUME NEW u \in Callers, InStart(u), cinst[u] = i
        PROVE  FALSE
    BY <1>1, <2>1, <2>2, OthersElsewhere DEF StartIsAwaited, HoldPCs, StartPCs
  <2>3. ~Starting(i)
    BY <2>2 DEF Starting, InStart
  <2> QED
    BY <1>1, <2>3, SerialStep DEF SerialMove, SupTypeInv
<1>2. CASE \/ \E t \in Callers : SpawnFresh(t) \/ SpawnFails(t) \/ Insert(t) \/ Reply(t)
           \/ \E h \in Hosts : HostStep(h) \/ Exit(h) \/ OrphanKill(h)
           \/ \E h \in Hosts : Sticking(h)
           \/ ServiceCrash
           \/ UNCHANGED sessVars
  BY <1>2, SerialStep DEF SerialMove, ServiceMove, Sticking, CallerStep, SpawnFresh, SupTypeInv
<1>3. CASE \/ \E h \in Hosts \cup {NoHost} : AddClient(h) \/ RemoveClient(h)
           \/ \E i \in Instances : Kill(i)
           \/ clients' = [h \in Hosts |-> 0]
              /\ UNCHANGED <<fileVars, phase, inst, alive, doomed, watchers, cleaners, callerVars,
                             svcCrashes, stuck>>
  <2>1. UNCHANGED <<fileVars, phase, inst, alive, watchers, callerVars>>
    BY <1>3 DEF AddClient, RemoveClient, Kill
  <2> QED
    BY <2>1 DEF fileVars, callerVars, SerialInv, WatchedInMap, MapIsWatched, StartsOnFreeEntry,
       InsertsItsHost, OneStart, OpenIsTracked, AliveIsServing, InStart, Tracked
<1> QED
  BY <1>1, <1>2, <1>3 DEF SessPart

LEMMA SupSerialInvariant ==
    ASSUME SlowBoot
    PROVE  Spec => []SerialInv
<1>1. Init => SerialInv
  BY SessionConstants
     DEF Init, SessInit, SerialInv, WatchedInMap, MapIsWatched, StartsOnFreeEntry,
         InsertsItsHost, OneStart, OpenIsTracked, AliveIsServing, InStart, Tracked
<1>2. SupTypeInv /\ OpInv /\ StartIsAwaited /\ SerialInv /\ [Next]_vars => SerialInv'
  BY SessPartStep, SerialPart
<1> QED
  BY <1>1, <1>2, SupTypeInvariant, OpInvariant, AwaitInvariant, PTL DEF Spec

\* Below the supervisor an instance never has two processes of the running
\* prism-sessiond, and none of them is lost, whatever breaks, exits or
\* restarts, as long as a new daemon boots after the requests of the one
\* before it are served (ensureSession, Service.start).
THEOREM SupProcessIsKnown ==
    ASSUME SlowBoot
    PROVE  Spec => []ProcessIsKnown
<1>1. SupTypeInv /\ SerialInv => ProcessIsKnown
  BY SerialConsequences DEF SupTypeInv, ProcessIsKnown
<1> QED
  BY <1>1, SupTypeInvariant, SupSerialInvariant, PTL

-----------------------------------------------------------------------------
(* What shows stopped is quiet.                                            *)

\* Goroutine t has the host h in hand: sessiond is about to tell it, it was
\* told, or it has dialled it and not yet bound the connection.
HoldsHost(t, h) ==
    \/ pc[t] = "await" /\ cpc[t] \in {"insert", "replied"} /\ chost[t] = h
    \/ pc[t] = "attachNew" /\ want[t] = h
    \/ pc[t] \in BindPCs /\ conn[t] \in open /\ connHost[conn[t]] = h

\* The process h of i is the session of i, or somebody is about to make it so.
Held(i, h) ==
    \/ session[i] \in open /\ connHost[session[i]] = h
    \/ \E t \in Callers : target[t] = i /\ HoldsHost(t, h)
    \/ pc[Main] = "recoverList"
    \/ pc[Main] \in {"recoverNext", "recoverBind"} /\ h \in recover

\* Who listens and lives, serves.
ListenersServe ==
    \A i \in Instances : listening[i] \in alive => phase[listening[i]] = "serving"

ReachableIsHeld == daemon = "up" => \A i \in Instances : \A h \in Reachable(i) : Held(i, h)

\* A mutation that wants the instance stopped works beside no session.
MutatesClosed ==
    \A t \in Callers :
        pc[t] = "mutating" /\ job[t] = "mutateStopped" => session[target[t]] \notin open

HeldInv == ListenersServe /\ ReachableIsHeld /\ MutatesClosed

\* No process becomes reachable.
ReachKept == \A i \in Instances : Reachable(i)' \subseteq Reachable(i)

\* The one exception: host.Start for the goroutine t.
Spawned(t) ==
    /\ cpc[t] = "spawn"
    /\ cpc'[t] = "insert"
    /\ \A u \in Callers \ {t} : cpc'[u] = cpc[u] /\ chost'[u] = chost[u]
    /\ \A i \in Instances \ {cinst[t]} : Reachable(i)' \subseteq Reachable(i)
    /\ \A i \in Instances : i = cinst[t] => Reachable(i)' \subseteq {chost'[t]}

LEMMA ReachSame ==
    ASSUME UNCHANGED <<listening, alive, inst>>
    PROVE  ReachKept
BY DEF ReachKept, Reachable, Running

LEMMA SpawnReaches ==
    ASSUME SupTypeInv, NEW t \in Callers, Spawn(t)
    PROVE  Spawned(t)
<1>1. PICK h \in Hosts :
        /\ h \notin alive
        /\ inst' = [inst EXCEPT ![h] = cinst[t]]
        /\ alive' = alive \cup {h}
        /\ listening' = [listening EXCEPT ![cinst[t]] = h]
        /\ chost' = [chost EXCEPT ![t] = h]
  BY DEF Spawn, Recyclable
<1>2. /\ inst'[h] = cinst[t] /\ \A g \in Hosts \ {h} : inst'[g] = inst[g]
      /\ \A i \in Instances \ {cinst[t]} : listening'[i] = listening[i]
      /\ \A i \in Instances : i = cinst[t] => listening'[i] = h
      /\ chost'[t] = h
      /\ \A u \in Callers \ {t} : chost'[u] = chost[u]
      /\ alive \subseteq Hosts
  BY <1>1 DEF SupTypeInv, TypeInv, SessTypeOK
<1>3. /\ cpc[t] = "spawn" /\ cpc'[t] = "insert"
      /\ \A u \in Callers \ {t} : cpc'[u] = cpc[u]
  BY DEF Spawn, SupTypeInv, TypeInv, SessTypeOK
<1>4. \A i \in Instances \ {cinst[t]} : Reachable(i)' \subseteq Reachable(i)
  BY <1>1, <1>2 DEF Reachable, Running
<1>5. \A i \in Instances : i = cinst[t] => Reachable(i)' \subseteq {chost'[t]}
  BY <1>1, <1>2 DEF Reachable, Running
<1> QED
  BY <1>2, <1>3, <1>4, <1>5 DEF Spawned

LEMMA SessiondReaches ==
    ASSUME SupTypeInv, SessiondStep
    PROVE  ReachKept \/ \E t \in Callers : Spawned(t)
<1> USE DEF SupTypeInv, TypeInv, SessTypeOK, fileVars, hostVars
<1>1. ASSUME NEW t \in Callers, SpawnFails(t) \/ Insert(t) \/ DropReply(t)
      PROVE  ReachKept
  BY <1>1, ReachSame DEF SpawnFails, Insert, DropReply, Reply
<1>2. ASSUME NEW h \in Hosts, Finish(h) \/ FinishDone(h) \/ Watch(h) \/ OrphanKill(h)
      PROVE  ReachKept
  BY <1>2, ReachSame DEF Finish, FinishDone, Watch, OrphanKill, KillHost
<1>3. ASSUME NEW h \in Hosts, Cleanup(h)
      PROVE  ReachKept
  <2>1. /\ \A i \in Instances : listening'[i] \in {listening[i], NoHost}
        /\ NoHost \notin alive /\ UNCHANGED <<alive, inst>>
    BY <1>3, SessionConstants DEF Cleanup
  <2> QED
    BY <2>1 DEF ReachKept, Reachable, Running
<1>4. ASSUME NEW h \in Hosts, Exit(h)
      PROVE  ReachKept
  BY <1>4 DEF Exit, ReachKept, Reachable, Running
<1>5. CASE ServiceCrash
  <2>1. /\ \A i \in Instances : listening'[i] = NoHost
        /\ alive' \subseteq alive /\ NoHost \notin alive
    BY <1>5, SessionConstants DEF ServiceCrash
  <2> QED
    BY <2>1 DEF ReachKept, Reachable, Running
<1>6. ASSUME NEW t \in Callers, SpawnFresh(t)
      PROVE  Spawned(t)
  BY <1>6, SpawnReaches DEF SpawnFresh
<1>7. ASSUME NEW h \in Hosts, SubscribesLate(h) \/ StdinBlocks(h) \/ StdinUnblocks(h)
      PROVE  ReachKept
  BY <1>7, ReachSame, StickingFrame DEF SubscribesLate, Sticking
<1> QED
  BY <1>1, <1>2, <1>3, <1>4, <1>5, <1>6, <1>7 DEF SessiondStep, HostStep

LEMMA ServeStep ==
    ASSUME SupTypeInv, ListenersServe, SessPart
    PROVE  ListenersServe'
<1> USE DEF ListenersServe, SupTypeInv, TypeInv, SessTypeOK, fileVars, hostVars
<1>1. ASSUME UNCHANGED <<listening, phase>>, alive' \subseteq alive
      PROVE  ListenersServe'
  BY <1>1
<1>2. ASSUME NEW t \in Callers, Spawn(t)
      PROVE  ListenersServe'
  <2>1. PICK h \in Hosts :
          /\ h \notin alive
          /\ phase' = [phase EXCEPT ![h] = "serving"]
          /\ alive' = alive \cup {h}
          /\ listening' = [listening EXCEPT ![cinst[t]] = h]
    BY <1>2 DEF Spawn, Recyclable
  <2>2. phase'[h] = "serving" /\ \A g \in Hosts \ {h} : phase'[g] = phase[g]
    BY <2>1
  <2>3. \A i \in Instances : listening'[i] \in {listening[i], h}
    BY <2>1
  <2> QED
    BY <2>1, <2>2, <2>3
<1>3. ASSUME NEW h \in Hosts, HostStep(h)
      PROVE  ListenersServe'
  <2>1. CASE Finish(h) \/ FinishDone(h)
    <3>1. UNCHANGED <<listening, alive>> /\ \A g \in Hosts \ {h} : phase'[g] = phase[g]
      BY <2>1 DEF Finish, FinishDone
    <3>2. \A i \in Instances : listening[i] \in alive => listening[i] # h
      BY <2>1 DEF Finish, FinishDone
    <3> QED
      BY <3>1, <3>2
  <2>2. CASE Watch(h)
    BY <1>1, <2>2 DEF Watch
  <2>3. CASE Cleanup(h)
    <3>1. /\ \A i \in Instances : listening'[i] \in {listening[i], NoHost}
          /\ NoHost \notin alive /\ UNCHANGED <<alive, phase>>
      BY <2>3, SessionConstants DEF Cleanup
    <3> QED
      BY <3>1
  <2> QED
    BY <1>3, <2>1, <2>2, <2>3 DEF HostStep
<1>4. CASE ServiceCrash
  <2>1. /\ \A i \in Instances : listening'[i] = NoHost
        /\ alive' \subseteq alive /\ NoHost \notin alive
    BY <1>4, SessionConstants DEF ServiceCrash
  <2> QED
    BY <2>1
<1>5. ASSUME NEW t \in Callers, SpawnFails(t) \/ Insert(t) \/ Reply(t)
      PROVE  ListenersServe'
  BY <1>1, <1>5 DEF SpawnFails, Insert, Reply
<1>6. ASSUME NEW h \in Hosts, Exit(h) \/ OrphanKill(h)
      PROVE  ListenersServe'
  BY <1>1, <1>6 DEF Exit, OrphanKill, KillHost
<1>7. ASSUME NEW h \in Hosts \cup {NoHost}, AddClient(h) \/ RemoveClient(h)
      PROVE  ListenersServe'
  BY <1>1, <1>7 DEF AddClient, RemoveClient
<1>8. ASSUME NEW i \in Instances, Kill(i) \/ \E t \in Callers : StartRequest(t, i)
      PROVE  ListenersServe'
  BY <1>1, <1>8 DEF StartRequest, Kill
<1>9. CASE \/ clients' = [h \in Hosts |-> 0]
              /\ UNCHANGED <<fileVars, phase, inst, alive, doomed, watchers, cleaners, callerVars,
                             svcCrashes, stuck>>
           \/ UNCHANGED sessVars
  BY <1>1, <1>9 DEF sessVars
<1>10. ASSUME NEW h \in Hosts, Sticking(h)
       PROVE  ListenersServe'
  BY <1>1, <1>10, StickingFrame
<1> QED
  BY <1>2, <1>3, <1>4, <1>5, <1>6, <1>7, <1>8, <1>9, <1>10 DEF SessPart, SpawnFresh

-----------------------------------------------------------------------------
\* The hand of u stays as it is.
SameHand(u) ==
    /\ pc'[u] = pc[u]
    /\ target'[u] = target[u]
    /\ conn'[u] = conn[u]
    /\ want'[u] = want[u]
    /\ cpc'[u] = cpc[u]
    /\ chost'[u] = chost[u]

\* One goroutine moves; what it lets go of is not reachable.
LEMMA HandMoves ==
    ASSUME SupTypeInv, ReachableIsHeld, ReachKept, NEW t \in Callers,
           \A u \in Callers \ {t} : SameHand(u),
           UNCHANGED <<session, open, connHost, recover>>,
           daemon' = "up" => daemon = "up",
           pc[t] \in RecoverPCs => pc'[t] = pc[t],
           \A i \in Instances : \A h \in Reachable(i) :
               target[t] = i /\ HoldsHost(t, h) => target'[t] = i /\ HoldsHost(t, h)'
    PROVE  ReachableIsHeld'
<1> SUFFICES ASSUME daemon' = "up", NEW i \in Instances, NEW h \in Reachable(i)'
             PROVE  Held(i, h)'
  BY DEF ReachableIsHeld
<1>1. h \in Reachable(i) /\ Held(i, h)
  BY DEF ReachKept, ReachableIsHeld
<1>2. ASSUME NEW u \in Callers, target[u] = i, HoldsHost(u, h)
      PROVE  target'[u] = i /\ HoldsHost(u, h)'
  <2>1. CASE u = t
    BY <1>1, <1>2, <2>1
  <2>2. CASE u # t
    BY <1>2, <2>2 DEF SameHand, HoldsHost
  <2> QED
    BY <2>1, <2>2
<1>3. pc[Main] \in RecoverPCs => pc'[Main] = pc[Main]
  BY SupervisorConstants DEF SameHand
<1> QED
  BY <1>1, <1>2, <1>3 DEF Held, RecoverPCs

\* The same for a goroutine with nothing in hand.
LEMMA EmptyHandMoves ==
    ASSUME SupTypeInv, ReachableIsHeld, UNCHANGED <<listening, alive, inst>>, NEW t \in Callers,
           \A u \in Callers \ {t} : SameHand(u),
           UNCHANGED <<session, open, connHost, recover, daemon>>,
           pc[t] \notin RecoverPCs \cup BindPCs \cup {"attachNew"},
           pc[t] # "await" \/ cpc[t] \notin {"insert", "replied"}
    PROVE  ReachableIsHeld'
<1>1. \A h \in Hosts : ~HoldsHost(t, h)
  BY DEF HoldsHost
<1>2. \A i \in Instances : Reachable(i) \subseteq Hosts
  BY DEF Reachable, Running, SupTypeInv, TypeInv, SessTypeOK
<1> QED
  BY <1>1, <1>2, ReachSame, HandMoves

\* A step that is not about hands, sessions or processes.
LEMMA HandFrame ==
    ASSUME ReachableIsHeld, ReachKept,
           \A u \in Callers : SameHand(u),
           UNCHANGED <<session, open, connHost, recover, daemon>>
    PROVE  ReachableIsHeld'
<1> SUFFICES ASSUME daemon' = "up", NEW i \in Instances, NEW h \in Reachable(i)'
             PROVE  Held(i, h)'
  BY DEF ReachableIsHeld
<1>1. Held(i, h)
  BY DEF ReachKept, ReachableIsHeld
<1> QED
  BY <1>1, SupervisorConstants DEF Held, HoldsHost, SameHand

\* What an operation's own moves do to the hands of the others.
LEMMA GotoHands ==
    ASSUME SupTypeInv, NEW t \in Callers, NEW label, Goto(t, label), UNCHANGED <<target, want>>,
           \A u \in Callers \ {t} : conn'[u] = conn[u] /\ cpc'[u] = cpc[u] /\ chost'[u] = chost[u]
    PROVE  \A u \in Callers \ {t} : SameHand(u)
BY DEF Goto, SameHand, SupTypeInv, LocalTypes

LEMMA EndOpHands ==
    ASSUME SupTypeInv, NEW t \in Callers, EndOp(t),
           \A u \in Callers \ {t} : cpc'[u] = cpc[u] /\ chost'[u] = chost[u]
    PROVE  \A u \in Callers \ {t} : SameHand(u)
BY DEF EndOp, SameHand, SupTypeInv, LocalTypes

LEMMA AcquireHands ==
    ASSUME SupTypeInv, NEW t \in Callers, NEW i, NEW j, NEW label, Acquire(t, i, j, label),
           UNCHANGED <<conn, want, cpc, chost>>
    PROVE  \A u \in Callers \ {t} : SameHand(u)
BY DEF Acquire, Goto, SameHand, SupTypeInv, LocalTypes

\* The steps of the operations that neither dial nor bind.
LEMMA OperationHands ==
    ASSUME SupTypeInv, ListenersServe, ReachableIsHeld, NEW t \in Callers,
           \/ StartCheck(t) \/ HookDone(t) \/ StartFails(t) \/ Inspect(t)
           \/ AttachExistingFails(t) \/ CreateSession(t) \/ SessionCreated(t)
           \/ SessionNotCreated(t) \/ AttachNewFails(t)
           \/ StopStep(t) \/ WorkStep(t)
    PROVE  ReachableIsHeld'
<1> USE DEF instVars, connVars, localVars, bootVars, fileVars, hostVars, callerVars, sessVars, RecoverPCs,
        BindPCs
<1>1. CASE StartCheck(t) \/ HookDone(t) \/ StartFails(t) \/ Inspect(t) \/ AttachExistingFails(t)
  <2>1. /\ UNCHANGED <<listening, alive, inst, session, open, connHost, recover, daemon, cpc, chost>>
        /\ pc[t] \in {"start", "hook", "inspect", "create", "attach"}
    BY <1>1 DEF StartCheck, HookDone, StartFails, FailStart, Inspect, AttachExistingFails
  <2>2. \A u \in Callers \ {t} : SameHand(u)
    BY <1>1, <2>1, EndOpHands DEF StartCheck, HookDone, StartFails, FailStart, Inspect,
       AttachExistingFails, Goto, SameHand, SupTypeInv, LocalTypes
  <2> QED
    BY <2>1, <2>2, EmptyHandMoves
<1>2. CASE CreateSession(t)
  <2>1. /\ UNCHANGED <<listening, alive, inst, session, open, connHost, recover, daemon>>
        /\ pc[t] = "create"
    BY <1>2 DEF CreateSession, StartRequest
  <2>2. \A u \in Callers \ {t} : cpc'[u] = cpc[u] /\ chost'[u] = chost[u]
    BY <1>2 DEF CreateSession, StartRequest, SupTypeInv, TypeInv, SessTypeOK
  <2>3. \A u \in Callers \ {t} : SameHand(u)
    BY <1>2, <2>2, GotoHands DEF CreateSession
  <2> QED
    BY <2>1, <2>3, EmptyHandMoves
<1>3. CASE SessionCreated(t)
  <2>1. /\ UNCHANGED <<listening, alive, inst, session, open, connHost, recover, daemon, target, conn>>
        /\ pc[t] = "await" /\ pc'[t] = "attachNew" /\ want'[t] = chost[t]
        /\ \A u \in Callers \ {t} : pc'[u] = pc[u] /\ want'[u] = want[u]
    BY <1>3 DEF SessionCreated, Reply, Goto, SupTypeInv, LocalTypes
  <2>2. \A u \in Callers \ {t} : cpc'[u] = cpc[u] /\ chost'[u] = chost[u]
    BY <1>3 DEF SessionCreated, Reply, SupTypeInv, TypeInv, SessTypeOK
  <2>3. \A u \in Callers \ {t} : SameHand(u)
    BY <2>1, <2>2 DEF SameHand
  <2>4. \A h \in Hosts : HoldsHost(t, h) => HoldsHost(t, h)'
    BY <2>1 DEF HoldsHost
  <2>5. \A i \in Instances : Reachable(i) \subseteq Hosts
    BY DEF Reachable, Running, SupTypeInv, TypeInv, SessTypeOK
  <2> QED
    BY <2>1, <2>3, <2>4, <2>5, ReachSame, HandMoves
<1>4. CASE SessionNotCreated(t)
  <2>1. /\ UNCHANGED <<listening, alive, inst, session, open, connHost, recover, daemon>>
        /\ pc[t] = "await" /\ cpc[t] = "failed"
    BY <1>4 DEF SessionNotCreated, FailStart, Reply
  <2>2. \A u \in Callers \ {t} : cpc'[u] = cpc[u] /\ chost'[u] = chost[u]
    BY <1>4 DEF SessionNotCreated, Reply, SupTypeInv, TypeInv, SessTypeOK
  <2>3. \A u \in Callers \ {t} : SameHand(u)
    BY <1>4, <2>2, EndOpHands DEF SessionNotCreated, FailStart
  <2> QED
    BY <2>1, <2>3, EmptyHandMoves
<1>5. CASE AttachNewFails(t)
  <2>1. /\ UNCHANGED <<listening, alive, inst, session, open, connHost, recover, daemon, cpc, chost>>
        /\ pc[t] = "attachNew" /\ ~CanAttach(target[t], want[t])
    BY <1>5 DEF AttachNewFails, FailStart
  <2>2. \A u \in Callers \ {t} : SameHand(u)
    BY <1>5, <2>1, EndOpHands DEF AttachNewFails, FailStart
  <2>3. ASSUME NEW i \in Instances, NEW h \in Reachable(i), target[t] = i, HoldsHost(t, h)
        PROVE  FALSE
    <3>1. want[t] = h
      BY <2>1, <2>3 DEF HoldsHost
    <3>2. listening[i] = h /\ phase[h] = "serving"
      BY <2>3 DEF Reachable, Running, ListenersServe
    <3> QED
      BY <2>1, <2>3, <3>1, <3>2 DEF CanAttach
  <2> QED
    BY <2>1, <2>2, <2>3, ReachSame, HandMoves
<1>6. CASE StopStep(t) \/ WorkStep(t)
  <2>1. /\ UNCHANGED <<listening, alive, inst, session, open, connHost, recover, daemon, cpc, chost>>
        /\ pc[t] \in {"stop", "waitStop", "killWait", "deploy", "applying", "mutating"}
    BY <1>6 DEF StopStep, StopNothing, StopBegins, StopDone, StopTimeout, KillTimeout, Kill, WorkStep,
       DeployMarks, DeployApplied, MutationEnds
  <2>2. EndOp(t) \/ \E label \in HoldPCs : Goto(t, label) /\ UNCHANGED <<target, want>>
    BY <1>6 DEF StopStep, StopNothing, StopBegins, StopDone, StopTimeout, KillTimeout, AfterStop,
       WorkStep, DeployMarks, DeployApplied, MutationEnds, HoldPCs, StartPCs, StopPCs, WorkPCs
  <2>3. \A u \in Callers \ {t} : conn'[u] = conn[u]
    BY <1>6 DEF StopStep, StopNothing, StopBegins, StopDone, StopTimeout, KillTimeout, AfterStop, EndOp,
       WorkStep, DeployMarks, DeployApplied, MutationEnds, SupTypeInv, LocalTypes
  <2>4. \A u \in Callers \ {t} : SameHand(u)
    BY <2>1, <2>2, <2>3, EndOpHands, GotoHands
  <2> QED
    BY <2>1, <2>4, EmptyHandMoves
<1> QED
  BY <1>1, <1>2, <1>3, <1>4, <1>5, <1>6

-----------------------------------------------------------------------------
\* A dial leaves what the others hold as it is and puts h into the hand of t.
LEMMA DialHolds ==
    ASSUME SupTypeInv, NEW t \in Callers, NEW i, NEW h, NEW label \in BindPCs, Dial(t, i, h, label),
           \A u \in Callers \ {t} : target'[u] = target[u],
           UNCHANGED <<session, want>>
    PROVE  /\ pc'[t] = label
           /\ HoldsHost(t, h)'
           /\ \A u \in Callers \ {t}, g \in Hosts :
                 pc'[u] = pc[u] /\ (HoldsHost(u, g) => HoldsHost(u, g)')
           /\ \A k \in Instances, g \in Hosts :
                 session[k] \in open /\ connHost[session[k]] = g
                     => session'[k] \in open' /\ connHost'[session'[k]] = g
           /\ ReachKept
<1>1. PICK c \in Conns :
        /\ FreeConn(c)
        /\ connHost' = [connHost EXCEPT ![c] = h]
        /\ open' = open \cup {c}
        /\ conn' = [conn EXCEPT ![t] = c]
  BY DEF Dial
<1>2. /\ \A k \in Instances : session[k] # c
      /\ \A u \in Callers : conn[u] # c
      /\ connHost'[c] = h
      /\ \A d \in Conns \ {c} : connHost'[d] = connHost[d]
      /\ conn'[t] = c
      /\ \A u \in Callers \ {t} : conn'[u] = conn[u]
      /\ open \subseteq Conns
  BY <1>1 DEF FreeConn, SupTypeInv, ConnTypes, LocalTypes
<1>3. /\ pc'[t] = label
      /\ \A u \in Callers \ {t} : pc'[u] = pc[u]
      /\ UNCHANGED <<cpc, chost, listening, alive, inst>>
  BY DEF Dial, Goto, AddClient, fileVars, callerVars, SupTypeInv, LocalTypes
<1>4. HoldsHost(t, h)'
  BY <1>1, <1>2, <1>3 DEF HoldsHost
<1>5. \A u \in Callers \ {t}, g \in Hosts : HoldsHost(u, g) => HoldsHost(u, g)'
  BY <1>1, <1>2, <1>3 DEF HoldsHost
<1>6. \A k \in Instances, g \in Hosts :
        session[k] \in open /\ connHost[session[k]] = g
            => session'[k] \in open' /\ connHost'[session'[k]] = g
  BY <1>1, <1>2
<1> QED
  BY <1>3, <1>4, <1>5, <1>6, ReachSame

LEMMA StartDials ==
    ASSUME SupTypeInv, ReachableIsHeld, NEW t \in Callers, AttachExisting(t) \/ AttachNew(t)
    PROVE  ReachableIsHeld'
<1>1. /\ Dial(t, target[t], want[t], "bind")
      /\ UNCHANGED <<session, want, target, daemon, recover>>
      /\ pc[t] \in {"attach", "attachNew"}
  BY DEF AttachExisting, AttachNew, instVars, bootVars
<1>2. /\ pc'[t] = "bind"
      /\ HoldsHost(t, want[t])'
      /\ \A u \in Callers \ {t}, g \in Hosts :
            pc'[u] = pc[u] /\ (HoldsHost(u, g) => HoldsHost(u, g)')
      /\ \A k \in Instances, g \in Hosts :
            session[k] \in open /\ connHost[session[k]] = g
                => session'[k] \in open' /\ connHost'[session'[k]] = g
      /\ ReachKept
  BY <1>1, DialHolds DEF BindPCs
<1> SUFFICES ASSUME daemon' = "up", NEW i \in Instances, NEW h \in Reachable(i)'
             PROVE  Held(i, h)'
  BY DEF ReachableIsHeld
<1>3. Held(i, h) /\ h \in Hosts
  BY <1>1, <1>2 DEF ReachKept, ReachableIsHeld, Reachable, Running, SupTypeInv, TypeInv, SessTypeOK
<1>4. HoldsHost(t, h) => h = want[t]
  BY <1>1 DEF HoldsHost, BindPCs
<1>5. ASSUME NEW u \in Callers, target[u] = i, HoldsHost(u, h)
      PROVE  target'[u] = i /\ HoldsHost(u, h)'
  BY <1>1, <1>2, <1>3, <1>4, <1>5
<1>6. pc[Main] \in RecoverPCs => pc'[Main] = pc[Main]
  BY <1>1, <1>2, <1>3, SupervisorConstants DEF RecoverPCs
<1> QED
  BY <1>1, <1>2, <1>3, <1>5, <1>6 DEF Held, RecoverPCs

\* The bind makes the connection in hand the session; the instance had no open
\* one.
LEMMA BindHolds ==
    ASSUME SupTypeInv, ReachableIsHeld, NEW t \in Callers, target[t] \in Instances,
           session[target[t]] \notin open, pc[t] \in BindPCs,
           BindSession(t, target[t]),
           \A u \in Callers \ {t} : SameHand(u),
           UNCHANGED <<listening, alive, inst, recover, daemon>>,
           pc[t] = "recoverBind" => t = Main /\ pc'[Main] = "recoverNext",
           t = Main => pc[t] \in {"bind", "recoverBind"}
    PROVE  ReachableIsHeld'
<1> SUFFICES ASSUME daemon' = "up", NEW i \in Instances, NEW h \in Reachable(i)'
             PROVE  Held(i, h)'
  BY DEF ReachableIsHeld
<1>1. Held(i, h)
  BY ReachSame DEF ReachKept, ReachableIsHeld
<1>2. /\ session'[target[t]] = conn[t]
      /\ \A k \in Instances \ {target[t]} : session'[k] = session[k]
      /\ UNCHANGED <<open, connHost>>
  BY DEF BindSession, SupTypeInv, InstTypes
<1>3. CASE session[i] \in open /\ connHost[session[i]] = h
  BY <1>2, <1>3 DEF Held
<1>4. ASSUME NEW u \in Callers, target[u] = i, HoldsHost(u, h)
      PROVE  Held(i, h)'
  <2>1. CASE u = t
    <3>1. conn[t] \in open /\ connHost[conn[t]] = h
      BY <1>4, <2>1 DEF HoldsHost, BindPCs
    <3> QED
      BY <1>2, <1>4, <2>1, <3>1 DEF Held
  <2>2. CASE u # t
    <3>1. target'[u] = i /\ HoldsHost(u, h)'
      BY <1>2, <1>4, <2>2 DEF SameHand, HoldsHost
    <3> QED
      BY <3>1 DEF Held
  <2> QED
    BY <2>1, <2>2
<1>5. CASE pc[Main] = "recoverList" \/ (pc[Main] \in {"recoverNext", "recoverBind"} /\ h \in recover)
  BY <1>5, SupervisorConstants DEF Held, SameHand, BindPCs
<1> QED
  BY <1>1, <1>3, <1>4, <1>5 DEF Held

LEMMA RecoverHolds ==
    ASSUME SupTypeInv, ListenersServe, ReachableIsHeld, NEW h \in Hosts, RecoverAttach(h)
    PROVE  ReachableIsHeld'
<1>m. Main \in Callers
  BY SupervisorConstants
<1>1. /\ pc[Main] = "recoverNext" /\ recover' = recover \ {h}
      /\ UNCHANGED <<session, want, daemon>>
  BY DEF RecoverAttach, instVars
<1>2. ASSUME NEW i \in Instances, NEW g \in Reachable(i)
      PROVE  g \in Hosts /\ inst[g] = i /\ CanAttach(i, g)
  <2>1. g \in Hosts /\ inst[g] = i /\ listening[i] = g /\ g \in alive
    BY <1>2 DEF Reachable, Running, SupTypeInv, TypeInv, SessTypeOK
  <2>2. phase[g] = "serving"
    BY <2>1 DEF ListenersServe
  <2> QED
    BY <2>1, <2>2 DEF CanAttach
<1>3. CASE CanAttach(inst[h], h)
  <2>1. /\ Dial(Main, inst[h], h, "recoverBind")
        /\ target'[Main] = inst[h]
        /\ \A u \in Callers \ {Main} : target'[u] = target[u]
    BY <1>3, <1>m DEF RecoverAttach, SupTypeInv, LocalTypes
  <2>2. /\ pc'[Main] = "recoverBind"
        /\ HoldsHost(Main, h)'
        /\ \A u \in Callers \ {Main}, g \in Hosts :
              pc'[u] = pc[u] /\ (HoldsHost(u, g) => HoldsHost(u, g)')
        /\ \A k \in Instances, g \in Hosts :
              session[k] \in open /\ connHost[session[k]] = g
                  => session'[k] \in open' /\ connHost'[session'[k]] = g
        /\ ReachKept
    BY <1>1, <1>m, <2>1, DialHolds DEF BindPCs
  <2> SUFFICES ASSUME daemon' = "up", NEW i \in Instances, NEW g \in Reachable(i)'
               PROVE  Held(i, g)'
    BY DEF ReachableIsHeld
  <2>3. Held(i, g) /\ g \in Hosts /\ inst[g] = i
    BY <1>1, <1>2, <2>2 DEF ReachKept, ReachableIsHeld
  <2>4. ~HoldsHost(Main, g)
    BY <1>1 DEF HoldsHost, BindPCs
  <2>5. ASSUME NEW u \in Callers, target[u] = i, HoldsHost(u, g)
        PROVE  target'[u] = i /\ HoldsHost(u, g)'
    BY <2>1, <2>2, <2>3, <2>4, <2>5
  <2>6. g = h => target'[Main] = i /\ HoldsHost(Main, g)'
    BY <2>1, <2>2, <2>3
  <2> QED
    BY <1>1, <1>m, <2>2, <2>3, <2>5, <2>6 DEF Held
<1>4. CASE ~CanAttach(inst[h], h)
  <2>1. /\ UNCHANGED <<sessVars, connVars, pc, conn, target>>
    BY <1>4 DEF RecoverAttach
  <2> SUFFICES ASSUME daemon' = "up", NEW i \in Instances, NEW g \in Reachable(i)'
               PROVE  Held(i, g)'
    BY DEF ReachableIsHeld
  <2>2. Held(i, g) /\ g # h
    BY <1>1, <1>2, <1>4, <2>1, ReachSame DEF ReachKept, ReachableIsHeld, sessVars, fileVars, hostVars
  <2> QED
    BY <1>1, <2>1, <2>2 DEF Held, HoldsHost, sessVars, callerVars, connVars
<1> QED
  BY <1>3, <1>4

\* RecoverSessions gets every process sessiond has, when the list does not fail.
LEMMA RecoverLists ==
    ASSUME QuietBoot, MaxLoss = 0, SupTypeInv, OpInv, StartIsAwaited, SerialInv, ListenersServe, RecoverList
    PROVE  ReachableIsHeld'
<1>1. /\ pc[Main] = "recoverList" /\ pc'[Main] = "recoverNext"
      /\ recover' = {h \in Hosts : \E i \in Instances : sessions[i] = h}
      /\ UNCHANGED <<sessVars, daemon>>
  BY SupervisorConstants DEF RecoverList, Goto, SupTypeInv, LocalTypes, BootTypes
<1> SUFFICES ASSUME daemon' = "up", NEW i \in Instances, NEW h \in Reachable(i)'
             PROVE  h \in recover'
  BY <1>1 DEF ReachableIsHeld, Held
<1>2. h \in Hosts /\ h \in alive /\ inst[h] = i /\ listening[i] = h
  BY <1>1 DEF Reachable, Running, SupTypeInv, TypeInv, SessTypeOK, sessVars, hostVars, fileVars
<1>3. h \in Owned
  BY <1>2 DEF ListenersServe, Owned
<1>4. NoLostProcess
  BY SerialConsequences DEF SupTypeInv
<1>5. ASSUME NEW c \in Callers, cpc[c] = "insert"
      PROVE  FALSE
  <2>1. pc[c] = "await"
    BY <1>1, <1>5 DEF StartIsAwaited, InStart
  <2> QED
    BY <1>1, <2>1, SupervisorConstants DEF OpInv, QuietRecovery, RecoverPCs
<1>6. sessions[i] = h
  BY <1>2, <1>3, <1>4, <1>5 DEF NoLostProcess
<1> QED
  BY <1>1, <1>2, <1>6

\* A connection is closed: because its process is gone.
LEMMA ExitHolds ==
    ASSUME SupTypeInv, ListenersServe, ReachableIsHeld, NEW c \in Conns, ConsumeExit(c)
    PROVE  ReachableIsHeld'
<1>1. /\ UNCHANGED <<listening, alive, inst, session, connHost, recover, daemon, pc, target, conn, want,
                     cpc, chost>>
      /\ open' = open \ {c} /\ phase[connHost[c]] # "serving"
  BY DEF ConsumeExit, CloseConn, RemoveClient, instVars, localVars, bootVars, sessVars, fileVars, hostVars,
     callerVars
<1> SUFFICES ASSUME daemon' = "up", NEW i \in Instances, NEW h \in Reachable(i)'
             PROVE  Held(i, h)'
  BY DEF ReachableIsHeld
<1>2. h \in Reachable(i) /\ Held(i, h)
  BY <1>1, ReachSame DEF ReachKept, ReachableIsHeld
<1>3. phase[h] = "serving"
  BY <1>2 DEF Reachable, Running, ListenersServe
<1>4. \A u \in Callers : HoldsHost(u, h) => HoldsHost(u, h)'
  BY <1>1, <1>3 DEF HoldsHost
<1> QED
  BY <1>1, <1>2, <1>3, <1>4 DEF Held

LEMMA WaitHolds ==
    ASSUME SupTypeInv, OpenNotDone, ReachableIsHeld, NEW c \in Conns, WaitSession(c)
    PROVE  ReachableIsHeld'
<1>1. /\ UNCHANGED <<listening, alive, inst, open, connHost, recover, daemon, pc, target, conn, want,
                     cpc, chost>>
      /\ c \in done
  BY DEF WaitSession, localVars, bootVars, sessVars, fileVars, hostVars, callerVars
<1>2. \A i \in Instances : session'[i] = session[i] \/ session[i] = c
  BY DEF WaitSession, SupTypeInv, InstTypes
<1> SUFFICES ASSUME daemon' = "up", NEW i \in Instances, NEW h \in Reachable(i)'
             PROVE  Held(i, h)'
  BY DEF ReachableIsHeld
<1>3. Held(i, h)
  BY <1>1, ReachSame DEF ReachKept, ReachableIsHeld
<1>4. session[i] \in open => session'[i] = session[i]
  BY <1>1, <1>2 DEF OpenNotDone
<1> QED
  BY <1>1, <1>3, <1>4 DEF Held, HoldsHost

\* prism-sessiond's handlers: the goroutine that asked waits for the reply.
LEMMA SessiondHolds ==
    ASSUME SupTypeInv, StartIsAwaited, ReachableIsHeld, SessiondStep
    PROVE  ReachableIsHeld'
<1> USE DEF fileVars, hostVars, callerVars
<1>t. SessTypeOK
  BY DEF SupTypeInv, TypeInv
<1>u. UNCHANGED <<session, open, connHost, recover, daemon, pc, target, conn, want>>
  BY DEF SessiondStep, instVars, connVars, localVars, bootVars
<1>h. \A i \in Instances : Reachable(i) \subseteq Hosts
  BY <1>t DEF Reachable, Running, SessTypeOK
<1>1. ASSUME NEW t \in Callers, SpawnFresh(t)
      PROVE  ReachableIsHeld'
  <2>1. Spawned(t)
    BY <1>1, SpawnReaches DEF SpawnFresh
  <2> SUFFICES ASSUME daemon' = "up", NEW i \in Instances, NEW h \in Reachable(i)'
               PROVE  Held(i, h)'
    BY DEF ReachableIsHeld
  <2>2. pc[t] = "await" /\ cinst[t] = target[t]
    BY <1>u, <2>1 DEF Spawned, StartIsAwaited, InStart
  <2>3. CASE i = cinst[t]
    <3>1. h = chost'[t] /\ cpc'[t] = "insert"
      BY <2>1, <2>3 DEF Spawned
    <3>2. HoldsHost(t, h)'
      BY <1>u, <2>2, <3>1 DEF HoldsHost
    <3> QED
      BY <1>u, <2>2, <2>3, <3>2 DEF Held
  <2>4. CASE i # cinst[t]
    <3>1. Held(i, h)
      BY <1>u, <2>1, <2>4 DEF Spawned, ReachableIsHeld
    <3>2. ASSUME NEW u \in Callers, target[u] = i, HoldsHost(u, h)
          PROVE  HoldsHost(u, h)'
      BY <1>u, <2>1, <2>2, <2>4, <3>2 DEF Spawned, HoldsHost
    <3> QED
      BY <1>u, <3>1, <3>2 DEF Held
  <2> QED
    BY <2>3, <2>4
<1>2. ASSUME NEW t \in Callers, SpawnFails(t) \/ Insert(t) \/ DropReply(t)
      PROVE  ReachableIsHeld'
  <2>1. UNCHANGED <<listening, alive, inst>>
    BY <1>2 DEF SpawnFails, Insert, DropReply, Reply
  <2>2. \A u \in Callers \ {t} : SameHand(u)
    BY <1>t, <1>u, <1>2 DEF SpawnFails, Insert, DropReply, Reply, SameHand, SessTypeOK
  <2>3. \A h \in Hosts : HoldsHost(t, h) => HoldsHost(t, h)'
    <3>1. pc[t] = "await" /\ cpc[t] \in {"insert", "replied"}
             => cpc'[t] \in {"insert", "replied"} /\ chost'[t] = chost[t]
      BY <1>t, <1>2 DEF SpawnFails, Insert, DropReply, SessTypeOK
    <3> QED
      BY <1>u, <3>1 DEF HoldsHost
  <2> QED
    BY <1>h, <1>u, <2>1, <2>2, <2>3, ReachSame, HandMoves
<1>3. ASSUME NEW h \in Hosts, HostStep(h) \/ Exit(h) \/ OrphanKill(h)
      PROVE  ReachableIsHeld'
  <2>1. UNCHANGED <<cpc, chost>> /\ ~\E t \in Callers : Spawned(t)
    BY <1>3 DEF HostStep, Finish, FinishDone, Watch, Cleanup, Exit, OrphanKill, KillHost, Spawned
  <2>2. ReachKept
    BY <2>1, SessiondReaches
  <2>3. \A u \in Callers : SameHand(u)
    BY <1>u, <2>1 DEF SameHand
  <2> QED
    BY <1>u, <2>2, <2>3, HandFrame
<1>4. ASSUME NEW h \in Hosts, SubscribesLate(h) \/ StdinBlocks(h) \/ StdinUnblocks(h)
      PROVE  ReachableIsHeld'
  <2>1. UNCHANGED <<listening, alive, inst, cpc, chost>>
    BY <1>4, StickingFrame DEF SubscribesLate, Sticking
  <2>2. \A u \in Callers : SameHand(u)
    BY <1>u, <2>1 DEF SameHand
  <2> QED
    BY <1>u, <2>1, <2>2, ReachSame, HandFrame
<1>5. CASE ServiceCrash
  <2>1. /\ \A i \in Instances : listening'[i] = NoHost
        /\ alive' \subseteq Hosts /\ NoHost \notin Hosts
    BY <1>t, <1>5, SessionConstants DEF ServiceCrash, SessTypeOK
  <2> QED
    BY <2>1 DEF ReachableIsHeld, Reachable, Running
<1> QED
  BY <1>1, <1>2, <1>3, <1>4, <1>5 DEF SessiondStep

\* Every step keeps hold of the reachable processes.
LEMMA HeldStep ==
    ASSUME QuietBoot, MaxLoss = 0, SupTypeInv, OpInv, ConnInv, ConsumerInv, StartIsAwaited, SerialInv,
           ListenersServe, ReachableIsHeld, [Next]_vars
    PROVE  ReachableIsHeld'
<1> USE DEF instVars, connVars, localVars, bootVars, fileVars, hostVars, callerVars, sessVars
<1>m. Main \in Callers
  BY SupervisorConstants
<1>a. ASSUME NEW t \in Callers, NEW i \in Instances, NEW j \in AllJobs,
             \/ BeginLifecycle(t, i, j) \/ BeginMutation(t, i, j) \/ BeginDeploy(t, i)
             \/ AutoRestartFires(t, i)
      PROVE  ReachableIsHeld'
  <2>1. /\ UNCHANGED <<listening, alive, inst, session, open, connHost, recover, daemon, cpc, chost, conn,
                       want>>
        /\ pc[t] = "idle"
    BY <1>a DEF BeginLifecycle, BeginMutation, BeginDeploy, AutoRestartFires, Idle
  <2>2. \A u \in Callers \ {t} : SameHand(u)
    BY <1>a, <2>1, AcquireHands DEF BeginLifecycle, BeginMutation, BeginDeploy, AutoRestartFires, SameHand
  <2> QED
    BY <2>1, <2>2, EmptyHandMoves DEF RecoverPCs, BindPCs
<1>1. CASE Begin
  BY ONLY <1>a, <1>1 DEF Begin, AllJobs
<1>2. CASE \E t \in Callers, i \in Instances : AutoRestartFires(t, i)
  BY ONLY <1>a, <1>2 DEF AllJobs
<1>3. CASE \/ \E targets \in SUBSET Instances \ {{}} : ReserveDeployment(targets)
           \/ \E i \in Instances : ReleaseDeployment(i)
           \/ \E i \in Instances : RestartWindow(i)
           \/ UNCHANGED vars
  <2>1. UNCHANGED <<listening, alive, inst, session, open, connHost, recover, daemon, pc, target, conn, want,
                    cpc, chost>>
    BY <1>3 DEF ReserveDeployment, ReleaseDeployment, RestartWindow, vars
  <2> QED
    BY <2>1, ReachSame, HandFrame DEF SameHand
<1>4. ASSUME NEW t \in Callers, StartBinds(t)
      PROVE  ReachableIsHeld'
  <2>1. /\ pc[t] = "bind" /\ target[t] \in Instances /\ BindSession(t, target[t]) /\ EndOp(t)
        /\ UNCHANGED <<listening, alive, inst, recover, daemon, cpc, chost>>
    BY <1>4 DEF StartBinds, SupTypeInv, HoldsInstance, HoldPCs, StartPCs
  <2>2. session[target[t]] \notin open
    BY <2>1 DEF ConsumerInv, ReadyIsClosed, ReadyPCs, StartedPCs, StartPCs
  <2>3. \A u \in Callers \ {t} : SameHand(u)
    BY <2>1, EndOpHands
  <2> QED
    BY <2>1, <2>2, <2>3, BindHolds DEF BindPCs
<1>5. ASSUME NEW t \in Callers, StartStep(t) \/ StopStep(t) \/ WorkStep(t)
      PROVE  ReachableIsHeld'
  BY ONLY <1>4, <1>5, SupTypeInv, ListenersServe, ReachableIsHeld, OperationHands, StartDials
     DEF StartStep
<1>6. ASSUME NEW c \in Conns, ConsumeExit(c) \/ LoseLink(c) \/ WaitSession(c)
      PROVE  ReachableIsHeld'
  <2>1. ~LoseLink(c)
    BY DEF LoseLink, SupTypeInv, BootTypes
  <2> QED
    BY <1>6, <2>1, ExitHolds, WaitHolds DEF ConsumerInv
<1>7. CASE Boot
  BY <1>7, <1>m DEF Boot, Goto, ReachableIsHeld, Held, SupTypeInv, LocalTypes
<1>8. CASE BeginShutdown \/ DaemonExit \/ \E i \in Instances : DetachSession(i)
  BY <1>8 DEF BeginShutdown, DaemonExit, DetachSession, ReachableIsHeld
<1>9. CASE RecoverBind
  <2>1. /\ pc[Main] = "recoverBind" /\ pc'[Main] = "recoverNext" /\ BindSession(Main, target[Main])
        /\ UNCHANGED <<listening, alive, inst, recover, daemon>>
        /\ \A u \in Callers \ {Main} : SameHand(u)
    BY <1>9, <1>m DEF RecoverBind, Goto, SameHand, SupTypeInv, LocalTypes
  <2>2. target[Main] \in Instances /\ session[target[Main]] = NoConn /\ NoConn \notin open
    BY <2>1, SupervisorConstants DEF ConsumerInv, RecoverFree, SupTypeInv, ConnTypes
  <2> QED
    BY <1>m, <2>1, <2>2, BindHolds DEF BindPCs
<1>10. CASE RecoverDone
  <2>1. /\ UNCHANGED <<listening, alive, inst, session, open, connHost, recover, daemon, target, conn, want,
                       cpc, chost>>
        /\ pc[Main] = "recoverNext" /\ recover = {}
        /\ \A u \in Callers \ {Main} : pc'[u] = pc[u]
    BY <1>10 DEF RecoverDone, Goto, SupTypeInv, LocalTypes
  <2> SUFFICES ASSUME daemon' = "up", NEW i \in Instances, NEW h \in Reachable(i)'
               PROVE  Held(i, h)'
    BY DEF ReachableIsHeld
  <2>2. Held(i, h)
    BY <2>1, ReachSame DEF ReachKept, ReachableIsHeld
  <2>3. ASSUME NEW u \in Callers, HoldsHost(u, h)
        PROVE  HoldsHost(u, h)'
    <3>1. u # Main
      BY <2>1, <2>3 DEF HoldsHost, BindPCs
    <3> QED
      BY <2>1, <2>3, <3>1 DEF HoldsHost
  <2> QED
    BY <2>1, <2>2, <2>3 DEF Held
<1>11. CASE BootDone \/ \E i \in Instances : StartAutoNext(i)
  <2>1. /\ UNCHANGED <<listening, alive, inst, session, open, connHost, recover, daemon, cpc, chost, conn,
                       want>>
        /\ pc[Main] = "autostart"
    BY <1>11 DEF BootDone, StartAutoNext
  <2>2. \A u \in Callers \ {Main} : SameHand(u)
    BY <1>11, <1>m, <2>1, AcquireHands, GotoHands DEF BootDone, StartAutoNext, SameHand
  <2> QED
    BY <1>m, <2>1, <2>2, EmptyHandMoves DEF RecoverPCs, BindPCs
<1>12. CASE BootStep
  BY ONLY <1>9, <1>10, <1>11, <1>12, QuietBoot, MaxLoss = 0, SupTypeInv, OpInv, StartIsAwaited, SerialInv,
     ListenersServe, ReachableIsHeld, RecoverHolds, RecoverLists DEF BootStep
<1>13. CASE SessiondStep
  BY ONLY <1>13, SupTypeInv, StartIsAwaited, ReachableIsHeld, SessiondHolds
<1> QED
  BY ONLY [Next]_vars, <1>1, <1>2, <1>3, <1>5, <1>6, <1>7, <1>8, <1>12, <1>13 DEF Next

-----------------------------------------------------------------------------
\* Nobody begins to mutate.
MutatingKept ==
    \A u \in Callers : pc'[u] = "mutating" =>
        pc[u] = "mutating" /\ job'[u] = job[u] /\ target'[u] = target[u]

LEMMA MutatingSteps ==
    ASSUME SupTypeInv, [Next]_vars
    PROVE  \/ MutatingKept
           \/ \E t \in Callers, i \in Instances, j \in AllJobs : BeginMutation(t, i, j)
<1> USE DEF instVars, connVars, localVars, bootVars
<1>m. Main \in Callers
  BY SupervisorConstants
<1>e. ASSUME NEW t \in Callers, EndOp(t)
      PROVE  MutatingKept
  <2>1. pc'[t] \in {"idle", "autostart"}
        /\ \A u \in Callers \ {t} : pc'[u] = pc[u] /\ job'[u] = job[u] /\ target'[u] = target[u]
    BY <1>e DEF EndOp, SupTypeInv, LocalTypes
  <2> QED
    BY <2>1 DEF MutatingKept
<1>g. ASSUME NEW t \in Callers, NEW label, label # "mutating", Goto(t, label),
             \A u \in Callers \ {t} : job'[u] = job[u] /\ target'[u] = target[u]
      PROVE  MutatingKept
  <2>1. pc'[t] = label /\ \A u \in Callers \ {t} : pc'[u] = pc[u]
    BY <1>g DEF Goto, SupTypeInv, LocalTypes
  <2> QED
    BY <1>g, <2>1 DEF MutatingKept
<1>a. ASSUME NEW t \in Callers, NEW i \in Instances, NEW j, NEW label, label # "mutating",
             Acquire(t, i, j, label)
      PROVE  MutatingKept
  <2>1. Goto(t, label) /\ \A u \in Callers \ {t} : job'[u] = job[u] /\ target'[u] = target[u]
    BY <1>a DEF Acquire, SupTypeInv, LocalTypes
  <2> QED
    BY <1>a, <2>1, <1>g
<1>u. UNCHANGED <<pc, job, target>> => MutatingKept
  BY DEF MutatingKept
<1>1. ASSUME NEW t \in Callers, NEW i \in Instances, NEW j \in AllJobs,
             BeginLifecycle(t, i, j) \/ BeginDeploy(t, i) \/ AutoRestartFires(t, i)
      PROVE  MutatingKept
  BY <1>1, <1>a, <1>u DEF BeginLifecycle, BeginDeploy, AutoRestartFires
<1>2. CASE \/ \E targets \in SUBSET Instances \ {{}} : ReserveDeployment(targets)
           \/ \E i \in Instances : ReleaseDeployment(i)
           \/ \E c \in Conns : ConsumeExit(c)
           \/ \E c \in Conns : LoseLink(c)
           \/ \E c \in Conns : WaitSession(c)
           \/ \E i \in Instances : RestartWindow(i)
           \/ BeginShutdown \/ SessiondStep \/ UNCHANGED vars
           \/ \E i \in Instances : DetachSession(i)
  BY <1>2, <1>u DEF ReserveDeployment, ReleaseDeployment, ConsumeExit, LoseLink, WaitSession,
     RestartWindow, BeginShutdown, SessiondStep, vars, DetachSession
<1>3. ASSUME NEW t \in Callers, StartStep(t)
      PROVE  MutatingKept
  <2>1. EndOp(t) \/ \E label \in StartPCs : Goto(t, label) /\ UNCHANGED <<job, target>>
    BY <1>3 DEF StartStep, StartCheck, HookDone, StartFails, FailStart, Inspect, AttachExisting, Dial,
       AttachExistingFails, CreateSession, SessionCreated, SessionNotCreated, AttachNew, AttachNewFails,
       StartBinds, StartPCs
  <2> QED
    BY <1>e, <1>g, <2>1 DEF StartPCs
<1>4. ASSUME NEW t \in Callers, StopStep(t) \/ WorkStep(t)
      PROVE  MutatingKept
  <2>1. \/ EndOp(t)
        \/ \E label \in {"start", "deploy", "waitStop", "killWait", "applying"} :
              Goto(t, label) /\ UNCHANGED <<job, target>>
    BY <1>4 DEF StopStep, StopNothing, StopBegins, StopDone, StopTimeout, KillTimeout, AfterStop,
       WorkStep, DeployMarks, DeployApplied, MutationEnds
  <2> QED
    BY <1>e, <1>g, <2>1
<1>5. CASE Boot \/ RecoverList \/ RecoverDone \/ BootDone
  BY <1>5, <1>g, <1>m DEF Boot, RecoverList, RecoverDone, BootDone
<1>6. ASSUME NEW h \in Hosts, RecoverAttach(h)
      PROVE  MutatingKept
  <2>1. \A u \in Callers \ {Main} : job'[u] = job[u] /\ target'[u] = target[u]
    BY <1>6 DEF RecoverAttach, SupTypeInv, LocalTypes
  <2>2. Goto(Main, "recoverBind") \/ UNCHANGED <<pc, job, target>>
    BY <1>6 DEF RecoverAttach, Dial
  <2> QED
    BY <1>g, <1>m, <1>u, <2>1, <2>2
<1>7. CASE RecoverBind
  <2>1. \A u \in Callers \ {Main} : job'[u] = job[u] /\ target'[u] = target[u]
    BY <1>7 DEF RecoverBind, SupTypeInv, LocalTypes
  <2> QED
    BY <1>7, <1>g, <1>m, <2>1 DEF RecoverBind
<1>8. ASSUME NEW i \in Instances, StartAutoNext(i)
      PROVE  MutatingKept
  BY <1>8, <1>a, <1>m, <1>u DEF StartAutoNext
<1>9. CASE DaemonExit
  BY <1>9 DEF DaemonExit, MutatingKept
<1>10. CASE Begin
  BY ONLY <1>1, <1>10 DEF Begin, AllJobs
<1>11. CASE \E t \in Callers, i \in Instances : AutoRestartFires(t, i)
  BY ONLY <1>1, <1>11 DEF AllJobs
<1>12. CASE BootStep
  BY ONLY <1>5, <1>6, <1>7, <1>8, <1>12 DEF BootStep
<1> QED
  BY ONLY [Next]_vars, <1>2, <1>3, <1>4, <1>5, <1>9, <1>10, <1>11, <1>12 DEF Next

LEMMA MutatesStep ==
    ASSUME QuietBoot, SupTypeInv, OpInv, ConnInv, ConsumerInv, MutatesClosed, [Next]_vars
    PROVE  MutatesClosed'
<1> USE DEF instVars, connVars, localVars, bootVars
<1>m. Main \in Callers /\ NoConn \notin Conns /\ open \subseteq Conns
  BY SupervisorConstants DEF SupTypeInv, ConnTypes
<1>1. ASSUME NEW t \in Callers, NEW i \in Instances, NEW j \in AllJobs, BeginMutation(t, i, j)
      PROVE  MutatesClosed'
  <2>1. /\ pc'[t] = "mutating" /\ job'[t] = j /\ target'[t] = i
        /\ \A u \in Callers \ {t} : pc'[u] = pc[u] /\ job'[u] = job[u] /\ target'[u] = target[u]
        /\ UNCHANGED <<session, open>>
        /\ j = "mutateStopped" => state[i] \in {"stopped", "failed"}
    BY <1>1 DEF BeginMutation, Acquire, Goto, SupTypeInv, LocalTypes
  <2>2. j = "mutateStopped" => session[i] \notin open
    BY <2>1 DEF ConsumerInv, RestIsClosed, Rest
  <2> QED
    BY <2>1, <2>2 DEF MutatesClosed
<1>2. ASSUME MutatingKept
      PROVE  MutatesClosed'
  <2> SUFFICES ASSUME NEW u \in Callers, pc[u] = "mutating", pc'[u] = "mutating",
                      target'[u] = target[u], session[target[u]] \notin open
               PROVE  session'[target[u]] \notin open'
    BY <1>2 DEF MutatingKept, MutatesClosed
  <2>h. pc[u] \in HoldPCs /\ target[u] \in Instances
    BY DEF HoldPCs, WorkPCs, SupTypeInv, HoldsInstance
  <2>1. CASE Plain
    BY <2>1 DEF Plain
  <2>2. ASSUME NEW t \in Callers, AttachExisting(t) \/ AttachNew(t)
        PROVE  session'[target[u]] \notin open'
    <3>1. \E c \in Conns : FreeConn(c) /\ open' = open \cup {c}
      BY <2>2 DEF AttachExisting, AttachNew, Dial
    <3> QED
      BY <2>h, <2>2, <3>1 DEF AttachExisting, AttachNew, FreeConn
  <2>3. ASSUME NEW t \in Callers, StartBinds(t)
        PROVE  session'[target[u]] \notin open'
    <3>1. pc[t] = "bind" /\ pc[t] \in HoldPCs /\ u # t
      BY <2>3 DEF StartBinds, HoldPCs, StartPCs
    <3>2. target[u] # target[t]
      BY <2>h, <3>1, OthersElsewhere
    <3> QED
      BY <2>h, <2>3, <3>2 DEF StartBinds, BindSession, SupTypeInv, InstTypes
  <2>4. CASE RecoverBind \/ \E h \in Hosts : RecoverAttach(h)
    <3>1. pc[Main] \in RecoverPCs
      BY <2>4 DEF RecoverBind, RecoverAttach, RecoverPCs
    <3>2. u # Main
      BY <3>1 DEF RecoverPCs
    <3> QED
      BY <3>1, <3>2 DEF OpInv, QuietRecovery
  <2>5. ASSUME NEW c \in Conns, ConsumeExit(c) \/ LoseLink(c)
        PROVE  session'[target[u]] \notin open'
    BY <2>5 DEF ConsumeExit, LoseLink, CloseConn
  <2>6. ASSUME NEW c \in Conns, WaitSession(c)
        PROVE  session'[target[u]] \notin open'
    <3>1. session'[target[u]] \in {session[target[u]], NoConn} /\ UNCHANGED open
      BY <2>h, <2>6 DEF WaitSession, SupTypeInv, InstTypes
    <3> QED
      BY <1>m, <3>1
  <2>7. ASSUME NEW i \in Instances, DetachSession(i)
        PROVE  session'[target[u]] \notin open'
    <3>1. session'[target[u]] \in {session[target[u]], NoConn} /\ open' \subseteq open
      BY <2>h, <2>7 DEF DetachSession, CloseConn, SupTypeInv, InstTypes
    <3> QED
      BY <1>m, <3>1
  <2>8. CASE Boot \/ BeginShutdown
    BY <2>8 DEF Boot, BeginShutdown
  <2>9. CASE DaemonExit
    BY <2>9 DEF DaemonExit
  <2> QED
    BY ONLY SupTypeInv, OpInv, [Next]_vars, PlainSteps, <2>1, <2>2, <2>3, <2>4, <2>5, <2>6, <2>7, <2>8, <2>9
<1> QED
  BY <1>1, <1>2, MutatingSteps

\* Only main recovers.
MainRecovers == \A t \in Callers : pc[t] = "recoverBind" => t = Main

LEMMA MainRecoversStep ==
    ASSUME SupTypeInv, OpInv, MainRecovers, [Next]_vars
    PROVE  MainRecovers'
<1> USE DEF instVars, connVars, localVars, bootVars
<1>m. Main \in Callers
  BY SupervisorConstants
<1>g. ASSUME NEW t \in Callers, NEW label, label # "recoverBind" \/ t = Main, Goto(t, label)
      PROVE  MainRecovers'
  BY <1>g DEF MainRecovers, Goto, SupTypeInv, LocalTypes
<1>1. CASE Plain
  BY <1>1 DEF Plain, BindersKept, BindPCs, MainRecovers
<1>2. ASSUME NEW t \in Callers, AttachExisting(t) \/ AttachNew(t)
      PROVE  MainRecovers'
  BY <1>2, <1>g DEF AttachExisting, AttachNew, Dial
<1>3. ASSUME NEW t \in Callers, StartBinds(t)
      PROVE  MainRecovers'
  BY <1>3 DEF StartBinds, EndOp, MainRecovers, SupTypeInv, LocalTypes
<1>4. ASSUME NEW h \in Hosts, RecoverAttach(h)
      PROVE  MainRecovers'
  BY <1>4, <1>g, <1>m DEF RecoverAttach, Dial, MainRecovers
<1>5. CASE RecoverBind \/ Boot
  BY <1>5, <1>g, <1>m DEF RecoverBind, Boot
<1>6. CASE \/ \E c \in Conns : ConsumeExit(c) \/ LoseLink(c) \/ WaitSession(c)
           \/ \E i \in Instances : DetachSession(i)
           \/ BeginShutdown
  BY <1>6 DEF ConsumeExit, LoseLink, WaitSession, DetachSession, BeginShutdown, MainRecovers
<1>7. CASE DaemonExit
  BY <1>7 DEF DaemonExit, MainRecovers
<1> QED
  BY ONLY SupTypeInv, OpInv, [Next]_vars, PlainSteps, <1>1, <1>2, <1>3, <1>4, <1>5, <1>6, <1>7

\* With everything reachable held, what has no open session is quiet.
LEMMA HeldIsQuiet ==
    ASSUME QuietBoot, SupTypeInv, OpInv, ConnInv, ConsumerInv, HeldInv, MainRecovers,
           daemon # "closing"
    PROVE  StoppedIsQuiet
<1>m. Main \in Callers /\ NoConn \notin open
  BY SupervisorConstants DEF SupTypeInv, ConnTypes
<1>h. \A t \in Callers, h \in Hosts : HoldsHost(t, h) => pc[t] \in ReadyPCs \/ pc[t] = "recoverBind"
  BY DEF HoldsHost, BindPCs, ReadyPCs, StartedPCs, StartPCs
<1>r. \A i \in Instances : Reachable(i) \subseteq Hosts
  BY DEF Reachable, Running, SupTypeInv, TypeInv, SessTypeOK
<1>1. QuietWorkspace
  <2> SUFFICES ASSUME NEW t \in Callers,
                      pc[t] = "applying" \/ (pc[t] = "mutating" /\ job[t] = "mutateStopped"),
                      NEW h \in Reachable(target[t])
               PROVE  FALSE
    BY DEF QuietWorkspace
  <2>1. pc[t] \in HoldPCs /\ target[t] \in Instances /\ daemon = "up"
    BY DEF HoldPCs, WorkPCs, SupTypeInv, HoldsInstance, BootTypes, OpInv, DownIsIdle
  <2>2. session[target[t]] \notin open
    BY DEF ConsumerInv, ReadyIsClosed, ReadyPCs, StartedPCs, HeldInv, MutatesClosed
  <2>3. pc[Main] \notin RecoverPCs
    BY <1>m, <2>1 DEF OpInv, QuietRecovery, HoldPCs, StartPCs, StopPCs, WorkPCs, RecoverPCs
  <2>4. Held(target[t], h) /\ h \in Hosts
    BY <1>r, <2>1 DEF HeldInv, ReachableIsHeld
  <2>5. PICK u \in Callers : target[u] = target[t] /\ HoldsHost(u, h)
    BY <2>2, <2>3, <2>4 DEF Held, RecoverPCs
  <2>6. u # t
    BY <2>5 DEF HoldsHost, BindPCs
  <2>7. pc[u] # "recoverBind"
    BY <2>3 DEF MainRecovers, RecoverPCs
  <2>8. pc[u] \in HoldPCs
    BY <1>h, <2>4, <2>5, <2>7 DEF ReadyPCs, StartedPCs, HoldPCs, WorkPCs
  <2> QED
    BY <2>1, <2>5, <2>6, <2>8, OthersElsewhere
<1>2. StoppedIsStopped
  <2> SUFFICES ASSUME NEW i \in Instances, daemon = "up", pc[Main] \notin BootPCs, op[i] = Free,
                      state[i] = "stopped", NEW h \in Reachable(i)
               PROVE  FALSE
    BY DEF StoppedIsStopped
  <2>1. session[i] \notin open
    BY DEF ConsumerInv, RestIsClosed, Rest
  <2>2. Held(i, h) /\ h \in Hosts
    BY <1>r DEF HeldInv, ReachableIsHeld
  <2>3. PICK u \in Callers : target[u] = i /\ HoldsHost(u, h)
    BY <2>1, <2>2 DEF Held, BootPCs, RecoverPCs
  <2>4. pc[u] \in HoldPCs
    BY <1>h, <2>2, <2>3 DEF ReadyPCs, StartedPCs, HoldPCs, WorkPCs, MainRecovers, BootPCs, RecoverPCs
  <2> QED
    BY <2>3, <2>4, SupervisorConstants DEF OpInv, LockDiscipline
<1> QED
  BY <1>1, <1>2 DEF StoppedIsQuiet

\* Who changes the life of the daemon.
LEMMA DaemonMoves ==
    ASSUME SupTypeInv, OpInv, [Next]_vars
    PROVE  UNCHANGED daemon \/ Boot \/ BeginShutdown \/ DaemonExit
<1> USE DEF instVars, connVars, localVars, bootVars
<1>1. Plain => UNCHANGED daemon
  BY DEF Plain
<1>2. ASSUME NEW t \in Callers, AttachExisting(t) \/ AttachNew(t) \/ StartBinds(t)
      PROVE  UNCHANGED daemon
  BY <1>2 DEF AttachExisting, AttachNew, StartBinds
<1>3. ASSUME NEW h \in Hosts, RecoverAttach(h)
      PROVE  UNCHANGED daemon
  BY <1>3 DEF RecoverAttach
<1>4. ASSUME NEW c \in Conns, ConsumeExit(c) \/ LoseLink(c) \/ WaitSession(c)
      PROVE  UNCHANGED daemon
  BY <1>4 DEF ConsumeExit, LoseLink, WaitSession
<1>5. RecoverBind \/ (\E i \in Instances : DetachSession(i)) => UNCHANGED daemon
  BY DEF RecoverBind, DetachSession
<1> QED
  BY ONLY SupTypeInv, OpInv, [Next]_vars, PlainSteps, <1>1, <1>2, <1>3, <1>4, <1>5

LEMMA QuietInvariant ==
    ASSUME QuietBoot, SlowBoot, MaxLoss = 0
    PROVE  Spec => [](daemon # "closing" => StoppedIsQuiet)
<1>1. Init => HeldInv /\ MainRecovers
  BY SessionConstants
     DEF Init, SessInit, HeldInv, ListenersServe, ReachableIsHeld, MutatesClosed, MainRecovers
<1>2. SupTypeInv /\ OpInv /\ ConnInv /\ ConsumerInv /\ StartIsAwaited /\ SerialInv /\ HeldInv
         /\ MainRecovers /\ [Next]_vars => HeldInv' /\ MainRecovers'
  <2> SUFFICES ASSUME SupTypeInv, OpInv, ConnInv, ConsumerInv, StartIsAwaited, SerialInv, HeldInv,
                      MainRecovers, [Next]_vars
               PROVE  HeldInv' /\ MainRecovers'
    OBVIOUS
  <2>1. ListenersServe'
    BY SessPartStep, ServeStep DEF HeldInv
  <2>2. ReachableIsHeld'
    BY HeldStep DEF HeldInv
  <2>3. MutatesClosed'
    BY MutatesStep DEF HeldInv
  <2>4. MainRecovers'
    BY MainRecoversStep
  <2> QED
    BY <2>1, <2>2, <2>3, <2>4 DEF HeldInv
<1>3. SupTypeInv /\ OpInv /\ ConnInv /\ ConsumerInv /\ HeldInv /\ MainRecovers
         => (daemon # "closing" => StoppedIsQuiet)
  BY HeldIsQuiet
<1> QED
  BY <1>1, <1>2, <1>3, SupTypeInvariant, OpInvariant, ConnInvariant, ConsumerInvariant, AwaitInvariant,
     SupSerialInvariant, PTL DEF Spec

\* What shows stopped, and what an operation on files treats as stopped, has no
\* process the daemon could reach, through every crash of prism-sessiond and
\* every exit and boot of the daemon, except while a shutdown has begun: as
\* long as no link breaks, and a daemon boots after its predecessor's requests
\* are served and before its own first request arrives (DeployInstance,
\* WithStoppedFileMutation, stopLocked, RecoverSessions).
THEOREM SupQuietUnlessClosing ==
    ASSUME QuietBoot, SlowBoot, MaxLoss = 0
    PROVE  Spec => [](daemon # "closing" => StoppedIsQuiet)
BY QuietInvariant

\* Without exits of the daemon there is no shutdown, and no exception.
THEOREM SupStoppedIsQuiet ==
    ASSUME QuietBoot, SlowBoot, MaxLoss = 0, MaxCrash = 0
    PROVE  Spec => []StoppedIsQuiet
<1> DEFINE NotClosing == daemon # "closing"
<1>1. Init => NotClosing
  BY DEF Init
<1>2. SupTypeInv /\ OpInv /\ NotClosing /\ [Next]_vars => NotClosing'
  <2> SUFFICES ASSUME SupTypeInv, OpInv, daemon # "closing", [Next]_vars
               PROVE  daemon' # "closing"
    OBVIOUS
  <2>1. ~BeginShutdown
    BY DEF BeginShutdown, SupTypeInv, BootTypes
  <2>2. UNCHANGED daemon \/ daemon' \in {"up", "down"}
    BY <2>1, DaemonMoves DEF Boot, DaemonExit
  <2> QED
    BY <2>2
<1>3. Spec => [](NotClosing => StoppedIsQuiet)
  BY QuietInvariant
<1> HIDE DEF NotClosing
<1> QED
  BY <1>1, <1>2, SupTypeInvariant, OpInvariant, <1>3, PTL DEF Spec

-----------------------------------------------------------------------------
(* What an instance shows, and the refinement of Lifecycle.                *)

StartingPCs == StartPCs \ {"start", "hook"}
Passing     == {"starting", "deploying"}

\* What the instance of a goroutine that is at label may show.
Fits(label, s) ==
    /\ label = "hook" => s \in {"stopped", "failed"}
    /\ label \in StartingPCs => s \in {"starting", "stopped", "failed"}
    /\ label = "applying" => s \in {"deploying", "stopped", "failed"}
    /\ label \notin StartingPCs \cup {"applying"} => s \notin Passing

ShowInv ==
    /\ \A t \in Callers : pc[t] \in HoldPCs => Fits(pc[t], state[target[t]])
    /\ \A i \in Instances : op[i] = Free => state[i] \notin Passing

\* A connection about to be bound is open, and RecoverSessions runs before a shutdown.
BindIsOpen  == \A t \in Callers : pc[t] \in BindPCs => conn[t] \in open
RecoverIsUp == pc[Main] \in RecoverPCs => daemon = "up"

LifeInv == ShowInv /\ BindIsOpen /\ RecoverIsUp

\* t sets the state of its instance, if anything.
Marks(t, s) ==
    /\ state'[target[t]] = s
    /\ \A i \in Instances \ {target[t]} : state'[i] = state[i]

LEMMA SetMarks ==
    ASSUME SupTypeInv, NEW t \in Callers, pc[t] \in HoldPCs
    PROVE  /\ UNCHANGED state => Marks(t, state[target[t]])
           /\ \A s : state' = [state EXCEPT ![target[t]] = s] => Marks(t, s)
BY DEF SupTypeInv, InstTypes, HoldsInstance, Marks

LEMMA ShowFrame ==
    ASSUME ShowInv, UNCHANGED <<pc, target, state, op>>
    PROVE  ShowInv'
BY DEF ShowInv

\* A goroutine outside every operation goes where no operation is.
LEMMA ShowOutside ==
    ASSUME ShowInv, NEW t \in Callers, pc'[t] \notin HoldPCs,
           \A u \in Callers \ {t} : pc'[u] = pc[u] /\ target'[u] = target[u],
           UNCHANGED <<state, op>>
    PROVE  ShowInv'
BY DEF ShowInv

LEMMA ShowGoes ==
    ASSUME SupTypeInv, OpInv, ShowInv, NEW t \in Callers, pc[t] \in HoldPCs, NEW label,
           Goto(t, label), NEW s, Fits(label, s), Marks(t, s), UNCHANGED <<op, target>>
    PROVE  ShowInv'
<1>1. pc'[t] = label /\ \A u \in Callers \ {t} : pc'[u] = pc[u]
  BY DEF Goto, SupTypeInv, LocalTypes
<1>2. target[t] \in Instances /\ op[target[t]] = t
  BY DEF SupTypeInv, HoldsInstance, OpInv, LockDiscipline
<1>3. \A u \in Callers \ {t} : pc[u] \in HoldPCs => target[u] \in Instances \ {target[t]}
  BY OthersElsewhere DEF SupTypeInv, HoldsInstance
<1> QED
  BY <1>1, <1>2, <1>3, SupervisorConstants DEF ShowInv, Marks

LEMMA ShowEnds ==
    ASSUME SupTypeInv, OpInv, ShowInv, NEW t \in Callers, pc[t] \in HoldPCs, EndOp(t),
           NEW s, s \notin Passing, Marks(t, s)
    PROVE  ShowInv'
<1>1. /\ pc'[t] \notin HoldPCs
      /\ \A u \in Callers \ {t} : pc'[u] = pc[u] /\ target'[u] = target[u]
  BY DEF EndOp, SupTypeInv, LocalTypes, HoldPCs, StartPCs, StopPCs, WorkPCs
<1>2. /\ target[t] \in Instances
      /\ \A i \in Instances \ {target[t]} : op'[i] = op[i]
  BY DEF EndOp, SupTypeInv, InstTypes, HoldsInstance
<1>3. \A u \in Callers \ {t} : pc[u] \in HoldPCs => target[u] \in Instances \ {target[t]}
  BY OthersElsewhere DEF SupTypeInv, HoldsInstance
<1> QED
  BY <1>1, <1>2, <1>3 DEF ShowInv, Marks

LEMMA ShowBegins ==
    ASSUME SupTypeInv, OpInv, ShowInv, NEW t \in Callers, NEW i \in Instances, NEW j, NEW label,
           label \notin StartingPCs \cup {"applying", "hook"}, Acquire(t, i, j, label),
           pc[t] \notin HoldPCs, UNCHANGED state
    PROVE  ShowInv'
<1>1. /\ pc'[t] = label /\ target'[t] = i
      /\ \A u \in Callers \ {t} : pc'[u] = pc[u] /\ target'[u] = target[u]
  BY DEF Acquire, Goto, SupTypeInv, LocalTypes
<1>2. /\ op[i] = Free /\ op'[i] = t
      /\ \A k \in Instances \ {i} : op'[k] = op[k]
  BY DEF Acquire, SupTypeInv, InstTypes
<1>3. Fits(label, state[i])
  BY <1>2 DEF ShowInv, Fits
<1> QED
  BY <1>1, <1>2, <1>3, SupervisorConstants DEF ShowInv

LEMMA ShowStep ==
    ASSUME QuietBoot, SupTypeInv, OpInv, ShowInv, [Next]_vars
    PROVE  ShowInv'
<1> USE DEF instVars, connVars, localVars, bootVars
<1>m. Main \in Callers
  BY SupervisorConstants
<1>p. /\ HoldPCs = StartingPCs \cup {"start", "hook", "stop", "waitStop", "killWait"} \cup WorkPCs
      /\ WorkPCs = {"deploy", "applying", "mutating"}
      /\ StartingPCs = {"inspect", "attach", "create", "await", "attachNew", "bind"}
      /\ HoldPCs \cap (RecoverPCs \cup {"idle", "autostart"}) = {}
  BY DEF StartingPCs, HoldPCs, StartPCs, StopPCs, WorkPCs, RecoverPCs
<1>g. ASSUME NEW t \in Callers, pc[t] \in HoldPCs, NEW label, Goto(t, label), UNCHANGED <<op, target, state>>,
             Fits(label, state[target[t]])
      PROVE  ShowInv'
  BY <1>g, SetMarks, ShowGoes
<1>e. ASSUME NEW t \in Callers, pc[t] \in HoldPCs, pc[t] \notin StartingPCs \cup {"applying"}, EndOp(t),
             UNCHANGED state
      PROVE  ShowInv'
  <2>1. state[target[t]] \notin Passing
    BY <1>e DEF ShowInv, Fits
  <2> QED
    BY <1>e, <2>1, SetMarks, ShowEnds
<1>1. ASSUME NEW t \in Callers, NEW i \in Instances, NEW j \in AllJobs,
             BeginLifecycle(t, i, j) \/ BeginMutation(t, i, j) \/ BeginDeploy(t, i)
      PROVE  ShowInv'
  BY <1>1, <1>p, ShowBegins DEF BeginLifecycle, BeginMutation, BeginDeploy, Idle
<1>2. CASE \/ \E targets \in SUBSET Instances \ {{}} : ReserveDeployment(targets)
           \/ \E i \in Instances : ReleaseDeployment(i) \/ RestartWindow(i) \/ DetachSession(i)
           \/ \E c \in Conns : ConsumeExit(c) \/ LoseLink(c)
           \/ BeginShutdown \/ SessiondStep \/ UNCHANGED vars
  BY <1>2, ShowFrame DEF ReserveDeployment, ReleaseDeployment, RestartWindow, DetachSession, ConsumeExit,
     LoseLink, BeginShutdown, SessiondStep, vars
<1>3. ASSUME NEW t \in Callers, NEW i \in Instances, AutoRestartFires(t, i)
      PROVE  ShowInv'
  BY <1>3, <1>p, ShowBegins, ShowFrame DEF AutoRestartFires, Idle
<1>4. ASSUME NEW t \in Callers, StartStep(t)
      PROVE  ShowInv'
  <2>h. pc[t] \in HoldPCs /\ target[t] \in Instances
    BY <1>4 DEF StartStep, StartCheck, HookDone, StartFails, Inspect, AttachExisting,
       AttachExistingFails, CreateSession, SessionCreated, SessionNotCreated, AttachNew, AttachNewFails,
       StartBinds, HoldPCs, StartPCs, SupTypeInv, HoldsInstance
  <2>1. CASE StartCheck(t)
    <3>1. CASE EndOp(t)
      BY <1>e, <1>p, <2>1, <2>h, <3>1 DEF StartCheck
    <3>2. CASE Goto(t, "hook") /\ state[target[t]] \notin {"running", "starting", "stopping"}
               /\ UNCHANGED <<op, target>>
      <4>1. state[target[t]] \in States /\ state[target[t]] \notin Passing
        BY <1>p, <2>1, <2>h DEF StartCheck, ShowInv, Fits, SupTypeInv, InstTypes
      <4>2. Fits("hook", state[target[t]])
        BY <1>p, <3>2, <4>1 DEF Fits, States, Passing
      <4> QED
        BY <1>g, <2>1, <2>h, <3>2, <4>2 DEF StartCheck
    <3> QED
      BY <2>1, <3>1, <3>2 DEF StartCheck
  <2>2. CASE HookDone(t)
    <3>1. Fits("inspect", "starting")
      BY <1>p DEF Fits
    <3>2. Marks(t, "starting") /\ Goto(t, "inspect") /\ UNCHANGED <<op, target>>
      BY <2>2, <2>h, SetMarks DEF HookDone
    <3> QED
      BY <2>h, <3>1, <3>2, ShowGoes
  <2>3. CASE StartFails(t) \/ SessionNotCreated(t) \/ AttachNewFails(t)
    <3>1. EndOp(t) /\ Marks(t, "failed")
      BY <2>3, <2>h, SetMarks DEF StartFails, SessionNotCreated, AttachNewFails, FailStart
    <3> QED
      BY <2>h, <3>1, ShowEnds DEF Passing
  <2>4. CASE \/ Inspect(t) \/ AttachExistingFails(t) \/ CreateSession(t) \/ SessionCreated(t)
             \/ AttachExisting(t) \/ AttachNew(t)
    <3>1. pc[t] \in StartingPCs /\ UNCHANGED <<op, target, state>>
      BY <1>p, <2>4 DEF Inspect, AttachExistingFails, CreateSession, SessionCreated, AttachExisting, AttachNew
    <3>2. PICK label \in StartingPCs : Goto(t, label)
      BY <1>p, <2>4 DEF Inspect, AttachExistingFails, CreateSession, SessionCreated, AttachExisting,
         AttachNew, Dial
    <3>3. Fits(label, state[target[t]])
      BY <1>p, <2>h, <3>1, <3>2 DEF ShowInv, Fits
    <3> QED
      BY <1>g, <2>h, <3>1, <3>2, <3>3
  <2>5. CASE StartBinds(t)
    <3>1. EndOp(t) /\ Marks(t, "running")
      BY <2>5, <2>h, SetMarks DEF StartBinds, BindSession
    <3> QED
      BY <2>h, <3>1, ShowEnds DEF Passing
  <2> QED
    BY ONLY <1>4, <2>1, <2>2, <2>3, <2>4, <2>5 DEF StartStep
<1>5. ASSUME NEW t \in Callers, StopStep(t)
      PROVE  ShowInv'
  <2>h. /\ pc[t] \in HoldPCs /\ target[t] \in Instances
        /\ pc[t] \notin StartingPCs \cup {"applying"}
        /\ state[target[t]] \notin Passing
    <3>1. pc[t] \in {"stop", "waitStop", "killWait"}
      BY <1>5 DEF StopStep, StopNothing, StopBegins, StopDone, StopTimeout, KillTimeout
    <3>2. pc[t] \in HoldPCs /\ pc[t] \notin StartingPCs \cup {"applying"}
      BY <1>p, <3>1
    <3> QED
      BY <3>2 DEF SupTypeInv, HoldsInstance, ShowInv, Fits
  <2>l. \A label \in {"start", "deploy", "waitStop", "killWait"}, s \in States : s \notin Passing => Fits(label, s)
    BY <1>p DEF Fits
  <2>s. state[target[t]] \in States /\ {"stopped", "stopping"} \subseteq States \ Passing
    BY <2>h DEF SupTypeInv, InstTypes, States, Passing
  <2>a. ASSUME AfterStop(t), NEW s \in States, s \notin Passing, Marks(t, s)
        PROVE  ShowInv'
    <3>1. CASE EndOp(t)
      BY <2>a, <2>h, <3>1, ShowEnds
    <3>2. CASE (Goto(t, "start") \/ Goto(t, "deploy")) /\ UNCHANGED <<op, target>>
      BY <2>a, <2>h, <2>l, <3>2, ShowGoes
    <3> QED
      BY <2>a, <3>1, <3>2 DEF AfterStop
  <2>1. CASE StopNothing(t)
    <3>1. Marks(t, "stopped") /\ AfterStop(t)
      BY <2>1, <2>h, SetMarks DEF StopNothing
    <3> QED
      BY <2>a, <2>s, <3>1
  <2>2. CASE StopBegins(t)
    <3>1. Marks(t, "stopping") /\ (Goto(t, "waitStop") \/ Goto(t, "killWait")) /\ UNCHANGED <<op, target>>
      BY <2>2, <2>h, SetMarks DEF StopBegins
    <3> QED
      BY <2>h, <2>l, <2>s, <3>1, ShowGoes
  <2>3. CASE StopDone(t)
    <3>1. Marks(t, state[target[t]]) /\ AfterStop(t)
      BY <2>3, <2>h, SetMarks DEF StopDone
    <3> QED
      BY <2>a, <2>h, <2>s, <3>1
  <2>4. CASE StopTimeout(t)
    BY <1>g, <2>4, <2>h, <2>l, <2>s DEF StopTimeout
  <2>5. CASE KillTimeout(t)
    BY <1>e, <2>5, <2>h DEF KillTimeout
  <2> QED
    BY ONLY <1>5, <2>1, <2>2, <2>3, <2>4, <2>5 DEF StopStep
<1>6. ASSUME NEW t \in Callers, WorkStep(t)
      PROVE  ShowInv'
  <2>h. pc[t] \in HoldPCs /\ target[t] \in Instances
    BY <1>6 DEF WorkStep, DeployMarks, DeployApplied, MutationEnds, HoldPCs, WorkPCs, SupTypeInv, HoldsInstance
  <2>1. CASE MutationEnds(t)
    BY <1>e, <1>p, <2>1, <2>h DEF MutationEnds
  <2>2. CASE DeployMarks(t)
    <3>1. Marks(t, "deploying") /\ Goto(t, "applying") /\ UNCHANGED <<op, target>>
      BY <2>2, <2>h, SetMarks DEF DeployMarks
    <3>2. Fits("applying", "deploying")
      BY <1>p DEF Fits
    <3> QED
      BY <2>h, <3>1, <3>2, ShowGoes
  <2>3. CASE DeployApplied(t)
    <3>1. PICK s \in {"stopped", "failed"} : Marks(t, s)
      BY <2>3, <2>h, SetMarks DEF DeployApplied
    <3>2. Fits("start", s) /\ s \notin Passing
      BY <1>p, <3>1 DEF Fits, Passing
    <3>3. EndOp(t) \/ (Goto(t, "start") /\ UNCHANGED <<op, target>>)
      BY <2>3 DEF DeployApplied
    <3> QED
      BY <2>h, <3>1, <3>2, <3>3, ShowEnds, ShowGoes
  <2> QED
    BY ONLY <1>6, <2>1, <2>2, <2>3 DEF WorkStep
<1>7. ASSUME NEW c \in Conns, WaitSession(c)
      PROVE  ShowInv'
  <2>1. \A i \in Instances : state'[i] = state[i] \/ state'[i] \in {"stopped", "failed"}
    BY <1>7 DEF WaitSession, SupTypeInv, InstTypes
  <2>2. \A label, s : s \in {"stopped", "failed"} => Fits(label, s)
    BY DEF Fits, Passing
  <2>3. UNCHANGED <<pc, target, op>>
    BY <1>7 DEF WaitSession
  <2> QED
    BY <2>1, <2>2, <2>3 DEF ShowInv, SupTypeInv, HoldsInstance, Passing
<1>8. CASE Boot \/ RecoverList \/ RecoverDone \/ BootDone \/ \E h \in Hosts : RecoverAttach(h)
  <2>1. /\ \A u \in Callers \ {Main} : pc'[u] = pc[u] /\ target'[u] = target[u]
        /\ pc'[Main] \in RecoverPCs \cup {"idle", "autostart"}
        /\ UNCHANGED <<op, state>>
    BY <1>8, <1>m DEF Boot, RecoverList, RecoverAttach, Dial, RecoverDone, BootDone, Goto, RecoverPCs,
       SupTypeInv, LocalTypes
  <2> QED
    BY <1>m, <1>p, <2>1, ShowOutside
<1>9. CASE RecoverBind
  <2>1. /\ \A u \in Callers : pc'[u] \notin HoldPCs
        /\ \A i \in Instances : state'[i] = state[i] \/ state'[i] = "running"
        /\ UNCHANGED op
    BY <1>9, <1>m, <1>p DEF RecoverBind, BindSession, Goto, RecoverPCs, SupTypeInv, LocalTypes, InstTypes,
       OpInv, QuietRecovery
  <2> QED
    BY <2>1 DEF ShowInv, Passing
<1>10. ASSUME NEW i \in Instances, StartAutoNext(i)
       PROVE  ShowInv'
  BY <1>10, <1>m, <1>p, ShowBegins, ShowFrame DEF StartAutoNext
<1>11. CASE DaemonExit
  BY <1>11, <1>p DEF DaemonExit, ShowInv, Passing
<1>12. CASE Begin
  BY ONLY <1>1, <1>12 DEF Begin, AllJobs
<1>13. CASE BootStep
  BY ONLY <1>8, <1>9, <1>10, <1>13 DEF BootStep
<1> QED
  BY ONLY [Next]_vars, <1>2, <1>3, <1>4, <1>5, <1>6, <1>7, <1>8, <1>11, <1>12, <1>13 DEF Next

LEMMA BindIsOpenStep ==
    ASSUME QuietBoot, SupTypeInv, OpInv, ConnInv, ConsumerInv, BindIsOpen, [Next]_vars
    PROVE  BindIsOpen'
<1> USE DEF instVars, connVars, localVars, bootVars
<1>m. Main \in Callers
  BY SupervisorConstants
<1>1. CASE Plain
  BY <1>1 DEF Plain, BindersKept, BindIsOpen
<1>2. ASSUME NEW t \in Callers, NEW i, NEW c \in Conns, Dialled(t, i, c)
      PROVE  BindIsOpen'
  <2>1. \A u \in Callers \ {t} : conn'[u] = conn[u] /\ pc'[u] = pc[u]
    BY <1>2 DEF Dialled, SupTypeInv, LocalTypes
  <2>2. conn'[t] = c /\ open' = open \cup {c}
    BY <1>2 DEF Dialled, SupTypeInv, LocalTypes
  <2> QED
    BY <2>1, <2>2 DEF BindIsOpen
<1>3. ASSUME NEW t \in Callers, AttachExisting(t) \/ AttachNew(t)
      PROVE  BindIsOpen'
  <2>1. target[t] \in Instances
    BY <1>3 DEF AttachExisting, AttachNew, SupTypeInv, HoldsInstance, HoldPCs, StartPCs
  <2>2. PICK c \in Conns : Dialled(t, target[t], c)
    BY <1>3, <2>1, Dials DEF AttachExisting, AttachNew
  <2> QED
    BY <1>2, <2>2
<1>4. ASSUME NEW h \in Hosts, RecoverAttach(h)
      PROVE  BindIsOpen'
  <2>1. CASE CanAttach(inst[h], h)
    <3>1. /\ inst[h] \in Instances \cup {NoInstance}
          /\ target' = [target EXCEPT ![Main] = inst[h]]
          /\ target'[Main] = inst[h]
      BY <1>4, <1>m, <2>1 DEF RecoverAttach, SupTypeInv, TypeInv, SessTypeOK, LocalTypes
    <3>2. PICK c \in Conns : Dialled(Main, inst[h], c)
      BY <1>4, <1>m, <2>1, <3>1, Dials DEF RecoverAttach
    <3> QED
      BY <1>2, <1>m, <3>2
  <2>2. CASE ~CanAttach(inst[h], h)
    BY <1>4, <2>2 DEF RecoverAttach, BindIsOpen
  <2> QED
    BY <2>1, <2>2
<1>5. ASSUME NEW t \in Callers, StartBinds(t)
      PROVE  BindIsOpen'
  <2>1. UNCHANGED open
    BY <1>5 DEF StartBinds, BindSession
  <2>2. BindersKept
    BY <1>5, EndOpKeeps DEF StartBinds
  <2> QED
    BY <2>1, <2>2 DEF BindersKept, BindIsOpen
<1>6. ASSUME NEW c \in Conns, ConsumeExit(c) \/ LoseLink(c)
      PROVE  BindIsOpen'
  <2>1. c \in open \cap waiting /\ open' = open \ {c} /\ UNCHANGED <<pc, conn>>
    BY <1>6 DEF ConsumeExit, LoseLink, CloseConn
  <2>2. \A u \in Callers : pc[u] \in BindPCs => conn[u] # c
    BY <2>1 DEF ConsumerInv, OpenIsSession, ConnInv, BindIsNew
  <2> QED
    BY <2>1, <2>2 DEF BindIsOpen
<1>7. ASSUME NEW c \in Conns, WaitSession(c)
      PROVE  BindIsOpen'
  BY <1>7 DEF WaitSession, BindIsOpen
<1>8. ASSUME NEW i \in Instances, DetachSession(i)
      PROVE  BindIsOpen'
  <2>1. open' = open \ {session[i]} /\ UNCHANGED <<pc, conn>>
    BY <1>8 DEF DetachSession, CloseConn
  <2>2. \A u \in Callers : pc[u] \in BindPCs => conn[u] # session[i]
    BY DEF ConnInv, BindIsNew
  <2> QED
    BY <2>1, <2>2 DEF BindIsOpen
<1>9. CASE RecoverBind
  <2>1. UNCHANGED open /\ pc'[Main] = "recoverNext"
        /\ \A u \in Callers \ {Main} : pc'[u] = pc[u] /\ conn'[u] = conn[u]
    BY <1>9, <1>m DEF RecoverBind, BindSession, Goto, SupTypeInv, LocalTypes
  <2> QED
    BY <2>1 DEF BindIsOpen, BindPCs
<1>10. CASE Boot
  <2>1. UNCHANGED <<open, conn>> /\ pc'[Main] = "recoverList"
        /\ \A u \in Callers \ {Main} : pc'[u] = pc[u]
    BY <1>10, <1>m DEF Boot, Goto, SupTypeInv, LocalTypes
  <2> QED
    BY <2>1 DEF BindIsOpen, BindPCs
<1>11. CASE BeginShutdown
  BY <1>11 DEF BeginShutdown, BindIsOpen
<1>12. CASE DaemonExit
  BY <1>12 DEF DaemonExit, BindIsOpen, BindPCs
<1> QED
  BY ONLY SupTypeInv, OpInv, [Next]_vars, PlainSteps, <1>1, <1>3, <1>4, <1>5, <1>6, <1>7, <1>8, <1>9,
     <1>10, <1>11, <1>12

\* Main comes to RecoverSessions at boot only.
LEMMA MainMoves ==
    ASSUME SupTypeInv, OpInv, [Next]_vars
    PROVE  pc'[Main] \in RecoverPCs => Boot \/ pc[Main] \in RecoverPCs
<1> USE DEF instVars, connVars, localVars, bootVars
<1> SUFFICES ASSUME pc'[Main] \in RecoverPCs, ~Boot
             PROVE  pc[Main] \in RecoverPCs
  OBVIOUS
<1>m. Main \in Callers
  BY SupervisorConstants
<1>p. HoldPCs \cap RecoverPCs = {} /\ {"idle", "autostart"} \cap RecoverPCs = {}
  BY DEF HoldPCs, StartPCs, StopPCs, WorkPCs, RecoverPCs
<1>g. ASSUME NEW t \in Callers, NEW label \in HoldPCs, Goto(t, label)
      PROVE  pc[Main] \in RecoverPCs
  BY <1>g, <1>m, <1>p DEF Goto, SupTypeInv, LocalTypes
<1>e. ASSUME NEW t \in Callers, EndOp(t)
      PROVE  pc[Main] \in RecoverPCs
  BY <1>e, <1>m, <1>p DEF EndOp, SupTypeInv, LocalTypes
<1>1. ASSUME NEW t \in Callers, NEW i \in Instances, NEW j \in AllJobs,
             BeginLifecycle(t, i, j) \/ BeginMutation(t, i, j) \/ BeginDeploy(t, i)
      PROVE  pc[Main] \in RecoverPCs
  BY <1>1, <1>g DEF BeginLifecycle, BeginMutation, BeginDeploy, Acquire, HoldPCs, StartPCs, StopPCs, WorkPCs
<1>2. CASE \/ \E targets \in SUBSET Instances \ {{}} : ReserveDeployment(targets)
           \/ \E i \in Instances : ReleaseDeployment(i) \/ RestartWindow(i) \/ DetachSession(i)
           \/ \E c \in Conns : ConsumeExit(c) \/ LoseLink(c) \/ WaitSession(c)
           \/ BeginShutdown \/ SessiondStep \/ UNCHANGED vars
  BY <1>2 DEF ReserveDeployment, ReleaseDeployment, RestartWindow, DetachSession, ConsumeExit,
     LoseLink, WaitSession, BeginShutdown, SessiondStep, vars
<1>3. ASSUME NEW t \in Callers, NEW i \in Instances, AutoRestartFires(t, i)
      PROVE  pc[Main] \in RecoverPCs
  BY <1>3, <1>g DEF AutoRestartFires, Acquire, HoldPCs, StartPCs
<1>4. ASSUME NEW t \in Callers, StartStep(t)
      PROVE  pc[Main] \in RecoverPCs
  <2>1. EndOp(t) \/ \E label \in StartPCs : Goto(t, label)
    BY <1>4 DEF StartStep, StartCheck, HookDone, StartFails, FailStart, Inspect, AttachExisting,
       AttachExistingFails, CreateSession, SessionCreated, SessionNotCreated, AttachNew, AttachNewFails,
       StartBinds, Dial, StartPCs
  <2> QED
    BY <1>e, <1>g, <2>1 DEF HoldPCs
<1>5. ASSUME NEW t \in Callers, StopStep(t) \/ WorkStep(t)
      PROVE  pc[Main] \in RecoverPCs
  <2>1. EndOp(t) \/ \E label \in {"start", "deploy", "waitStop", "killWait", "applying"} : Goto(t, label)
    BY <1>5 DEF StopStep, StopNothing, StopBegins, StopDone, StopTimeout, KillTimeout, AfterStop, WorkStep,
       DeployMarks, DeployApplied, MutationEnds
  <2> QED
    BY <1>e, <1>g, <2>1 DEF HoldPCs, StartPCs, StopPCs, WorkPCs
<1>6. CASE RecoverList \/ RecoverBind \/ \E h \in Hosts : RecoverAttach(h)
  BY <1>6 DEF RecoverList, RecoverBind, RecoverAttach, RecoverPCs
<1>7. CASE RecoverDone \/ BootDone
  BY <1>7, <1>m, <1>p DEF RecoverDone, BootDone, Goto, SupTypeInv, LocalTypes
<1>8. ASSUME NEW i \in Instances, StartAutoNext(i)
      PROVE  pc[Main] \in RecoverPCs
  BY <1>8, <1>g, <1>m DEF StartAutoNext, Acquire, HoldPCs, StartPCs
<1>9. CASE DaemonExit
  BY <1>9, <1>m, <1>p DEF DaemonExit
<1>10. CASE Begin
  BY ONLY <1>1, <1>10 DEF Begin, AllJobs
<1>11. CASE BootStep
  BY ONLY <1>6, <1>7, <1>8, <1>11 DEF BootStep
<1> QED
  BY ONLY [Next]_vars, ~Boot, <1>2, <1>3, <1>4, <1>5, <1>9, <1>10, <1>11 DEF Next

LEMMA RecoverIsUpStep ==
    ASSUME SupTypeInv, OpInv, RecoverIsUp, [Next]_vars
    PROVE  RecoverIsUp'
<1>m. Main \in Callers
  BY SupervisorConstants
<1>1. CASE Boot
  BY <1>1 DEF Boot, RecoverIsUp
<1>2. CASE BeginShutdown \/ DaemonExit
  BY <1>2, <1>m DEF BeginShutdown, DaemonExit, localVars, RecoverIsUp, RecoverPCs
<1>3. CASE UNCHANGED daemon /\ ~Boot
  BY <1>3, MainMoves DEF RecoverIsUp
<1> QED
  BY <1>1, <1>2, <1>3, DaemonMoves

LEMMA LifeInvariant ==
    ASSUME QuietBoot
    PROVE  Spec => []LifeInv
<1>1. Init => LifeInv
  BY SupervisorConstants DEF Init, LifeInv, ShowInv, BindIsOpen, RecoverIsUp, HoldPCs, StartPCs, StopPCs,
     WorkPCs, BindPCs, RecoverPCs, Passing
<1>2. SupTypeInv /\ OpInv /\ ConnInv /\ ConsumerInv /\ LifeInv /\ [Next]_vars => LifeInv'
  BY ShowStep, BindIsOpenStep, RecoverIsUpStep DEF LifeInv
<1> QED
  BY <1>1, <1>2, SupTypeInvariant, OpInvariant, ConnInvariant, ConsumerInvariant, PTL DEF Spec

\* An instance that shows starting or deploying has somebody who works on it, and an
\* open session shows as running or stopping, as long as no request arrives while
\* RecoverSessions runs (markStartFailed, startSession, DeployInstance, waitSession).
THEOREM SupShownIsTrue ==
    ASSUME QuietBoot
    PROVE  Spec => []ShownIsTrue
<1>1. SupTypeInv /\ OpInv /\ ConnInv /\ ConsumerInv /\ LifeInv => ShownIsTrue
  <2> SUFFICES ASSUME SupTypeInv, OpInv, ConsumerInv, LifeInv, NEW i \in Instances
               PROVE  /\ state[i] \in {"starting", "deploying"} => op[i] # Free
                      /\ session[i] \in open => state[i] \in {"running", "stopping"}
    BY DEF ShownIsTrue
  <2>1. state[i] \in {"starting", "deploying"} => op[i] # Free
    BY DEF LifeInv, ShowInv, Passing
  <2>2. ASSUME session[i] \in open
        PROVE  state[i] \in {"running", "stopping"}
    <3>1. state[i] \in {"running", "stopping", "starting"}
      BY <2>2 DEF ConsumerInv, RestIsClosed, Rest, SupTypeInv, InstTypes, States
    <3>2. ASSUME state[i] = "starting"
          PROVE  FALSE
      <4>1. op[i] \in Callers
        BY <2>1, <3>2 DEF SupTypeInv, InstTypes
      <4>2. pc[op[i]] \in HoldPCs /\ target[op[i]] = i
        BY <4>1 DEF OpInv, LockDiscipline
      <4>3. pc[op[i]] \in StartingPCs
        BY <3>2, <4>1, <4>2 DEF LifeInv, ShowInv, Fits, Passing
      <4> QED
        BY <2>2, <4>1, <4>2, <4>3 DEF ConsumerInv, ReadyIsClosed, ReadyPCs, StartedPCs, StartingPCs
    <3> QED
      BY <3>1, <3>2
  <2> QED
    BY <2>1, <2>2
<1> QED
  BY <1>1, LifeInvariant, SupTypeInvariant, OpInvariant, ConnInvariant, ConsumerInvariant, PTL

-----------------------------------------------------------------------------
(* The refinement of Lifecycle.                                            *)

\* The mapped variables, opaque until a step of Lifecycle is recognised.
PhaseNow == CASE daemon = "down"         -> "down"
              [] pc[Main] \in RecoverPCs -> "recovers"
              [] daemon = "closing"      -> "closes"
              [] OTHER                   -> "serves"

LinkOf(i) == CASE session[i] = NoConn  -> "none"
               [] session[i] \in open  -> "open"
               [] OTHER                -> "ended"

LinkMap == [i \in Instances |-> LinkOf(i)]

LifeStep == [Life!LifeNext]_(Life!lifeVars)

LEMMA PhaseIs ==
    ASSUME SupTypeInv, OpInv, RecoverIsUp
    PROVE  /\ daemon = "down" => PhaseNow = "down"
           /\ pc[Main] \in RecoverPCs => PhaseNow = "recovers"
           /\ daemon = "closing" => PhaseNow = "closes"
           /\ daemon = "up" /\ pc[Main] \notin RecoverPCs => PhaseNow = "serves"
<1>1. daemon \in {"down", "up", "closing"}
  BY DEF SupTypeInv, BootTypes
<1>2. pc[Main] \in RecoverPCs => daemon = "up"
  BY DEF RecoverIsUp
<1>3. CASE daemon = "down"
  BY <1>2, <1>3 DEF PhaseNow
<1>4. CASE pc[Main] \in RecoverPCs
  BY <1>2, <1>4 DEF PhaseNow
<1>5. CASE daemon = "closing"
  BY <1>2, <1>5 DEF PhaseNow
<1>6. CASE daemon = "up" /\ pc[Main] \notin RecoverPCs
  BY <1>6 DEF PhaseNow
<1> QED
  BY <1>1, <1>2, <1>3, <1>4, <1>5, <1>6

LEMMA LinkIs ==
    ASSUME SupTypeInv, NEW i \in Instances
    PROVE  /\ session[i] = NoConn <=> LinkMap[i] = "none"
           /\ session[i] \in open <=> LinkMap[i] = "open"
           /\ session[i] # NoConn /\ session[i] \notin open <=> LinkMap[i] = "ended"
<1>1. session[i] \in Conns \cup {NoConn} /\ open \subseteq Conns /\ NoConn \notin Conns
  BY SupervisorConstants DEF SupTypeInv, InstTypes, ConnTypes
<1>2. CASE session[i] = NoConn
  BY <1>1, <1>2 DEF LinkOf, LinkMap
<1>3. CASE session[i] \in open
  BY <1>1, <1>3 DEF LinkOf, LinkMap
<1>4. CASE session[i] # NoConn /\ session[i] \notin open
  BY <1>1, <1>4 DEF LinkOf, LinkMap
<1> QED
  BY <1>1, <1>2, <1>3, <1>4

\* A goroutine outside the recovery stays outside.
LEMMA PhaseKept ==
    ASSUME SupTypeInv, UNCHANGED daemon, pc'[Main] \in RecoverPCs <=> pc[Main] \in RecoverPCs
    PROVE  UNCHANGED PhaseNow
BY DEF PhaseNow

LEMMA LinksKept ==
    ASSUME UNCHANGED session, \A i \in Instances : session[i] \in open' <=> session[i] \in open
    PROVE  UNCHANGED LinkMap
<1>1. \A i \in Instances : LinkOf(i)' = LinkOf(i)
  BY DEF LinkOf
<1> QED
  BY <1>1 DEF LinkMap

LEMMA LinkSet ==
    ASSUME NEW i \in Instances, NEW l, LinkOf(i)' = l,
           \A k \in Instances \ {i} : /\ session'[k] = session[k]
                                      /\ session[k] \in open' <=> session[k] \in open
    PROVE  LinkMap' = [LinkMap EXCEPT ![i] = l]
<1>1. \A k \in Instances \ {i} : LinkOf(k)' = LinkOf(k)
  BY DEF LinkOf
<1> QED
  BY <1>1 DEF LinkMap

\* The steps of Lifecycle, recognised from the mapped variables.
LEMMA LifeFrame ==
    ASSUME UNCHANGED <<op, state, PhaseNow, LinkMap>>
    PROVE  LifeStep
BY DEF LifeStep, Life!lifeVars, PhaseNow, LinkMap, LinkOf

LEMMA LifeTakes ==
    ASSUME NEW i \in Instances, NEW t \in Callers, PhaseNow \in {"serves", "closes"}, op[i] = Free,
           \A k \in Instances : op[k] # t, op' = [op EXCEPT ![i] = t],
           UNCHANGED <<state, PhaseNow, LinkMap>>
    PROVE  LifeStep
<1>1. Life!Take(i, t)
  BY DEF Life!Take, PhaseNow, LinkMap, LinkOf
<1> QED
  BY <1>1 DEF LifeStep, Life!LifeNext

\* What a holder does to the state and to the mutex.
LEMMA LifeHolds ==
    ASSUME NEW i \in Instances, op[i] # Free, NEW s, state' = [state EXCEPT ![i] = s],
           UNCHANGED <<PhaseNow, LinkMap>>
    PROVE  /\ UNCHANGED <<op>> /\ LinkMap[i] # "open" /\ state[i] \in {"stopped", "failed"}
                 /\ s = "starting" => LifeStep
           /\ op' = [op EXCEPT ![i] = Free] /\ LinkMap[i] # "open"
                 /\ state[i] \in {"starting", "stopped", "failed"} /\ s = "failed" => LifeStep
           /\ UNCHANGED <<op>> /\ LinkMap[i] # "none" /\ state[i] \notin Passing
                 /\ s = "stopping" => LifeStep
           /\ (op' = [op EXCEPT ![i] = Free] \/ UNCHANGED op) /\ LinkMap[i] = "none"
                 /\ state[i] \notin Passing /\ s = "stopped" => LifeStep
           /\ UNCHANGED <<op>> /\ LinkMap[i] # "open" /\ state[i] \notin Passing
                 /\ s = "deploying" => LifeStep
           /\ (op' = [op EXCEPT ![i] = Free] \/ UNCHANGED op) /\ LinkMap[i] # "open"
                 /\ state[i] \in {"deploying", "stopped", "failed"} /\ s \in {"stopped", "failed"} => LifeStep
<1> USE DEF PhaseNow, LinkMap, LinkOf, Life!Held, Life!Closed, Life!Shows, Life!Frees, Life!Passing,
        Life!Startable, Life!Applied, Passing
<1>1. UNCHANGED <<op>> /\ LinkMap[i] # "open" /\ state[i] \in {"stopped", "failed"}
         /\ s = "starting" => Life!Begin(i)
  BY DEF Life!Begin
<1>2. op' = [op EXCEPT ![i] = Free] /\ LinkMap[i] # "open"
         /\ state[i] \in {"starting", "stopped", "failed"} /\ s = "failed" => Life!Fail(i)
  BY DEF Life!Fail
<1>3. UNCHANGED <<op>> /\ LinkMap[i] # "none" /\ state[i] \notin Passing
         /\ s = "stopping" => Life!Stop(i)
  BY DEF Life!Stop
<1>4. (op' = [op EXCEPT ![i] = Free] \/ UNCHANGED op) /\ LinkMap[i] = "none"
         /\ state[i] \notin Passing /\ s = "stopped" => Life!FindNothing(i)
  BY DEF Life!FindNothing
<1>5. UNCHANGED <<op>> /\ LinkMap[i] # "open" /\ state[i] \notin Passing
         /\ s = "deploying" => Life!Deploy(i)
  BY DEF Life!Deploy
<1>6. (op' = [op EXCEPT ![i] = Free] \/ UNCHANGED op) /\ LinkMap[i] # "open"
         /\ state[i] \in {"deploying", "stopped", "failed"} /\ s \in {"stopped", "failed"} => Life!Deployed(i)
  BY DEF Life!Deployed
<1> QED
  BY ONLY <1>1, <1>2, <1>3, <1>4, <1>5, <1>6, i \in Instances DEF LifeStep, Life!LifeNext

LEMMA LifeReleases ==
    ASSUME NEW i \in Instances, op[i] # Free, state[i] \notin Passing, op' = [op EXCEPT ![i] = Free],
           UNCHANGED <<state, PhaseNow, LinkMap>>
    PROVE  LifeStep
<1>1. Life!Release(i)
  BY DEF Life!Release, Life!Held, Life!Frees, Life!Passing, Passing, PhaseNow, LinkMap, LinkOf
<1> QED
  BY <1>1 DEF LifeStep, Life!LifeNext

LEMMA LifeRuns ==
    ASSUME NEW i \in Instances, op[i] # Free, LinkMap[i] # "open",
           state[i] \in {"starting", "stopped", "failed"}, state' = [state EXCEPT ![i] = "running"],
           LinkMap' = [LinkMap EXCEPT ![i] = "open"], op' = [op EXCEPT ![i] = Free], UNCHANGED PhaseNow
    PROVE  LifeStep
<1>1. Life!Run(i)
  BY DEF Life!Run, Life!Held, Life!Closed, Life!Startable, Life!Shows, Life!Links, Life!Frees, PhaseNow,
     LinkMap, LinkOf
<1> QED
  BY <1>1 DEF LifeStep, Life!LifeNext

\* What happens to the link outside an operation.
LEMMA LifeEnds ==
    ASSUME NEW i \in Instances, NEW l, LinkMap' = [LinkMap EXCEPT ![i] = l], UNCHANGED <<op, PhaseNow>>
    PROVE  /\ LinkMap[i] = "open" /\ l = "ended" /\ UNCHANGED state => LifeStep
           /\ LinkMap[i] = "ended" /\ l = "none"
                 /\ (\E s \in {"stopped", "failed"} :
                       (state[i] = "stopping" => s = "stopped") /\ state' = [state EXCEPT ![i] = s])
                 => LifeStep
           /\ PhaseNow = "closes" /\ LinkMap[i] # "none" /\ l = "none" /\ UNCHANGED state => LifeStep
           /\ PhaseNow = "recovers" /\ op[i] = Free /\ LinkMap[i] = "none" /\ l = "open"
                 /\ state[i] \in {"stopped", "failed"} /\ state' = [state EXCEPT ![i] = "running"] => LifeStep
<1> USE DEF PhaseNow, LinkMap, LinkOf, Life!Held, Life!Shows, Life!Links
<1>1. LinkMap[i] = "open" /\ l = "ended" /\ UNCHANGED state => Life!End(i)
  BY DEF Life!End
<1>2. LinkMap[i] = "ended" /\ l = "none"
         /\ (\E s \in {"stopped", "failed"} :
               (state[i] = "stopping" => s = "stopped") /\ state' = [state EXCEPT ![i] = s])
         => Life!Note(i)
  BY DEF Life!Note
<1>3. PhaseNow = "closes" /\ LinkMap[i] # "none" /\ l = "none" /\ UNCHANGED state => Life!LetGo(i)
  BY DEF Life!LetGo
<1>4. PhaseNow = "recovers" /\ op[i] = Free /\ LinkMap[i] = "none" /\ l = "open"
         /\ state[i] \in {"stopped", "failed"} /\ state' = [state EXCEPT ![i] = "running"] => Life!Recover(i)
  BY DEF Life!Recover
<1> QED
  BY ONLY <1>1, <1>2, <1>3, <1>4, i \in Instances DEF LifeStep, Life!LifeNext

LEMMA LifePhases ==
    ASSUME UNCHANGED <<op, state, LinkMap>>
    PROVE  /\ PhaseNow = "down" /\ PhaseNow' = "recovers" => LifeStep
           /\ PhaseNow = "recovers" /\ PhaseNow' = "serves" => LifeStep
           /\ PhaseNow = "serves" /\ PhaseNow' = "closes" => LifeStep
<1> USE DEF PhaseNow, LinkMap, LinkOf
<1>1. PhaseNow = "down" /\ PhaseNow' = "recovers" => Life!Boot
  BY DEF Life!Boot
<1>2. PhaseNow = "recovers" /\ PhaseNow' = "serves" => Life!Serve
  BY DEF Life!Serve
<1>3. PhaseNow = "serves" /\ PhaseNow' = "closes" => Life!Close
  BY DEF Life!Close
<1> QED
  BY ONLY <1>1, <1>2, <1>3 DEF LifeStep, Life!LifeNext

\* The mapped variables after a step.
LEMMA PhaseBecomes ==
    /\ daemon' = "down" /\ pc'[Main] \notin RecoverPCs => PhaseNow' = "down"
    /\ daemon' = "up" /\ pc'[Main] \in RecoverPCs => PhaseNow' = "recovers"
    /\ daemon' = "up" /\ pc'[Main] \notin RecoverPCs => PhaseNow' = "serves"
    /\ daemon' = "closing" /\ pc'[Main] \notin RecoverPCs => PhaseNow' = "closes"
<1>1. daemon' = "down" /\ pc'[Main] \notin RecoverPCs => PhaseNow' = "down"
  BY DEF PhaseNow
<1>2. daemon' = "up" /\ pc'[Main] \in RecoverPCs => PhaseNow' = "recovers"
  BY DEF PhaseNow
<1>3. daemon' = "up" /\ pc'[Main] \notin RecoverPCs => PhaseNow' = "serves"
  BY DEF PhaseNow
<1>4. daemon' = "closing" /\ pc'[Main] \notin RecoverPCs => PhaseNow' = "closes"
  BY DEF PhaseNow
<1> QED
  BY <1>1, <1>2, <1>3, <1>4

LEMMA LinkBecomes ==
    ASSUME NEW i \in Instances, open' \subseteq Conns,
           \A k \in Instances \ {i} : /\ session'[k] = session[k]
                                      /\ session[k] \in open' <=> session[k] \in open
    PROVE  /\ session'[i] = NoConn => LinkMap' = [LinkMap EXCEPT ![i] = "none"]
           /\ session'[i] \in open' => LinkMap' = [LinkMap EXCEPT ![i] = "open"]
           /\ session'[i] # NoConn /\ session'[i] \notin open' => LinkMap' = [LinkMap EXCEPT ![i] = "ended"]
<1>c. NoConn \notin open'
  BY SupervisorConstants
<1>1. session'[i] = NoConn => LinkOf(i)' = "none"
  BY <1>c DEF LinkOf
<1>2. session'[i] \in open' => LinkOf(i)' = "open"
  BY <1>c DEF LinkOf
<1>3. session'[i] # NoConn /\ session'[i] \notin open' => LinkOf(i)' = "ended"
  BY DEF LinkOf
<1> QED
  BY <1>1, <1>2, <1>3, LinkSet

\* Main leaves RecoverSessions when it is done.
LEMMA MainStays ==
    ASSUME SupTypeInv, OpInv, [Next]_vars, pc[Main] \in RecoverPCs, ~RecoverDone, ~DaemonExit, ~Boot
    PROVE  pc'[Main] \in RecoverPCs
<1> USE DEF instVars, connVars, localVars, bootVars
<1>m. Main \in Callers /\ "idle" \notin RecoverPCs /\ "autostart" \notin RecoverPCs
  BY SupervisorConstants DEF RecoverPCs
<1>p. HoldPCs \cap RecoverPCs = {}
  BY DEF HoldPCs, StartPCs, StopPCs, WorkPCs, RecoverPCs
<1>g. ASSUME NEW t \in Callers, pc[t] \notin RecoverPCs, NEW label, Goto(t, label)
      PROVE  pc'[Main] \in RecoverPCs
  BY <1>g, <1>m DEF Goto, SupTypeInv, LocalTypes
<1>e. ASSUME NEW t \in Callers, pc[t] \notin RecoverPCs, EndOp(t)
      PROVE  pc'[Main] \in RecoverPCs
  BY <1>e, <1>m DEF EndOp, SupTypeInv, LocalTypes
<1>1. ASSUME NEW t \in Callers, NEW i \in Instances, NEW j \in AllJobs,
             BeginLifecycle(t, i, j) \/ BeginMutation(t, i, j) \/ BeginDeploy(t, i)
      PROVE  pc'[Main] \in RecoverPCs
  BY <1>1, <1>m DEF BeginLifecycle, BeginMutation, BeginDeploy, Acquire, Goto, Idle, SupTypeInv, LocalTypes
<1>2. CASE \/ \E targets \in SUBSET Instances \ {{}} : ReserveDeployment(targets)
           \/ \E i \in Instances : ReleaseDeployment(i) \/ RestartWindow(i) \/ DetachSession(i)
           \/ \E c \in Conns : ConsumeExit(c) \/ LoseLink(c) \/ WaitSession(c)
           \/ BeginShutdown \/ SessiondStep \/ UNCHANGED vars
  BY <1>2 DEF ReserveDeployment, ReleaseDeployment, RestartWindow, DetachSession, ConsumeExit,
     LoseLink, WaitSession, BeginShutdown, SessiondStep, vars
<1>3. ASSUME NEW t \in Callers, StartStep(t)
      PROVE  pc'[Main] \in RecoverPCs
  <2>1. EndOp(t) \/ \E label \in StartPCs : Goto(t, label)
    BY <1>3 DEF StartStep, StartCheck, HookDone, StartFails, FailStart, Inspect, AttachExisting,
       AttachExistingFails, CreateSession, SessionCreated, SessionNotCreated, AttachNew, AttachNewFails,
       StartBinds, Dial, StartPCs
  <2>2. pc[t] \in HoldPCs
    BY <1>3 DEF StartStep, StartCheck, HookDone, StartFails, Inspect, AttachExisting,
       AttachExistingFails, CreateSession, SessionCreated, SessionNotCreated, AttachNew, AttachNewFails,
       StartBinds, HoldPCs, StartPCs
  <2> QED
    BY <1>e, <1>g, <1>p, <2>1, <2>2
<1>4. ASSUME NEW t \in Callers, StopStep(t) \/ WorkStep(t)
      PROVE  pc'[Main] \in RecoverPCs
  <2>1. EndOp(t) \/ \E label \in {"start", "deploy", "waitStop", "killWait", "applying"} : Goto(t, label)
    BY <1>4 DEF StopStep, StopNothing, StopBegins, StopDone, StopTimeout, KillTimeout, AfterStop, WorkStep,
       DeployMarks, DeployApplied, MutationEnds
  <2>2. pc[t] \in HoldPCs
    BY <1>4 DEF StopStep, StopNothing, StopBegins, StopDone, StopTimeout, KillTimeout, WorkStep,
       DeployMarks, DeployApplied, MutationEnds, HoldPCs, StopPCs, WorkPCs
  <2> QED
    BY <1>e, <1>g, <1>p, <2>1, <2>2
<1>5. CASE RecoverList \/ RecoverBind \/ \E h \in Hosts : RecoverAttach(h)
  BY <1>5, <1>m DEF RecoverList, RecoverBind, RecoverAttach, Dial, Goto, RecoverPCs, SupTypeInv, LocalTypes
<1>6. CASE BootDone \/ \E i \in Instances : StartAutoNext(i)
  BY <1>6, <1>m DEF BootDone, StartAutoNext
<1>7. CASE Begin
  BY ONLY <1>1, <1>7 DEF Begin, AllJobs
<1>8. CASE BootStep
  BY ONLY ~RecoverDone, <1>5, <1>6, <1>8 DEF BootStep
<1>9. ASSUME NEW t \in Callers, NEW i \in Instances, AutoRestartFires(t, i)
      PROVE  pc'[Main] \in RecoverPCs
  BY <1>9, <1>m DEF AutoRestartFires, Acquire, Goto, Idle, SupTypeInv, LocalTypes
<1> QED
  BY ONLY [Next]_vars, ~DaemonExit, ~Boot, <1>2, <1>3, <1>4, <1>7, <1>8, <1>9 DEF Next

LEMMA PhaseStays ==
    ASSUME SupTypeInv, OpInv, [Next]_vars, ~RecoverDone, ~DaemonExit, ~Boot, ~BeginShutdown
    PROVE  UNCHANGED PhaseNow
BY DaemonMoves, MainMoves, MainStays, PhaseKept


\* What the steps below rely on, and what the goroutine of an operation knows.
LifeFacts == SupTypeInv /\ OpInv /\ ConnInv /\ StopInv /\ ConsumerInv /\ LifeInv

LEMMA LifeHolder ==
    ASSUME LifeFacts, NEW t \in Callers, pc[t] \in HoldPCs
    PROVE  /\ target[t] \in Instances
           /\ op[target[t]] # Free
           /\ Fits(pc[t], state[target[t]])
           /\ pc[t] \in ReadyPCs => LinkMap[target[t]] # "open"
<1>1. target[t] \in Instances /\ op[target[t]] = t
  BY DEF LifeFacts, SupTypeInv, HoldsInstance, OpInv, LockDiscipline
<1>2. pc[t] \in ReadyPCs => session[target[t]] \notin open
  BY DEF LifeFacts, ConsumerInv, ReadyIsClosed
<1> QED
  BY <1>1, <1>2, LinkIs, SupervisorConstants DEF LifeFacts, LifeInv, ShowInv

\* An operation that ends and leaves what is shown and the link alone.
LEMMA LifeLeaves ==
    ASSUME LifeFacts, NEW t \in Callers, pc[t] \in HoldPCs \ (StartingPCs \cup {"applying"}),
           EndOp(t), UNCHANGED <<state, PhaseNow, LinkMap>>
    PROVE  LifeStep
<1>1. op[target[t]] # Free /\ target[t] \in Instances /\ state[target[t]] \notin Passing
  BY LifeHolder DEF Fits
<1>2. op' = [op EXCEPT ![target[t]] = Free]
  BY DEF EndOp
<1> QED
  BY <1>1, <1>2, LifeReleases

\* startLocked.
LEMMA LifeStarts ==
    ASSUME LifeFacts, NEW t \in Callers, StartStep(t), UNCHANGED PhaseNow
    PROVE  LifeStep
<1> USE DEF instVars, connVars, localVars, bootVars
<1>p. /\ StartingPCs = {"inspect", "attach", "create", "await", "attachNew", "bind"}
      /\ StartPCs = StartingPCs \cup {"start", "hook"}
      /\ StartPCs \subseteq HoldPCs
      /\ StartPCs \ {"start"} \subseteq ReadyPCs
  BY DEF StartingPCs, HoldPCs, StartPCs, ReadyPCs, StartedPCs
<1>l. UNCHANGED <<session, open>> => UNCHANGED LinkMap
  BY LinksKept
<1>h. pc[t] \in StartPCs
  BY <1>p DEF StartStep, StartCheck, HookDone, StartFails, Inspect, AttachExisting, AttachExistingFails,
     CreateSession, SessionCreated, SessionNotCreated, AttachNew, AttachNewFails, StartBinds
<1>i. /\ target[t] \in Instances
      /\ op[target[t]] # Free
      /\ pc[t] # "start" => LinkMap[target[t]] # "open"
      /\ pc[t] = "hook" => state[target[t]] \in {"stopped", "failed"}
      /\ pc[t] \in StartingPCs => state[target[t]] \in {"starting", "stopped", "failed"}
  BY <1>p, <1>h, LifeHolder DEF Fits
<1>1. CASE StartCheck(t)
  <2>1. UNCHANGED <<state, LinkMap>> /\ (EndOp(t) \/ UNCHANGED op) /\ pc[t] = "start"
    BY <1>1, <1>l DEF StartCheck
  <2>2. pc[t] \in HoldPCs \ (StartingPCs \cup {"applying"})
    BY <1>p, <2>1
  <2> QED
    BY <2>1, <2>2, LifeLeaves, LifeFrame
<1>2. CASE HookDone(t)
  <2>1. state' = [state EXCEPT ![target[t]] = "starting"] /\ UNCHANGED <<op, LinkMap>> /\ pc[t] = "hook"
    BY <1>2, <1>l DEF HookDone
  <2> QED
    BY <1>i, <2>1, LifeHolds
<1>3. CASE StartFails(t) \/ SessionNotCreated(t) \/ AttachNewFails(t)
  <2>1. /\ pc[t] \in StartingPCs \cup {"hook"}
        /\ FailStart(t)
        /\ UNCHANGED <<session, open>>
    BY <1>3, <1>p DEF StartFails, SessionNotCreated, AttachNewFails, FailStart
  <2>2. /\ state' = [state EXCEPT ![target[t]] = "failed"]
        /\ op' = [op EXCEPT ![target[t]] = Free]
        /\ UNCHANGED LinkMap
    BY <1>l, <2>1 DEF FailStart, EndOp
  <2>3. LinkMap[target[t]] # "open" /\ state[target[t]] \in {"starting", "stopped", "failed"}
    BY <1>i, <1>p, <2>1
  <2> QED
    BY <1>i, <2>2, <2>3, LifeHolds
<1>4. CASE Inspect(t) \/ AttachExistingFails(t) \/ CreateSession(t) \/ SessionCreated(t)
  BY <1>4, <1>l, LifeFrame DEF Inspect, AttachExistingFails, CreateSession, SessionCreated
<1>5. CASE AttachExisting(t) \/ AttachNew(t)
  <2>1. PICK c \in Conns : Dialled(t, target[t], c)
    BY <1>5, <1>i, Dials DEF AttachExisting, AttachNew, LifeFacts
  <2>2. UNCHANGED session /\ \A i \in Instances : session[i] \in open' <=> session[i] \in open
    BY <2>1 DEF Dialled, FreeConn
  <2>3. UNCHANGED <<op, state>>
    BY <1>5 DEF AttachExisting, AttachNew
  <2> QED
    BY <2>2, <2>3, LinksKept, LifeFrame
<1>6. CASE StartBinds(t)
  <2>1. /\ pc[t] = "bind"
        /\ session' = [session EXCEPT ![target[t]] = conn[t]]
        /\ state' = [state EXCEPT ![target[t]] = "running"]
        /\ op' = [op EXCEPT ![target[t]] = Free]
        /\ UNCHANGED open
    BY <1>6 DEF StartBinds, BindSession, EndOp
  <2>2. conn[t] \in open
    BY <2>1 DEF LifeFacts, LifeInv, BindIsOpen, BindPCs
  <2>3. /\ session'[target[t]] \in open' /\ open' \subseteq Conns
        /\ \A k \in Instances \ {target[t]} : session'[k] = session[k]
    BY <1>i, <2>1, <2>2 DEF LifeFacts, SupTypeInv, InstTypes, ConnTypes
  <2>4. LinkMap' = [LinkMap EXCEPT ![target[t]] = "open"]
    BY <1>i, <2>1, <2>3, LinkBecomes
  <2>5. LinkMap[target[t]] # "open" /\ state[target[t]] \in {"starting", "stopped", "failed"}
    BY <1>i, <1>p, <2>1
  <2> QED
    BY <1>i, <2>1, <2>4, <2>5, LifeRuns
<1> QED
  BY ONLY StartStep(t), <1>1, <1>2, <1>3, <1>4, <1>5, <1>6 DEF StartStep

\* stopLocked, forceKillAndWait.
LEMMA LifeStops ==
    ASSUME LifeFacts, NEW t \in Callers, StopStep(t), UNCHANGED PhaseNow
    PROVE  LifeStep
<1> USE DEF instVars, connVars, localVars, bootVars
<1>l. UNCHANGED LinkMap
  <2>1. UNCHANGED <<session, open>>
    BY DEF StopStep, StopNothing, StopBegins, StopDone, StopTimeout, KillTimeout
  <2> QED
    BY <2>1, LinksKept
<1>p. pc[t] \in {"stop", "waitStop", "killWait"}
  BY DEF StopStep, StopNothing, StopBegins, StopDone, StopTimeout, KillTimeout
<1>h. pc[t] \in HoldPCs \ (StartingPCs \cup {"applying"})
  BY <1>p DEF HoldPCs, StopPCs, StartingPCs, StartPCs
<1>i. target[t] \in Instances /\ op[target[t]] # Free /\ state[target[t]] \notin Passing
  BY <1>h, LifeHolder DEF Fits
<1>s. (session[target[t]] = NoConn <=> LinkMap[target[t]] = "none")
  BY <1>i, LinkIs DEF LifeFacts
<1>1. CASE StopNothing(t)
  <2>1. /\ session[target[t]] = NoConn
        /\ state' = [state EXCEPT ![target[t]] = "stopped"]
        /\ op' = [op EXCEPT ![target[t]] = Free] \/ UNCHANGED op
    BY <1>1 DEF StopNothing, AfterStop, EndOp
  <2> QED
    BY <1>i, <1>l, <1>s, <2>1, LifeHolds
<1>2. CASE StopBegins(t)
  <2>1. /\ session[target[t]] # NoConn
        /\ state' = [state EXCEPT ![target[t]] = "stopping"]
        /\ UNCHANGED op
    BY <1>2 DEF StopBegins
  <2> QED
    BY <1>i, <1>l, <1>s, <2>1, LifeHolds
<1>3. CASE StopDone(t) \/ StopTimeout(t) \/ KillTimeout(t)
  <2>1. UNCHANGED state /\ (EndOp(t) \/ UNCHANGED op)
    BY <1>3 DEF StopDone, AfterStop, StopTimeout, KillTimeout
  <2> QED
    BY <1>h, <1>l, <2>1, LifeLeaves, LifeFrame
<1> QED
  BY ONLY StopStep(t), <1>1, <1>2, <1>3 DEF StopStep

\* DeployInstance after the stop, and the file mutations.
LEMMA LifeWorks ==
    ASSUME LifeFacts, NEW t \in Callers, WorkStep(t), UNCHANGED PhaseNow
    PROVE  LifeStep
<1> USE DEF instVars, connVars, localVars, bootVars
<1>l. UNCHANGED LinkMap
  <2>1. UNCHANGED <<session, open>>
    BY DEF WorkStep, DeployMarks, DeployApplied, MutationEnds
  <2> QED
    BY <2>1, LinksKept
<1>h. pc[t] \in WorkPCs /\ WorkPCs \subseteq HoldPCs /\ WorkPCs \cap StartingPCs = {}
  BY DEF WorkStep, DeployMarks, DeployApplied, MutationEnds, HoldPCs, WorkPCs, StartingPCs, StartPCs
<1>i. /\ target[t] \in Instances
      /\ op[target[t]] # Free
      /\ pc[t] \in {"deploy", "applying"} => LinkMap[target[t]] # "open"
      /\ pc[t] = "applying" => state[target[t]] \in {"deploying", "stopped", "failed"}
      /\ pc[t] # "applying" => state[target[t]] \notin Passing
  BY <1>h, LifeHolder DEF Fits, ReadyPCs, StartedPCs
<1>1. CASE DeployMarks(t)
  <2>1. pc[t] = "deploy" /\ state' = [state EXCEPT ![target[t]] = "deploying"] /\ UNCHANGED op
    BY <1>1 DEF DeployMarks
  <2> QED
    BY <1>i, <1>l, <2>1, LifeHolds
<1>2. CASE DeployApplied(t)
  <2>1. pc[t] = "applying" /\ (op' = [op EXCEPT ![target[t]] = Free] \/ UNCHANGED op)
    BY <1>2 DEF DeployApplied, EndOp
  <2>2. PICK s \in {"stopped", "failed"} : state' = [state EXCEPT ![target[t]] = s]
    BY <1>2 DEF DeployApplied
  <2> QED
    BY <1>i, <1>l, <2>1, <2>2, LifeHolds
<1>3. CASE MutationEnds(t)
  BY <1>3, <1>h, <1>l, LifeLeaves DEF MutationEnds
<1> QED
  BY ONLY WorkStep(t), <1>1, <1>2, <1>3 DEF WorkStep


\* An operation begins: Start and its siblings, a fired timer, StartAuto.
LEMMA LifeBegins ==
    ASSUME LifeFacts, NEW t \in Callers, NEW i \in Instances, op[i] = Free, op' = [op EXCEPT ![i] = t],
           pc[t] \notin HoldPCs, pc[Main] \notin RecoverPCs, daemon # "down",
           UNCHANGED <<state, session, open, PhaseNow>>
    PROVE  LifeStep
<1>1. PhaseNow \in {"serves", "closes"}
  BY PhaseIs DEF LifeFacts, LifeInv, SupTypeInv, BootTypes
<1>2. \A k \in Instances : op[k] # t
  BY DEF LifeFacts, OpInv, LockDiscipline
<1>3. UNCHANGED LinkMap
  BY LinksKept
<1> QED
  BY <1>1, <1>2, <1>3, LifeTakes

\* consumeSession, waitSession, Shutdown.
LEMMA LifeConnEnds ==
    ASSUME LifeFacts, NEW c \in Conns, ConsumeExit(c) \/ LoseLink(c), UNCHANGED PhaseNow
    PROVE  LifeStep
<1> DEFINE i == connInst[c]
<1>1. c \in open \cap waiting /\ open' = open \ {c} /\ UNCHANGED <<op, state, session>>
  BY DEF ConsumeExit, LoseLink, CloseConn, instVars
<1>2. i \in Instances /\ session[i] = c
  BY <1>1 DEF LifeFacts, ConsumerInv, OpenIsSession
<1>3. \A k \in Instances \ {i} : session[k] # c
  BY SupervisorConstants DEF LifeFacts, ConnInv, SessionTracked
<1>4. LinkMap[i] = "open"
  BY <1>1, <1>2, LinkIs DEF LifeFacts
<1>5. open' \subseteq Conns /\ session'[i] # NoConn /\ session'[i] \notin open'
  BY <1>1, <1>2, SupervisorConstants DEF LifeFacts, SupTypeInv, ConnTypes
<1>6. LinkMap' = [LinkMap EXCEPT ![i] = "ended"]
  BY <1>1, <1>2, <1>3, <1>5, LinkBecomes
<1> QED
  BY <1>1, <1>2, <1>4, <1>6, LifeEnds

LEMMA LifeNotes ==
    ASSUME LifeFacts, NEW c \in Conns, WaitSession(c), UNCHANGED PhaseNow
    PROVE  LifeStep
<1> DEFINE i == connInst[c]
<1>1. c \in done /\ c \notin open /\ UNCHANGED <<op, open>>
  BY DEF WaitSession, bootVars, LifeFacts, ConsumerInv, OpenNotDone
<1>2. CASE i \in Instances /\ session[i] = c /\ c \notin detached
  <2>1. /\ session' = [session EXCEPT ![i] = NoConn]
        /\ state' = [state EXCEPT ![i] = IF expectedExit[i] THEN "stopped" ELSE "failed"]
    BY <1>2 DEF WaitSession
  <2>2. /\ session'[i] = NoConn
        /\ \A k \in Instances \ {i} : session'[k] = session[k]
        /\ open' \subseteq Conns
    BY <1>1, <1>2, <2>1 DEF LifeFacts, SupTypeInv, InstTypes, ConnTypes
  <2>3. LinkMap[i] = "ended" /\ LinkMap' = [LinkMap EXCEPT ![i] = "none"]
    BY <1>1, <1>2, <2>2, LinkBecomes, LinkIs, SupervisorConstants DEF LifeFacts
  <2>4. state[i] = "stopping" => expectedExit[i]
    BY <1>2, SupervisorConstants DEF LifeFacts, StopInv, StoppingExpectsExit
  <2>5. \E s \in {"stopped", "failed"} :
          (state[i] = "stopping" => s = "stopped") /\ state' = [state EXCEPT ![i] = s]
    BY <2>1, <2>4
  <2> QED
    BY <1>1, <1>2, <2>3, <2>5, LifeEnds
<1>3. CASE ~(session[i] = c /\ c \notin detached)
  <2>1. UNCHANGED <<session, state>>
    BY <1>3 DEF WaitSession
  <2> QED
    BY <1>1, <2>1, LinksKept, LifeFrame
<1>4. CASE i \notin Instances
  <2>1. UNCHANGED <<session, state>>
    BY <1>4 DEF WaitSession, LifeFacts, SupTypeInv, InstTypes
  <2> QED
    BY <1>1, <2>1, LinksKept, LifeFrame
<1> QED
  BY <1>2, <1>3, <1>4

LEMMA LifeDetaches ==
    ASSUME LifeFacts, NEW i \in Instances, DetachSession(i), UNCHANGED PhaseNow
    PROVE  LifeStep
<1>1. /\ daemon = "closing" /\ session[i] # NoConn
      /\ session' = [session EXCEPT ![i] = NoConn]
      /\ open' = open \ {session[i]}
      /\ UNCHANGED <<op, state>>
  BY DEF DetachSession, CloseConn
<1>2. /\ session'[i] = NoConn /\ open' \subseteq Conns
      /\ \A k \in Instances \ {i} : session'[k] = session[k]
  BY <1>1 DEF LifeFacts, SupTypeInv, InstTypes, ConnTypes
<1>3. \A k \in Instances \ {i} : session[k] \in open => session[k] # session[i]
  BY <1>1, SupervisorConstants DEF LifeFacts, ConnInv, SessionTracked, SupTypeInv, ConnTypes
<1>4. LinkMap' = [LinkMap EXCEPT ![i] = "none"]
  BY <1>1, <1>2, <1>3, LinkBecomes
<1>5. PhaseNow = "closes" /\ LinkMap[i] # "none"
  BY <1>1, PhaseIs, LinkIs DEF LifeFacts, LifeInv
<1> QED
  BY <1>1, <1>4, <1>5, LifeEnds

\* RecoverSessions takes over what nobody works on and nothing shows.
LEMMA LifeRecovers ==
    ASSUME QuietBoot, LifeFacts, RecoverBind, UNCHANGED PhaseNow
    PROVE  LifeStep
<1> DEFINE i == target[Main]
<1>m. Main \in Callers
  BY SupervisorConstants
<1>1. /\ pc[Main] = "recoverBind" /\ pc[Main] \in RecoverPCs
      /\ session' = [session EXCEPT ![i] = conn[Main]]
      /\ state' = [state EXCEPT ![i] = "running"]
      /\ UNCHANGED <<op, open>>
  BY DEF RecoverBind, BindSession, RecoverPCs
<1>2. i \in Instances /\ session[i] = NoConn
  BY <1>1 DEF LifeFacts, ConsumerInv, RecoverFree
<1>3. op[i] = Free
  <2>1. \A t \in Callers : pc[t] \notin HoldPCs
    BY <1>1, <1>m DEF LifeFacts, OpInv, QuietRecovery, HoldPCs, StartPCs, StopPCs, WorkPCs
  <2> QED
    BY <1>2, <2>1 DEF LifeFacts, OpInv, LockDiscipline, SupTypeInv, InstTypes
<1>4. PhaseNow = "recovers" /\ daemon = "up"
  BY <1>1, PhaseIs DEF LifeFacts, LifeInv, RecoverIsUp
<1>5. state[i] \in {"stopped", "failed"}
  <2>1. state[i] \in States /\ state[i] # "stopping" /\ state[i] # "running" /\ state[i] \notin Passing
    BY <1>1, <1>2, <1>3, <1>4 DEF LifeFacts, SupTypeInv, InstTypes, StopInv, RecoverFindsNoStop, ConnInv,
       RunningHasSession, LifeInv, ShowInv
  <2> QED
    BY <2>1 DEF States, Passing
<1>6. conn[Main] \in open
  BY <1>1, <1>m DEF LifeFacts, LifeInv, BindIsOpen, BindPCs
<1>7. /\ session'[i] \in open' /\ open' \subseteq Conns
      /\ \A k \in Instances \ {i} : session'[k] = session[k]
  BY <1>1, <1>2, <1>6 DEF LifeFacts, SupTypeInv, InstTypes, ConnTypes
<1>8. LinkMap' = [LinkMap EXCEPT ![i] = "open"]
  BY <1>1, <1>2, <1>7, LinkBecomes
<1>9. LinkMap[i] = "none"
  BY <1>2, LinkIs DEF LifeFacts
<1> QED
  BY <1>1, <1>2, <1>3, <1>4, <1>5, <1>8, <1>9, LifeEnds

\* The daemon comes up, serves, closes and goes down.
LEMMA LifeOfDaemon ==
    ASSUME LifeFacts, Boot \/ RecoverDone \/ BeginShutdown \/ DaemonExit
    PROVE  LifeStep
<1> USE DEF instVars, connVars, localVars, bootVars
<1>m. Main \in Callers /\ pc \in [Callers -> PCs]
  BY SupervisorConstants DEF LifeFacts, SupTypeInv, LocalTypes
<1>i. SupTypeInv /\ OpInv /\ RecoverIsUp
  BY DEF LifeFacts, LifeInv
<1>1. CASE Boot \/ RecoverDone \/ BeginShutdown
  <2>1. UNCHANGED <<op, state, session, open>>
    BY <1>1 DEF Boot, RecoverDone, BeginShutdown
  <2>2. UNCHANGED LinkMap
    BY <2>1, LinksKept
  <2>3. CASE Boot
    <3>1. daemon = "down" /\ daemon' = "up" /\ pc'[Main] \in RecoverPCs
      BY <1>m, <2>3 DEF Boot, Goto, RecoverPCs
    <3>2. PhaseNow = "down" /\ PhaseNow' = "recovers"
      BY <1>i, <3>1, PhaseIs, PhaseBecomes
    <3> QED
      BY <2>1, <2>2, <3>2, LifePhases
  <2>4. CASE RecoverDone
    <3>1. pc[Main] \in RecoverPCs /\ UNCHANGED daemon /\ pc'[Main] \notin RecoverPCs
      BY <1>m, <2>4 DEF RecoverDone, Goto, RecoverPCs
    <3>2. PhaseNow = "recovers" /\ PhaseNow' = "serves"
      BY <1>i, <3>1, PhaseIs, PhaseBecomes DEF RecoverIsUp
    <3> QED
      BY <2>1, <2>2, <3>2, LifePhases
  <2>5. CASE BeginShutdown
    <3>1. /\ daemon = "up" /\ pc[Main] \notin RecoverPCs
          /\ daemon' = "closing" /\ pc'[Main] \notin RecoverPCs
      BY <2>5 DEF BeginShutdown, RecoverPCs
    <3>2. PhaseNow = "serves" /\ PhaseNow' = "closes"
      BY <1>i, <3>1, PhaseIs, PhaseBecomes
    <3> QED
      BY <2>1, <2>2, <3>2, LifePhases
  <2> QED
    BY <1>1, <2>3, <2>4, <2>5
<1>2. CASE DaemonExit
  <2>1. /\ daemon # "down" /\ daemon' = "down" /\ pc'[Main] \notin RecoverPCs
        /\ op' = [i \in Instances |-> Free]
        /\ state' = [i \in Instances |-> "stopped"]
        /\ \A i \in Instances : session'[i] = NoConn
        /\ open' = {}
    BY <1>2, <1>m DEF DaemonExit, RecoverPCs
  <2>2. PhaseNow # "down" /\ PhaseNow' = "down"
    BY <1>i, <2>1, PhaseIs, PhaseBecomes DEF SupTypeInv, BootTypes
  <2>3. \A i \in Instances : LinkOf(i)' = "none"
    BY <2>1 DEF LinkOf
  <2>4. LinkMap' = [i \in Instances |-> "none"]
    BY <2>3 DEF LinkMap
  <2>5. Life!Exit
    BY <2>1, <2>2, <2>4 DEF Life!Exit, Life!LifeInit, PhaseNow, LinkMap, LinkOf
  <2> QED
    BY ONLY <2>5 DEF LifeStep, Life!LifeNext
<1> QED
  BY <1>1, <1>2

LEMMA LifeStarted == Init => Life!LifeInit
<1> SUFFICES ASSUME Init PROVE Life!LifeInit
  OBVIOUS
<1>1. /\ daemon = "down" /\ pc[Main] \notin RecoverPCs
      /\ op = [i \in Instances |-> Free]
      /\ state = [i \in Instances |-> "stopped"]
      /\ \A i \in Instances : session[i] = NoConn
      /\ open = {}
  BY SupervisorConstants DEF Init, RecoverPCs
<1>2. PhaseNow = "down"
  BY <1>1 DEF PhaseNow
<1>3. \A i \in Instances : LinkOf(i) = "none"
  BY <1>1 DEF LinkOf
<1>4. LinkMap = [i \in Instances |-> "none"]
  BY <1>3 DEF LinkMap
<1> QED
  BY <1>1, <1>2, <1>4 DEF Life!LifeInit, PhaseNow, LinkMap, LinkOf

LEMMA LifeEveryStep ==
    ASSUME QuietBoot, LifeFacts, [Next]_vars
    PROVE  LifeStep
<1> USE DEF instVars, connVars, localVars, bootVars
<1>1. CASE Boot \/ RecoverDone \/ BeginShutdown \/ DaemonExit
  BY <1>1, LifeOfDaemon
<1>2. CASE ~(Boot \/ RecoverDone \/ BeginShutdown \/ DaemonExit)
  <2>p. UNCHANGED PhaseNow
    BY <1>2, PhaseStays DEF LifeFacts
  <2>h. {"idle", "autostart"} \cap HoldPCs = {} /\ "autostart" \notin RecoverPCs
    BY DEF HoldPCs, StartPCs, StopPCs, WorkPCs, RecoverPCs
  <2>f. UNCHANGED <<op, state, session, open>> => LifeStep
    BY <2>p, LinksKept, LifeFrame
  <2>1. ASSUME NEW t \in Callers, NEW i \in Instances, NEW j \in AllJobs,
               BeginLifecycle(t, i, j) \/ BeginMutation(t, i, j) \/ BeginDeploy(t, i)
        PROVE  LifeStep
    BY <2>1, <2>p, <2>h, LifeBegins DEF BeginLifecycle, BeginMutation, BeginDeploy, Idle, Acquire
  <2>2. ASSUME NEW t \in Callers, NEW i \in Instances, AutoRestartFires(t, i)
        PROVE  LifeStep
    BY <2>2, <2>f, <2>p, <2>h, LifeBegins DEF AutoRestartFires, Idle, Acquire
  <2>3. ASSUME NEW t \in Callers, StartStep(t) \/ StopStep(t) \/ WorkStep(t)
        PROVE  LifeStep
    BY <2>3, <2>p, LifeStarts, LifeStops, LifeWorks
  <2>4. ASSUME NEW c \in Conns, ConsumeExit(c) \/ LoseLink(c) \/ WaitSession(c)
        PROVE  LifeStep
    BY <2>4, <2>p, LifeConnEnds, LifeNotes
  <2>5. ASSUME NEW i \in Instances, DetachSession(i)
        PROVE  LifeStep
    BY <2>5, <2>p, LifeDetaches
  <2>6. CASE \/ \E targets \in SUBSET Instances \ {{}} : ReserveDeployment(targets)
             \/ \E i \in Instances : ReleaseDeployment(i) \/ RestartWindow(i)
             \/ SessiondStep \/ RecoverList \/ BootDone \/ UNCHANGED vars
    BY <2>6, <2>f DEF ReserveDeployment, ReleaseDeployment, RestartWindow, SessiondStep, RecoverList,
       BootDone, vars
  <2>7. ASSUME NEW h \in Hosts, RecoverAttach(h)
        PROVE  LifeStep
    <3>1. UNCHANGED <<op, state, session>>
      BY <2>7 DEF RecoverAttach
    <3>2. \A i \in Instances : session[i] \in open' <=> session[i] \in open
      BY <2>7 DEF RecoverAttach, Dial, FreeConn
    <3> QED
      BY <2>p, <3>1, <3>2, LinksKept, LifeFrame
  <2>8. CASE RecoverBind
    BY <2>8, <2>p, LifeRecovers
  <2>9. ASSUME NEW i \in Instances, StartAutoNext(i)
        PROVE  LifeStep
    <3>1. Main \in Callers /\ pc[Main] = "autostart" /\ daemon # "down"
      BY <2>9, SupervisorConstants DEF StartAutoNext, LifeFacts, OpInv, DownIsIdle
    <3>2. UNCHANGED <<state, session, open>>
      BY <2>9 DEF StartAutoNext
    <3>3. CASE op[i] = Free /\ ~deployLocked[i]
      <4>1. op' = [op EXCEPT ![i] = Main]
        BY <2>9, <3>3 DEF StartAutoNext, Acquire
      <4> QED
        BY <2>h, <2>p, <3>1, <3>2, <3>3, <4>1, LifeBegins
    <3>4. CASE ~(op[i] = Free /\ ~deployLocked[i])
      BY <2>9, <2>f, <3>2, <3>4 DEF StartAutoNext
    <3> QED
      BY <3>3, <3>4
  <2>10. CASE Begin
    BY ONLY <2>1, <2>10 DEF Begin, AllJobs
  <2>11. CASE BootStep
    BY ONLY <1>2, <2>6, <2>7, <2>8, <2>9, <2>11 DEF BootStep
  <2> QED
    BY ONLY [Next]_vars, <1>2, <2>2, <2>3, <2>4, <2>5, <2>6, <2>10, <2>11 DEF Next
<1> QED
  BY <1>1, <1>2

\* Every step of the operations, of the goroutines behind a connection, of prism-sessiond
\* and of the daemon's own life is a step of the life an instance promises or changes
\* nothing of it, for any number of them, of lost links and of exits, as long as no request
\* arrives while RecoverSessions runs (startLocked, stopLocked, DeployInstance, waitSession,
\* RecoverSessions, Shutdown).
THEOREM SupKeepsLifecycle ==
    ASSUME QuietBoot
    PROVE  Spec => KeepsLifecycle
<1>1. Init => Life!LifeInit
  BY LifeStarted
<1>2. SupTypeInv /\ OpInv /\ ConnInv /\ StopInv /\ ConsumerInv /\ LifeInv /\ [Next]_vars
        => [Life!LifeNext]_(Life!lifeVars)
  BY LifeEveryStep DEF LifeFacts, LifeStep
<1> QED
  BY <1>1, <1>2, SupTypeInvariant, OpInvariant, ConnInvariant, StopInvariant, ConsumerInvariant,
     LifeInvariant, PTL DEF Spec, KeepsLifecycle, Life!LifeSpec
=============================================================================
