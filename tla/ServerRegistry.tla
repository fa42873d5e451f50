---------------------------- MODULE ServerRegistry ----------------------------
(***************************************************************************)
(* The servers of a daemon and their instances (daemon/internal/server,    *)
(* daemon/internal/supervisor/manager.go, daemon/internal/store).          *)
(*                                                                         *)
(* A server's configuration is in memory (Service.servers), on disk (one   *)
(* file per server) and, instance by instance, in the supervisor's map.    *)
(* Requests that create, update and delete servers are serialised by the   *)
(* service's mutex; lifecycle operations and deployments only hold the     *)
(* operation mutex of the instances they work on, and keep a pointer to an *)
(* instance that may leave the map meanwhile.  So the instances are        *)
(* objects here: the map gives the generation of the object an instance id *)
(* stands for.                                                             *)
(*                                                                         *)
(* A configuration is its ports, slot by slot.  What starting and stopping *)
(* do beyond the state of an instance is module Supervisor's, and how a    *)
(* deployment replaces directories is module Deployment's.                 *)
(***************************************************************************)
EXTENDS Naturals, FiniteSets, FiniteSetsExt

CONSTANTS
    Servers,     \* server ids
    MaxCount,    \* bound on the instance count of each server
    Mirrors,     \* the servers that can be deployed
    Ports,       \* ports a configuration may name
    DaemonPort,  \* the daemon's own
    Callers,     \* requests that start and stop instances
    Operated,    \* bound on the instances they are about
    NoOne,       \* no holder of an operation mutex
    Leaked,      \* an operation mutex whose holder has returned
    NoPort,      \* the port of an instance that is not in the map
    Gens         \* bound on the objects of an instance id that exist at once

ASSUME RegistryConstants ==
    /\ MaxCount \in [Servers -> Nat \ {0}]
    /\ Mirrors \subseteq Servers
    /\ Gens \subseteq Nat \ {0}
    /\ 1 \in Gens
    /\ NoOne \notin Callers \cup Mirrors \cup {Leaked}
    /\ Leaked \notin Callers \cup Mirrors
    /\ Callers \cap Mirrors = {}
    /\ NoPort \notin Ports

NoConfig == <<>>

Ids        == UNION {{s} \X (1 .. MaxCount[s]) : s \in Servers}
Objs       == {<<i[1], i[2], g>> : i \in Ids, g \in Gens}
Configs(s) == UNION {[1 .. n -> Ports] : n \in 1 .. MaxCount[s]}
ASSUME OperatedIds == Operated \subseteq Ids

States     == {"stopped", "starting", "running", "stopping", "failed", "deploying"}

VARIABLES
    servers,  \* Service.servers
    disk,     \* the files of ServerStore
    inst,     \* Manager.instances: the generation of the object (0: none)
    obj,      \* the fields of every instance object
    call,     \* what a request on an instance is doing, and with which object
    dep,      \* the deployment task of a mirror group
    svc,      \* the request that holds Service.mu
    lost      \* servers whose rollback failed

regVars == <<servers, disk, inst, obj, call, dep, svc, lost>>

Blank   == [port |-> NoPort, managed |-> FALSE, state |-> "stopped", locked |-> FALSE, op |-> NoOne]
NoCall  == [at |-> "idle", o |-> <<>>]
NoTask  == [at |-> "idle", objs |-> {}, todo |-> {}, cur |-> <<>>, was |-> FALSE]
NoWork  == [at |-> "idle", s |-> NoOne, new |-> NoConfig]

RegTypeOK ==
    /\ \A s \in Servers : servers[s] \in Configs(s) \cup {NoConfig}
    /\ \A s \in Servers : disk[s] \in Configs(s) \cup {NoConfig}
    /\ inst \in [Ids -> Gens \cup {0}]
    /\ obj \in [Objs -> [port : Ports \cup {NoPort}, managed : BOOLEAN, state : States,
                         locked : BOOLEAN, op : Callers \cup Mirrors \cup {NoOne, Leaked}]]
    /\ call \in [Callers -> [at : {"idle", "found", "held", "start", "stop"}, o : Objs \cup {<<>>}]]
    /\ dep \in [Mirrors -> [at : {"idle", "locking", "reserved", "work", "release"},
                            objs : SUBSET Objs, todo : SUBSET Objs, cur : Objs \cup {<<>>},
                            was : BOOLEAN]]
    /\ svc.at \in {"idle", "create", "update", "delete"}
    /\ lost \subseteq Servers

\* The instances a daemon starts with (NewManager), and the states that
\* RecoverSessions finds.
LoadedInst(files) == [i \in Ids |-> IF i[2] \in DOMAIN files[i[1]] THEN 1 ELSE 0]

LoadedObj(files, processes) ==
    [o \in Objs |->
        IF o[3] = 1 /\ o[2] \in DOMAIN files[o[1]]
          THEN [Blank EXCEPT !.port = files[o[1]][o[2]], !.managed = TRUE,
                             !.state = IF <<o[1], o[2]>> \in processes THEN "running" ELSE "stopped"]
          ELSE Blank]

RegInit ==
    /\ servers = [s \in Servers |-> NoConfig]
    /\ disk = servers
    /\ inst = LoadedInst(disk)
    /\ obj = LoadedObj(disk, {})
    /\ call = [c \in Callers |-> NoCall]
    /\ dep = [s \in Mirrors |-> NoTask]
    /\ svc = NoWork
    /\ lost = {}

-----------------------------------------------------------------------------
(* Helpers.                                                                *)

Id(o)     == <<o[1], o[2]>>
Listed(o) == inst[Id(o)] = o[3]
Own(s)    == {o \in Objs : o[1] = s /\ Listed(o)}

\* An object nobody points to any more.
Free(o) ==
    /\ ~Listed(o)
    /\ obj[o] = Blank
    /\ \A c \in Callers : call[c].o # o
    /\ \A s \in Mirrors : o \notin dep[s].objs \cup {dep[s].cur}

\* Manager.lookup: the object of an instance id, when it is managed.
Found(i) == {o \in Objs : Id(o) = i /\ Listed(o) /\ obj[o].managed}

\* validateServerLocked: ids and ports differ from those of every instance in
\* the map but the replaced server's, managed or not.
Validates(s, cfg, replacing) ==
    /\ \A k \in DOMAIN cfg : cfg[k] # DaemonPort
    /\ \A o \in Objs : Listed(o) /\ o[1] \notin replacing =>
         /\ ~(o[1] = s /\ o[2] \in DOMAIN cfg)
         /\ \A k \in DOMAIN cfg : obj[o].port # cfg[k]
    /\ \A k, l \in DOMAIN cfg : k # l => cfg[k] # cfg[l]

-----------------------------------------------------------------------------
(* Manager.ApplyServer and Manager.RemoveServer, each under Manager.mu.    *)

\* The generation an instance of s gets when it is not in the map.
NewGen(i) == IF inst[i] # 0 THEN inst[i]
             ELSE Min({g \in Gens : Free(<<i[1], i[2], g>>)})

\* There is room for the new objects (bound Gens).
Room(s, cfg) ==
    \A k \in DOMAIN cfg :
        inst[<<s, k>>] # 0 \/ \E g \in Gens : Free(<<s, k, g>>)

Rewritten(s, cfg, gone) ==
    /\ inst' = [i \in Ids |->
                  IF i[1] # s THEN inst[i]
                  ELSE IF i[2] \in DOMAIN cfg THEN NewGen(i)
                  ELSE IF <<i[1], i[2], inst[i]>> \in gone THEN 0 ELSE inst[i]]
    /\ obj' = [o \in Objs |->
                 IF o[1] # s THEN obj[o]
                 ELSE IF o[2] \in DOMAIN cfg /\ NewGen(Id(o)) = o[3]
                   THEN [obj[o] EXCEPT !.port = cfg[o[2]], !.managed = TRUE]
                 ELSE IF o \in gone THEN [obj[o] EXCEPT !.port = NoPort, !.managed = FALSE]
                 ELSE IF Listed(o) THEN [obj[o] EXCEPT !.managed = FALSE] ELSE obj[o]]

\* Mutant: the operation mutexes are not looked at.
AppliesUnlocked(s, cfg) ==
    /\ Validates(s, cfg, {s})
    /\ Room(s, cfg)
    /\ Rewritten(s, cfg, {o \in Own(s) : o[2] \notin DOMAIN cfg /\ obj[o].state = "stopped"})

\* Mutant: another server's ports are not looked at.
AppliesAnyPort(s, cfg) ==
    /\ Room(s, cfg)
    /\ \A o \in Own(s) : obj[o].op = NoOne /\ ~obj[o].locked
    /\ Rewritten(s, cfg, {o \in Own(s) : o[2] \notin DOMAIN cfg /\ obj[o].state = "stopped"})

\* Every instance of the server is locked for the change.  An instance beyond
\* the new count leaves the map when it is stopped, and is only no longer
\* managed otherwise.
Applies(s, cfg) ==
    /\ Validates(s, cfg, {s})
    /\ Room(s, cfg)
    /\ \A o \in Own(s) : obj[o].op = NoOne /\ ~obj[o].locked
    /\ Rewritten(s, cfg, {o \in Own(s) : o[2] \notin DOMAIN cfg /\ obj[o].state = "stopped"})

\* The instances come in any order.  One of them turns out to be reserved by a
\* deployment after its mutex was taken: the return does not give back that
\* mutex, nor those taken before it.
ApplyLeaks(s, cfg) ==
    /\ Validates(s, cfg, {s})
    /\ \E o \in Own(s) :
         /\ obj[o].locked
         /\ obj[o].op = NoOne
         /\ \E before \in SUBSET {p \in Own(s) : obj[p].op = NoOne /\ ~obj[p].locked} :
              obj' = [p \in Objs |-> IF p \in before \cup {o}
                                       THEN [obj[p] EXCEPT !.op = Leaked] ELSE obj[p]]
    /\ UNCHANGED inst

Removable(s) == \A o \in Own(s) : obj[o].state = "stopped" /\ ~obj[o].locked

\* No operation mutex is taken.
Removes(s) ==
    /\ Removable(s)
    /\ inst' = [i \in Ids |-> IF i[1] = s THEN 0 ELSE inst[i]]
    /\ obj' = [o \in Objs |-> IF o \in Own(s)
                                THEN [obj[o] EXCEPT !.port = NoPort, !.managed = FALSE]
                                ELSE obj[o]]

-----------------------------------------------------------------------------
(* Service.Create, Update and Delete, under Service.mu.                    *)

Create(s, cfg) ==
    /\ svc.at = "idle"
    /\ servers[s] = NoConfig
    /\ Validates(s, cfg, {})
    /\ Applies(s, cfg)
    /\ svc' = [at |-> "create", s |-> s, new |-> cfg]
    /\ UNCHANGED <<servers, disk, call, dep, lost>>

Update(s, cfg) ==
    /\ svc.at = "idle"
    /\ servers[s] # NoConfig
    /\ Applies(s, cfg)
    /\ svc' = [at |-> "update", s |-> s, new |-> cfg]
    /\ UNCHANGED <<servers, disk, call, dep, lost>>

UpdateLeaks(s, cfg) ==
    /\ svc.at = "idle"
    /\ servers[s] # NoConfig
    /\ ApplyLeaks(s, cfg)
    /\ UNCHANGED <<servers, disk, call, dep, svc, lost>>

\* ServerStore.Save, then the map of the service.
Saves ==
    /\ svc.at \in {"create", "update"}
    /\ disk' = [disk EXCEPT ![svc.s] = svc.new]
    /\ servers' = [servers EXCEPT ![svc.s] = svc.new]
    /\ lost' = lost \ {svc.s}
    /\ svc' = NoWork
    /\ UNCHANGED <<inst, obj, call, dep>>

\* The workspace cannot be made, or the file not written: the instances are
\* taken out again, unless one of them is in use by now.
CreateFails ==
    /\ svc.at = "create"
    /\ \/ Removes(svc.s) /\ UNCHANGED lost
       \/ ~Removable(svc.s) /\ lost' = lost \cup {svc.s} /\ UNCHANGED <<inst, obj>>
    /\ svc' = NoWork
    /\ UNCHANGED <<servers, disk, call, dep>>

\* Mutant: a failed save leaves the new configuration applied.
UpdateFailsApplied ==
    /\ svc.at = "update"
    /\ svc' = NoWork
    /\ UNCHANGED <<servers, disk, inst, obj, call, dep, lost>>

\* The file is not written: the old configuration is applied again, unless an
\* instance is in use by now.
UpdateFails ==
    /\ svc.at = "update"
    /\ LET old == servers[svc.s] IN
         \/ Applies(svc.s, old) /\ UNCHANGED lost
         \/ ApplyLeaks(svc.s, old) /\ lost' = lost \cup {svc.s}
         \/ /\ \E o \in Own(svc.s) : obj[o].op # NoOne
            /\ lost' = lost \cup {svc.s}
            /\ UNCHANGED <<inst, obj>>
    /\ svc' = NoWork
    /\ UNCHANGED <<servers, disk, call, dep>>

Delete(s) ==
    /\ svc.at = "idle"
    /\ servers[s] # NoConfig
    /\ Removes(s)
    /\ svc' = [at |-> "delete", s |-> s, new |-> NoConfig]
    /\ UNCHANGED <<servers, disk, call, dep, lost>>

DeleteDone ==
    /\ svc.at = "delete"
    /\ disk' = [disk EXCEPT ![svc.s] = NoConfig]
    /\ servers' = [servers EXCEPT ![svc.s] = NoConfig]
    /\ lost' = lost \ {svc.s}
    /\ svc' = NoWork
    /\ UNCHANGED <<inst, obj, call, dep>>

\* The file cannot be removed.
DeleteFails ==
    /\ svc.at = "delete"
    /\ \/ Applies(svc.s, servers[svc.s]) /\ lost' = lost \ {svc.s}
       \/ /\ ~Validates(svc.s, servers[svc.s], {svc.s})
          /\ lost' = lost \cup {svc.s}
          /\ UNCHANGED <<inst, obj>>
    /\ svc' = NoWork
    /\ UNCHANGED <<servers, disk, call, dep>>

-----------------------------------------------------------------------------
(* Requests that start and stop an instance.                               *)

Lookup(c, i) ==
    /\ call[c].at = "idle"
    /\ \E o \in Found(i) : call' = [call EXCEPT ![c] = [at |-> "found", o |-> o]]
    /\ UNCHANGED <<servers, disk, inst, obj, dep, svc, lost>>

\* op.TryLock; a reserved instance is only found out after it.
TryLock(c) ==
    /\ call[c].at = "found"
    /\ LET o == call[c].o IN
         IF obj[o].op = NoOne
           THEN /\ obj' = [obj EXCEPT ![o].op = c]
                /\ call' = [call EXCEPT ![c].at = "held"]
           ELSE /\ call' = [call EXCEPT ![c] = NoCall]
                /\ UNCHANGED obj
    /\ UNCHANGED <<servers, disk, inst, dep, svc, lost>>

\* Object o gets a state; an object that left the map is of interest only as
\* long as its process runs.
InState(o, state) ==
    IF Listed(o) \/ state = "running" THEN [obj[o] EXCEPT !.op = NoOne, !.state = state]
    ELSE Blank

\* The operation of c ends with its object in a state.
Returns(c, state) ==
    /\ obj' = [obj EXCEPT ![call[c].o] = InState(call[c].o, state)]
    /\ call' = [call EXCEPT ![c] = NoCall]

Refused(c) ==
    /\ call[c].at = "held"
    /\ obj[call[c].o].locked \/ obj[call[c].o].state \notin {"stopped", "running", "failed"}
    /\ Returns(c, obj[call[c].o].state)
    /\ UNCHANGED <<servers, disk, inst, dep, svc, lost>>

Enters(c) ==
    /\ call[c].at = "held"
    /\ LET o == call[c].o
           starts == obj[o].state # "running"
       IN /\ ~obj[o].locked
          /\ obj[o].state \in {"stopped", "running", "failed"}
          /\ obj' = [obj EXCEPT ![o].state = IF starts THEN "starting" ELSE "stopping"]
          /\ call' = [call EXCEPT ![c].at = IF starts THEN "start" ELSE "stop"]
    /\ UNCHANGED <<servers, disk, inst, dep, svc, lost>>

Ends(c) ==
    /\ \/ call[c].at = "start" /\ \E state \in {"running", "failed"} : Returns(c, state)
       \/ call[c].at = "stop" /\ Returns(c, "stopped")
    /\ UNCHANGED <<servers, disk, inst, dep, svc, lost>>

\* The process of an instance exits.
Exit(o) ==
    /\ obj[o].state = "running"
    /\ obj' = [obj EXCEPT ![o] = IF Listed(o) \/ @.op # NoOne THEN [@ EXCEPT !.state = "failed"] ELSE Blank]
    /\ UNCHANGED <<servers, disk, inst, call, dep, svc, lost>>

-----------------------------------------------------------------------------
(* The deployment task of a mirror group.                                  *)

\* Every target is looked up, locked and looked at.
DepReserves(s, slots) ==
    /\ dep[s].at = "idle"
    /\ servers[s] # NoConfig
    /\ slots # {}
    /\ slots \subseteq DOMAIN servers[s]
    /\ LET targets == UNION {Found(<<s, k>>) : k \in slots} IN
         /\ Cardinality(targets) = Cardinality(slots)
         /\ \A o \in targets : /\ obj[o].op = NoOne /\ ~obj[o].locked
                               /\ obj[o].state \in {"stopped", "running", "failed"}
         /\ obj' = [o \in Objs |-> IF o \in targets THEN [obj[o] EXCEPT !.op = s] ELSE obj[o]]
         /\ dep' = [dep EXCEPT ![s].at = "locking", ![s].objs = targets, ![s].todo = targets]
    /\ UNCHANGED <<servers, disk, inst, call, svc, lost>>

\* deploymentLocked is set and the operation mutexes are given back.
DepLocks(s) ==
    /\ dep[s].at = "locking"
    /\ obj' = [o \in Objs |-> IF o \in dep[s].objs
                                THEN [obj[o] EXCEPT !.op = NoOne, !.locked = TRUE] ELSE obj[o]]
    /\ dep' = [dep EXCEPT ![s].at = "reserved"]
    /\ UNCHANGED <<servers, disk, inst, call, svc, lost>>

\* DeployInstance looks the instance up again and takes its mutex.
DepTakes(s, o) ==
    /\ dep[s].at = "reserved"
    /\ \E p \in dep[s].todo :
         /\ o \in Found(Id(p))
         /\ dep' = [dep EXCEPT ![s].at = "work", ![s].todo = @ \ {p}, ![s].cur = o,
                               ![s].was = (obj[o].state = "running")]
    /\ obj[o].op = NoOne
    /\ obj[o].state \in {"stopped", "running", "failed"}
    /\ obj' = [obj EXCEPT ![o].op = s, ![o].state = "deploying"]
    /\ UNCHANGED <<servers, disk, inst, call, svc, lost>>

\* The instance is busy or unknown: the slot failed.
DepSlotFails(s, p) ==
    /\ dep[s].at = "reserved"
    /\ p \in dep[s].todo
    /\ \A o \in Found(Id(p)) :
         obj[o].op # NoOne \/ obj[o].state \in {"starting", "stopping", "deploying"}
    /\ dep' = [dep EXCEPT ![s].todo = @ \ {p}]
    /\ UNCHANGED <<servers, disk, inst, obj, call, svc, lost>>

DepSlotEnds(s) ==
    /\ dep[s].at = "work"
    /\ \E state \in {"stopped", "failed"} \cup (IF dep[s].was THEN {"running"} ELSE {}) :
         obj' = [obj EXCEPT ![dep[s].cur].op = NoOne, ![dep[s].cur].state = state]
    /\ dep' = [dep EXCEPT ![s].at = "reserved", ![s].cur = <<>>, ![s].was = FALSE]
    /\ UNCHANGED <<servers, disk, inst, call, svc, lost>>

\* After the last slot, or when it is cancelled before one.
DepEnds(s) ==
    /\ dep[s].at = "reserved"
    /\ dep' = [dep EXCEPT ![s].at = "release", ![s].todo = {}]
    /\ UNCHANGED <<servers, disk, inst, obj, call, svc, lost>>

\* The reservation is given back under the operation mutex of each instance,
\* which op.Lock waits for.
DepReleases(s) ==
    /\ dep[s].at = "release"
    /\ \E o \in dep[s].objs :
         /\ obj[o].op = NoOne
         /\ obj' = [obj EXCEPT ![o].locked = FALSE]
         /\ dep' = [dep EXCEPT ![s] = IF @.objs = {o} THEN NoTask
                                      ELSE [@ EXCEPT !.objs = dep[s].objs \ {o}]]
    /\ UNCHANGED <<servers, disk, inst, call, svc, lost>>

-----------------------------------------------------------------------------
(* The daemon as a whole.                                                  *)

\* NewManager accepts the configurations it is given.
Loadable(files) ==
    \A s, t \in Servers : \A k \in DOMAIN files[s], l \in DOMAIN files[t] :
        <<s, k>> # <<t, l>> => files[s][k] # files[t][l]

\* The daemon exits and starts again; processes survive, and a start or stop
\* that was under way has or has not had its effect.
Restart ==
    /\ Loadable(disk)
    /\ servers' = disk
    /\ \E unsure \in SUBSET {Id(o) : o \in {p \in Objs : obj[p].state \in {"starting", "stopping"}}} :
         obj' = LoadedObj(disk, unsure \cup {Id(o) : o \in {p \in Objs : obj[p].state = "running"}})
    /\ inst' = LoadedInst(disk)
    /\ call' = [c \in Callers |-> NoCall]
    /\ dep' = [s \in Mirrors |-> NoTask]
    /\ svc' = NoWork
    /\ lost' = {}
    /\ UNCHANGED disk

ServiceStep == Saves \/ CreateFails \/ UpdateFails \/ DeleteDone \/ DeleteFails

CallStep(c) == TryLock(c) \/ Refused(c) \/ Enters(c) \/ Ends(c)

DepStep(s) ==
    \/ DepLocks(s)
    \/ DepSlotEnds(s)
    \/ DepEnds(s)
    \/ DepReleases(s)

RegNext ==
    \/ \E s \in Servers : \E cfg \in Configs(s) : Create(s, cfg) \/ Update(s, cfg) \/ UpdateLeaks(s, cfg)
    \/ \E s \in Servers : Delete(s)
    \/ ServiceStep
    \/ \E c \in Callers, i \in Operated : Lookup(c, i)
    \/ \E c \in Callers : CallStep(c)
    \/ \E o \in Objs : Exit(o)
    \/ \E s \in Mirrors : \E slots \in SUBSET (1 .. MaxCount[s]) : DepReserves(s, slots)
    \/ \E s \in Mirrors, o \in Objs : DepTakes(s, o) \/ DepSlotFails(s, o)
    \/ \E s \in Mirrors : DepStep(s)
    \/ Restart

RegSpec == RegInit /\ [][RegNext]_regVars

\* Requests and tasks run, and what they wait for outside the daemon ends.
RegFairness ==
    /\ WF_regVars(ServiceStep)
    /\ \A c \in Callers : WF_regVars(CallStep(c))
    /\ \A s \in Mirrors : WF_regVars(DepStep(s)) /\ SF_regVars(DepReleases(s))

FairRegSpec == RegSpec /\ RegFairness

-----------------------------------------------------------------------------
(* Properties.                                                             *)

Idle == svc.at = "idle"

\* Between two requests the service and the disk hold the same configurations,
\* whichever write failed and whenever the daemon was restarted (Create,
\* Update, Delete).
MemoryIsDisk == Idle => servers = disk

\* Between two requests the managed instances of a server are those of its
\* configuration, with its ports, unless a rollback failed (ApplyServer and
\* its callers).
RegistryIsConfig ==
    Idle => \A s \in Servers \ lost :
        /\ {o[2] : o \in {p \in Own(s) : obj[p].managed}} = DOMAIN servers[s]
        /\ \A o \in Own(s) : obj[o].managed => obj[o].port = servers[s][o[2]]

\* The types, and what the service, the disk and the supervisor hold between
\* two requests (Create, Update, Delete, ApplyServer).
RegInv == RegTypeOK /\ MemoryIsDisk /\ RegistryIsConfig

\* A daemon that is restarted can load what it saved: two servers never name
\* the same port, unless a rollback failed (validateServerLocked, NewManager).
DaemonRestarts ==
    Loadable([s \in Servers |-> IF s \in lost \cup {svc.s} THEN NoConfig ELSE disk[s]])

\* While an operation or a deployment works with an instance, its
\* configuration does not change under it (the TryLock of ApplyServer and
\* deploymentLockError), unless its server is deleted.
BusyKeepsConfig ==
    [][\A o \in Objs :
        \/ obj[o].op \in {NoOne, Leaked} /\ ~obj[o].locked
        \/ [obj'[o] EXCEPT !.state = "", !.op = NoOne, !.locked = FALSE]
             = [obj[o] EXCEPT !.state = "", !.op = NoOne, !.locked = FALSE]
        \/ Listed(o) /\ ~Listed(o)' /\ svc'.at \in {"delete", "idle"}
        \/ Restart]_regVars

\* An instance that runs stays in the map when its group shrinks, so that it is
\* managed again when the group grows (ApplyServer).
RunningStays ==
    [][\A o \in Objs :
        Listed(o) /\ obj[o].state = "running" => Listed(o)' \/ Restart]_regVars

\* A change of the configuration spares what is at work or runs (ApplyServer).
WorkIsSpared == BusyKeepsConfig /\ RunningStays

\* A deployment ends by releasing the lock of its group
\* (Manager.run, ReserveDeployment).
ReservationReturns == \A s \in Mirrors : dep[s].at = "release" ~> dep[s].at = "idle"
=============================================================================
