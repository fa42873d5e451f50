------------------------------ MODULE Deployment ------------------------------
(***************************************************************************)
(* The deployment tasks of one mirror server group                         *)
(* (daemon/internal/deployment).                                           *)
(*                                                                         *)
(* A task copies the group's image directory into the instance directories *)
(* of its slots, one after the other, or copies one instance back into the *)
(* image.  Each replacement builds a temporary directory, moves the old    *)
(* one aside as a backup, moves the recycle bin over, and renames the      *)
(* temporary one into place.  The request that starts a task, the task's   *)
(* goroutine, the requests that cancel it and file operations on the image *)
(* run concurrently; any file operation may fail, and the daemon may stop  *)
(* between any two of them.                                                *)
(*                                                                         *)
(* A directory is a record of how complete its content is (the task that   *)
(* built it, or "part") and whether it holds the recycle bin.  The         *)
(* operation mutex of an instance is module Supervisor's; here the process *)
(* of an instance runs, with or without a link to the daemon, or it does   *)
(* not, and a reservation keeps other operations out.  What a request or   *)
(* goroutine knew is forgotten when it is gone.                            *)
(***************************************************************************)
EXTENDS Naturals, FiniteSets, FiniteSetsExt

CONSTANTS
    InstanceCount,  \* cfg.InstanceCount
    Tasks,          \* ids of deployment tasks, one per request
    Image,          \* the image directory
    NoTask,
    Mutator,        \* a file operation on the image (WithImageMutation)
    Original,       \* the content a directory has before the first task
    MaxFaults,      \* bound on failing file operations
    MaxCrash        \* bound on daemon exits

Slots  == 1 .. InstanceCount
Places == Slots \cup {Image}

ASSUME DeploymentConstants ==
    /\ InstanceCount \in Nat
    /\ Image \notin Slots
    /\ NoTask \notin Tasks
    /\ Mutator \notin Tasks
    /\ Mutator # NoTask
    /\ Original \notin Tasks
    /\ {"part", "none"} \cap (Tasks \cup {Original}) = {}
    /\ MaxFaults \in Nat
    /\ MaxCrash \in Nat

VARIABLES
    pc,          \* where the request and then the goroutine of a task is
    kind,        \* task.Kind
    todo,        \* targets not begun
    targets,     \* task.Targets
    cur,         \* the slot in work (0: none)
    status,      \* task.Status
    cancelled,   \* tasks whose context is cancelled
    force,       \* task.force
    failed,      \* tasks with Failed > 0
    err,         \* the error apply is about to return
    wasRunning,  \* DeployInstance's local of that name
    active,      \* Manager.active of the group
    readers,     \* tasks holding the image lock for reading
    writer,      \* who holds it for writing
    reserved,    \* the task that set deploymentLocked of an instance
    running,     \* instances whose process runs
    adrift,      \* of those, the ones whose link to the daemon is lost
    live, temp, back,  \* the directory of a place, the .deploy-/.image-sync- and .backup- ones of a task
    rolledBack,  \* places where the second rename of a swap failed
    faults, crashes

taskVars == <<kind, todo, targets, cur, status, cancelled, force, failed, err, wasRunning>>
lockVars == <<active, readers, writer, reserved>>
dirVars  == <<live, temp, back, rolledBack>>
procVars == <<running, adrift>>
depVars  == <<pc, taskVars, lockVars, procVars, dirVars, faults, crashes>>

Kinds    == {"mirror_deploy", "image_sync_back"}
Finished == {"cancelled", "force_stopped", "completed", "completed_with_errors"}
Statuses == {"none", "queued", "running", "cancel_requested", "force_stop_requested"} \cup Finished
FilePCs  == {"mkdir", "copy", "check", "swap", "bin", "enable", "clean", "undo"}
RunPCs   == {"queued", "next", "stop", "restore", "result"} \cup FilePCs
PCs      == {"new", "checked", "reserved", "release", "gone"} \cup RunPCs

\* A directory that does not exist has the content "none".
NoDir    == [data |-> "none", bin |-> FALSE]
Contents == Tasks \cup {Original, "part", "none"}
Dirs     == [data : Contents, bin : BOOLEAN]

DepTypeOK ==
    /\ pc \in [Tasks -> PCs]
    /\ kind \in [Tasks -> Kinds]
    /\ todo \in [Tasks -> SUBSET Slots]
    /\ targets \in [Tasks -> SUBSET Slots]
    /\ cur \in [Tasks -> Slots \cup {0}]
    /\ status \in [Tasks -> Statuses]
    /\ cancelled \subseteq Tasks
    /\ force \subseteq Tasks
    /\ failed \subseteq Tasks
    /\ err \subseteq Tasks
    /\ wasRunning \subseteq Tasks
    /\ active \in Tasks \cup {NoTask}
    /\ readers \subseteq Tasks
    /\ writer \in Tasks \cup {Mutator, NoTask}
    /\ reserved \in [Slots -> Tasks \cup {NoTask}]
    /\ running \subseteq Slots
    /\ adrift \subseteq running
    /\ live \in [Places -> Dirs]
    /\ temp \in [Places \X Tasks -> Dirs]
    /\ back \in [Places \X Tasks -> Dirs]
    /\ rolledBack \subseteq Places
    /\ faults \in Nat
    /\ crashes \in Nat

DepInit ==
    /\ pc = [t \in Tasks |-> "new"]
    /\ kind = [t \in Tasks |-> "mirror_deploy"]
    /\ todo = [t \in Tasks |-> {}]
    /\ targets = [t \in Tasks |-> {}]
    /\ cur = [t \in Tasks |-> 0]
    /\ status = [t \in Tasks |-> "none"]
    /\ cancelled = {}
    /\ force = {}
    /\ failed = {}
    /\ err = {}
    /\ wasRunning = {}
    /\ active = NoTask
    /\ readers = {}
    /\ writer = NoTask
    /\ reserved = [i \in Slots |-> NoTask]
    /\ running \in SUBSET Slots
    /\ adrift = {}
    /\ live = [p \in Places |-> [data |-> Original, bin |-> TRUE]]
    /\ temp = [d \in Places \X Tasks |-> NoDir]
    /\ back = [d \in Places \X Tasks |-> NoDir]
    /\ rolledBack = {}
    /\ faults = 0
    /\ crashes = 0

-----------------------------------------------------------------------------
(* Helpers.                                                                *)

\* The place whose directory t replaces.
Place(t) == IF kind[t] = "image_sync_back" THEN Image ELSE cur[t]

\* The names of t's temporary and backup directory for that place.
Own(t) == <<Place(t), t>>

Goto(t, label) == pc' = [pc EXCEPT ![t] = label]

\* The request or goroutine of every task in ended is over.
Forget(ended) ==
    /\ pc' = [t \in Tasks |-> IF t \in ended THEN "gone" ELSE pc[t]]
    /\ kind' = [t \in Tasks |-> IF t \in ended THEN "mirror_deploy" ELSE kind[t]]
    /\ todo' = [t \in Tasks |-> IF t \in ended THEN {} ELSE todo[t]]
    /\ targets' = [t \in Tasks |-> IF t \in ended THEN {} ELSE targets[t]]
    /\ cur' = [t \in Tasks |-> IF t \in ended THEN 0 ELSE cur[t]]
    /\ cancelled' = cancelled \ ended
    /\ force' = force \ ended
    /\ failed' = failed \ ended
    /\ err' = err \ ended
    /\ wasRunning' = wasRunning \ ended

\* A file operation may fail.
Fault == faults < MaxFaults /\ faults' = faults + 1

\* apply is on its way out with an error; the deferred removal comes next.
Fails(t) ==
    /\ Fault
    /\ Goto(t, "undo")
    /\ UNCHANGED <<taskVars, lockVars, procVars, dirVars, crashes>>

\* A directory some task left beside place p.
Residual(p) == \E t \in Tasks : temp[<<p, t>>] # NoDir \/ back[<<p, t>>] # NoDir

-----------------------------------------------------------------------------
(* Manager.start: the image lock, the prechecks, the reservation, the task.*)

\* Mutant: writing back to the image does not wait for its readers.
LockImageShared(t, k) ==
    IF k = "image_sync_back"
      THEN writer = NoTask /\ writer' = t /\ UNCHANGED readers
      ELSE writer = NoTask /\ readers' = readers \cup {t} /\ UNCHANGED writer

\* imageLock: tried for writing by a sync-back, for reading by a deployment.
LockImage(t, k) ==
    IF k = "image_sync_back"
      THEN readers = {} /\ writer = NoTask /\ writer' = t /\ UNCHANGED readers
      ELSE writer = NoTask /\ readers' = readers \cup {t} /\ UNCHANGED writer

UnlockImage(t) ==
    /\ readers' = readers \ {t}
    /\ writer' = IF writer = t THEN NoTask ELSE writer

\* The image lock is tried, the slots normalised, the image and residual
\* directories looked for.  A request that fails one of them changes nothing.
StartChecks(t, k, slots) ==
    /\ pc[t] = "new"
    /\ LockImage(t, k)
    /\ slots # {}
    /\ slots \subseteq Slots
    /\ live[Image] # NoDir
    /\ \A p \in slots : ~Residual(p)
    /\ k = "image_sync_back" => Cardinality(slots) = 1 /\ ~Residual(Image)
    /\ kind' = [kind EXCEPT ![t] = k]
    /\ targets' = [targets EXCEPT ![t] = slots]
    /\ Goto(t, "checked")
    /\ UNCHANGED <<todo, cur, status, cancelled, force, failed, err, wasRunning,
                   active, reserved, procVars, dirVars, faults, crashes>>

\* The group has an active task, or ReserveDeployment finds an instance busy.
StartRefused(t) ==
    /\ pc[t] = "checked"
    /\ UnlockImage(t)
    /\ Forget({t})
    /\ UNCHANGED <<status, active, reserved, procVars, dirVars, faults, crashes>>

\* The group has no active task; then every instance is reserved, or none.
StartReserves(t) ==
    /\ pc[t] = "checked"
    /\ active = NoTask
    /\ \A i \in targets[t] : reserved[i] = NoTask
    /\ reserved' = [i \in Slots |-> IF i \in targets[t] THEN t ELSE reserved[i]]
    /\ Goto(t, "reserved")
    /\ UNCHANGED <<taskVars, active, readers, writer, procVars, dirVars, faults, crashes>>

\* Under the manager's lock: another task may have become active meanwhile.
StartInserts(t) ==
    /\ pc[t] = "reserved"
    /\ IF active = NoTask
         THEN /\ active' = t
              /\ status' = [status EXCEPT ![t] = "queued"]
              /\ todo' = [todo EXCEPT ![t] = targets[t]]
              /\ Goto(t, "queued")
         ELSE /\ Goto(t, "release")
              /\ UNCHANGED <<active, status, todo>>
    /\ UNCHANGED <<kind, targets, cur, cancelled, force, failed, err, wasRunning,
                   readers, writer, reserved, procVars, dirVars, faults, crashes>>

\* Manager.Cancel.
Cancel(t, f) ==
    /\ status[t] \notin Finished \cup {"none"}
    /\ force' = IF f THEN force \cup {t} ELSE force \ {t}
    /\ cancelled' = cancelled \cup {t}
    /\ status' = [status EXCEPT ![t] = IF f THEN "force_stop_requested" ELSE "cancel_requested"]
    /\ UNCHANGED <<pc, kind, todo, targets, cur, failed, err, wasRunning, lockVars,
                   procVars, dirVars, faults, crashes>>

-----------------------------------------------------------------------------
(* Manager.run.                                                            *)

\* The goroutine starts: whatever Cancel wrote is overwritten.
RunBegins(t) ==
    /\ pc[t] = "queued"
    /\ status' = [status EXCEPT ![t] = "running"]
    /\ Goto(t, "next")
    /\ UNCHANGED <<kind, todo, targets, cur, cancelled, force, failed, err, wasRunning,
                   lockVars, procVars, dirVars, faults, crashes>>

\* The task has its final status; its entry leaves the active map before its
\* reservation and image lock are released.
FinishAs(t, result) ==
    /\ status' = [status EXCEPT ![t] = result]
    /\ cur' = [cur EXCEPT ![t] = 0]
    /\ active' = NoTask
    /\ Goto(t, "release")
    /\ UNCHANGED <<kind, todo, targets, cancelled, force, failed, err, wasRunning,
                   readers, writer, reserved, procVars, dirVars, faults, crashes>>

Cancelled(t) == IF t \in force THEN "force_stopped" ELSE "cancelled"

\* The context is looked at before every slot.
NextSlot(t) ==
    /\ pc[t] = "next"
    /\ t \notin cancelled
    /\ todo[t] # {}
    /\ cur' = [cur EXCEPT ![t] = Min(todo[t])]
    /\ todo' = [todo EXCEPT ![t] = @ \ {Min(todo[t])}]
    /\ Goto(t, "stop")
    /\ UNCHANGED <<kind, targets, status, cancelled, force, failed, err, wasRunning,
                   lockVars, procVars, dirVars, faults, crashes>>

StopsEarly(t) ==
    /\ pc[t] = "next"
    /\ t \in cancelled
    /\ todo[t] # {}
    /\ FinishAs(t, Cancelled(t))

\* Nothing left to do: completed, even when it was cancelled after its last
\* slot.
Completes(t) ==
    /\ pc[t] = "next"
    /\ todo[t] = {}
    /\ FinishAs(t, IF t \in failed THEN "completed_with_errors" ELSE "completed")

\* Mutant: the error of a slot is not counted.
SlotEndsUncounted(t) ==
    /\ pc[t] = "result"
    /\ err' = err \ {t}
    /\ Goto(t, "next")
    /\ UNCHANGED <<kind, todo, targets, cur, status, cancelled, force, failed, wasRunning,
                   lockVars, procVars, dirVars, faults, crashes>>

\* DeployInstance returned to the loop of run.
SlotEnds(t) ==
    /\ pc[t] = "result"
    /\ t \in err => t \notin cancelled
    /\ failed' = failed \cup ({t} \cap err)
    /\ err' = err \ {t}
    /\ Goto(t, "next")
    /\ UNCHANGED <<kind, todo, targets, cur, status, cancelled, force, wasRunning,
                   lockVars, procVars, dirVars, faults, crashes>>

SlotCancelled(t) ==
    /\ pc[t] = "result"
    /\ t \in err \cap cancelled
    /\ FinishAs(t, Cancelled(t))

\* The deferred item.release, one instance at a time, then the image lock.
Releases(t, i) ==
    /\ pc[t] = "release"
    /\ reserved[i] = t
    /\ reserved' = [reserved EXCEPT ![i] = NoTask]
    /\ UNCHANGED <<pc, taskVars, active, readers, writer, procVars, dirVars, faults, crashes>>

\* Mutant: a reservation may be left behind.
ReleasesImageEarly(t) ==
    /\ pc[t] = "release"
    /\ UnlockImage(t)
    /\ Forget({t})
    /\ UNCHANGED <<status, active, reserved, procVars, dirVars, faults, crashes>>

ReleasesImage(t) ==
    /\ pc[t] = "release"
    /\ \A i \in Slots : reserved[i] # t
    /\ UnlockImage(t)
    /\ Forget({t})
    /\ UNCHANGED <<status, active, reserved, procVars, dirVars, faults, crashes>>

-----------------------------------------------------------------------------
(* DeployInstance around the replacement.                                  *)

\* The operation mutex is taken for a moment by a request that then finds the
\* instance reserved; or the process cannot be stopped.
InstanceBusy(t) ==
    /\ pc[t] = "stop"
    /\ Fault
    /\ err' = err \cup {t}
    /\ Goto(t, "result")
    /\ UNCHANGED <<kind, todo, targets, cur, status, cancelled, force, failed, wasRunning,
                   lockVars, procVars, dirVars, crashes>>

\* An instance with a session that shows running is stopped: done is closed by the
\* end of its process, or the link breaks under the stop.  Any other instance counts
\* as not running, one whose link broke before included: its process goes on.
InstanceStops(t) ==
    /\ pc[t] = "stop"
    /\ IF cur[t] \in running \ adrift
         THEN /\ wasRunning' = wasRunning \cup {t}
              /\ \/ /\ running' = running \ {cur[t]}
                    /\ UNCHANGED <<adrift, faults>>
                 \/ /\ Fault
                    /\ adrift' = adrift \cup {cur[t]}
                    /\ UNCHANGED running
         ELSE /\ wasRunning' = wasRunning \ {t}
              /\ UNCHANGED <<procVars, faults>>
    /\ Goto(t, "mkdir")
    /\ UNCHANGED <<kind, todo, targets, cur, status, cancelled, force, failed, err,
                   lockVars, dirVars, crashes>>

\* A start attaches to the process that runs, or creates one.
Attached(i) ==
    /\ running' = running \cup {i}
    /\ adrift' = adrift \ {i}

\* The instance runs again unless the task was forced to stop; startLocked
\* needs the workspace.
Restores(t) ==
    /\ pc[t] = "restore"
    /\ IF t \in wasRunning /\ t \notin force
         THEN IF live[cur[t]] # NoDir
                THEN Attached(cur[t]) /\ UNCHANGED err
                ELSE err' = err \cup {t} /\ UNCHANGED procVars
         ELSE UNCHANGED <<procVars, err>>
    /\ Goto(t, "result")
    /\ UNCHANGED <<kind, todo, targets, cur, status, cancelled, force, failed, wasRunning,
                   lockVars, dirVars, faults, crashes>>

\* Before the process is created, or when the daemon cannot connect to it.
RestoreFails(t) ==
    /\ pc[t] = "restore"
    /\ t \in wasRunning \ force
    /\ Fault
    /\ \/ UNCHANGED procVars
       \/ /\ live[cur[t]] # NoDir
          /\ running' = running \cup {cur[t]}
          /\ adrift' = adrift \cup {cur[t]}
    /\ err' = err \cup {t}
    /\ Goto(t, "result")
    /\ UNCHANGED <<kind, todo, targets, cur, status, cancelled, force, failed, wasRunning,
                   lockVars, dirVars, crashes>>

-----------------------------------------------------------------------------
(* deployFiles and syncInstanceBackToImage.                                *)

MakesTemp(t) ==
    /\ pc[t] = "mkdir"
    /\ temp' = [temp EXCEPT ![Own(t)] = [data |-> "part", bin |-> FALSE]]
    /\ Goto(t, "copy")
    /\ UNCHANGED <<taskVars, lockVars, procVars, live, back, rolledBack, faults, crashes>>

\* copyTree.  When the context is cancelled after the walk the workers leave
\* with files still queued and copyTree returns no error.
CopyEnds(t) ==
    /\ pc[t] = "copy"
    /\ \E complete \in BOOLEAN :
        /\ complete \/ t \in cancelled
        /\ temp' = [temp EXCEPT ![Own(t)].data = IF complete THEN t ELSE "part"]
    /\ Goto(t, "check")
    /\ UNCHANGED <<taskVars, lockVars, procVars, live, back, rolledBack, faults, crashes>>

\* A cancelled scan or copy returns the context's error.
CopyInterrupted(t) ==
    /\ pc[t] = "copy"
    /\ t \in cancelled
    /\ Goto(t, "undo")
    /\ UNCHANGED <<taskVars, lockVars, procVars, dirVars, faults, crashes>>

\* item.context.Err() before the first rename.
LastCheck(t) ==
    /\ pc[t] = "check"
    /\ Goto(t, IF t \in cancelled THEN "undo" ELSE "swap")
    /\ UNCHANGED <<taskVars, lockVars, procVars, dirVars, faults, crashes>>

\* The old directory, if there is one, becomes the backup.
MovesOldAside(t) ==
    /\ pc[t] = "swap"
    /\ back' = [back EXCEPT ![Own(t)] = live[Place(t)]]
    /\ live' = [live EXCEPT ![Place(t)] = NoDir]
    /\ Goto(t, IF live[Place(t)] = NoDir THEN "enable" ELSE "bin")
    /\ UNCHANGED <<taskVars, lockVars, procVars, temp, rolledBack, faults, crashes>>

\* Mutant: the recycle bin is left in the backup.
ForgetsBin(t) ==
    /\ pc[t] = "bin"
    /\ Goto(t, "enable")
    /\ UNCHANGED <<taskVars, lockVars, procVars, dirVars, faults, crashes>>

\* preserveRecycleBin.
MovesBin(t) ==
    /\ pc[t] = "bin"
    /\ temp' = [temp EXCEPT ![Own(t)].bin = back[Own(t)].bin]
    /\ back' = [back EXCEPT ![Own(t)].bin = FALSE]
    /\ Goto(t, "enable")
    /\ UNCHANGED <<taskVars, lockVars, procVars, live, rolledBack, faults, crashes>>

\* The backup is renamed back, or that fails too; the temporary directory is
\* removed on the way out, with the recycle bin when it was already there.
RollsBack(t) ==
    /\ pc[t] \in {"bin", "enable"}
    /\ rolledBack' = IF pc[t] = "enable" THEN rolledBack \cup {Place(t)} ELSE rolledBack
    /\ \/ /\ live' = [live EXCEPT ![Place(t)] = back[Own(t)]]
          /\ back' = [back EXCEPT ![Own(t)] = NoDir]
          /\ Fault
       \/ /\ faults + 1 < MaxFaults
          /\ faults' = faults + 2
          /\ UNCHANGED <<live, back>>
    /\ Goto(t, "undo")
    /\ UNCHANGED <<taskVars, lockVars, procVars, temp, crashes>>

EnablesNew(t) ==
    /\ pc[t] = "enable"
    /\ live' = [live EXCEPT ![Place(t)] = temp[Own(t)]]
    /\ temp' = [temp EXCEPT ![Own(t)] = NoDir]
    /\ Goto(t, "clean")
    /\ UNCHANGED <<taskVars, lockVars, procVars, back, rolledBack, faults, crashes>>

DropsBackup(t) ==
    /\ pc[t] = "clean"
    /\ back' = [back EXCEPT ![Own(t)] = NoDir]
    /\ Goto(t, "restore")
    /\ UNCHANGED <<taskVars, lockVars, procVars, live, temp, rolledBack, faults, crashes>>

\* The backup is removed only partly; the new directory stays.
BackupStays(t) ==
    /\ pc[t] = "clean"
    /\ back[Own(t)] # NoDir
    /\ Fault
    /\ back' = [back EXCEPT ![Own(t)].data = "part"]
    /\ err' = err \cup {t}
    /\ Goto(t, "restore")
    /\ UNCHANGED <<kind, todo, targets, cur, status, cancelled, force, failed, wasRunning,
                   lockVars, procVars, live, temp, rolledBack, crashes>>

\* The deferred removal of the temporary directory.
Undoes(t) ==
    /\ pc[t] = "undo"
    /\ \/ /\ temp' = [temp EXCEPT ![Own(t)] = NoDir]
          /\ UNCHANGED faults
       \/ /\ temp[Own(t)] # NoDir
          /\ Fault
          /\ temp' = [temp EXCEPT ![Own(t)].data = "part"]
    /\ err' = err \cup {t}
    /\ Goto(t, "restore")
    /\ UNCHANGED <<kind, todo, targets, cur, status, cancelled, force, failed, wasRunning,
                   lockVars, procVars, live, back, rolledBack, crashes>>

-----------------------------------------------------------------------------
(* Around the tasks.                                                       *)

\* WithImageMutation: a file operation works on the image directory.
ImageMutationBegins ==
    /\ writer = NoTask
    /\ readers = {}
    /\ writer' = Mutator
    /\ UNCHANGED <<pc, taskVars, active, readers, reserved, procVars, dirVars, faults, crashes>>

ImageMutationEnds ==
    /\ writer = Mutator
    /\ writer' = NoTask
    /\ UNCHANGED <<pc, taskVars, active, readers, reserved, procVars, dirVars, faults, crashes>>

\* A user or an automatic restart starts an instance that is not reserved (Supervisor).
Starts(i) ==
    /\ reserved[i] = NoTask
    /\ i \notin running \ adrift
    /\ live[i] # NoDir
    /\ Attached(i)
    /\ UNCHANGED <<pc, taskVars, lockVars, dirVars, faults, crashes>>

\* A process ends, by itself or because a user stopped the instance.
ProcessEnds(i) ==
    /\ i \in running
    /\ running' = running \ {i}
    /\ adrift' = adrift \ {i}
    /\ UNCHANGED <<pc, taskVars, lockVars, dirVars, faults, crashes>>

\* waitSession sees the end of a link and clears the session; the process runs on.
LosesLink(i) ==
    /\ i \in running \ adrift
    /\ Fault
    /\ adrift' = adrift \cup {i}
    /\ UNCHANGED <<pc, taskVars, lockVars, running, dirVars, crashes>>

\* The daemon stops: tasks, locks and reservations are only in memory, the
\* directories stay as they are, and so do the processes, which the next daemon
\* attaches to.
Crash ==
    /\ crashes < MaxCrash
    /\ crashes' = crashes + 1
    /\ Forget({t \in Tasks : pc[t] # "new"})
    /\ status' = [t \in Tasks |-> "none"]
    /\ active' = NoTask
    /\ readers' = {}
    /\ writer' = NoTask
    /\ reserved' = [i \in Slots |-> NoTask]
    /\ adrift' = {}
    /\ UNCHANGED <<running, dirVars, faults>>

StartRequest(t) ==
    \/ StartRefused(t)
    \/ StartReserves(t)
    \/ StartInserts(t)

FileStep(t) ==
    \/ MakesTemp(t)
    \/ CopyEnds(t)
    \/ CopyInterrupted(t)
    \/ LastCheck(t)
    \/ MovesOldAside(t)
    \/ MovesBin(t)
    \/ EnablesNew(t)
    \/ DropsBackup(t)
    \/ Undoes(t)

RunStep(t) ==
    \/ RunBegins(t)
    \/ NextSlot(t)
    \/ StopsEarly(t)
    \/ Completes(t)
    \/ SlotEnds(t)
    \/ SlotCancelled(t)
    \/ InstanceStops(t)
    \/ Restores(t)
    \/ ReleasesImage(t)
    \/ \E i \in Slots : Releases(t, i)

FaultStep(t) ==
    \/ InstanceBusy(t)
    \/ RestoreFails(t)
    \/ RollsBack(t)
    \/ BackupStays(t)
    \/ pc[t] \in {"mkdir", "copy", "check", "swap"} /\ Fails(t)

\* What a request may ask for; slots are checked against the instance count.
Requested == Slots \cup {InstanceCount + 1}

DepNext ==
    \/ \E t \in Tasks, k \in Kinds, slots \in SUBSET Requested : StartChecks(t, k, slots)
    \/ \E t \in Tasks : StartRequest(t)
    \/ \E t \in Tasks, f \in BOOLEAN : Cancel(t, f)
    \/ \E t \in Tasks : RunStep(t)
    \/ \E t \in Tasks : FileStep(t)
    \/ \E t \in Tasks : FaultStep(t)
    \/ ImageMutationBegins
    \/ ImageMutationEnds
    \/ \E i \in Slots : Starts(i)
    \/ \E i \in Slots : ProcessEnds(i)
    \/ \E i \in Slots : LosesLink(i)
    \/ Crash

DepSpec == DepInit /\ [][DepNext]_depVars

\* The goroutines of requests and tasks run, and file operations end.
TaskStep(t) == StartRequest(t) \/ RunStep(t) \/ FileStep(t)

DepFairness == \A t \in Tasks : WF_depVars(TaskStep(t))

FairDepSpec == DepSpec /\ DepFairness

-----------------------------------------------------------------------------
(* Properties.                                                             *)

Inserted(t) == pc[t] \in RunPCs

\* The group has one task at a time, although the request that starts one
\* looks at the active map, lets go of it, reserves the instances and looks
\* again (Manager.start).
OneTaskPerGroup == \A t \in Tasks : Inserted(t) => active = t

\* While a task builds a directory from the image, or replaces the image, no
\* other task and no file operation changes what it reads (imageLock).
ImageExclusive ==
    \A t \in Tasks :
        pc[t] \in FilePCs =>
            /\ writer \notin {Mutator} \cup (Tasks \ {t})
            /\ kind[t] = "image_sync_back" => readers = {} /\ writer = t

\* Between its stop and its restart an instance whose directory is being copied or
\* replaced stays reserved and has no process the daemon is linked to.  The exception
\* is a process whose link broke, before the stop or under it: DeployInstance takes
\* the instance for stopped and replaces the files it runs in
\* (NoProcessWhileApplying in Supervisor, which the code does not keep).
NoProcessInSwap ==
    \A t \in Tasks :
        pc[t] \in FilePCs => cur[t] \notin running \ adrift /\ reserved[cur[t]] = t

\* What a deployment has for itself while it works on a directory: the group,
\* the image and the instance, save a process whose link broke.
DeploymentsExclude == OneTaskPerGroup /\ ImageExclusive /\ NoProcessInSwap

\* A complete copy of every directory exists at all times: in place, or as the
\* backup of a task, whatever fails and whenever the daemon stops; and what is
\* in place is never half a copy (deployFiles, syncInstanceBackToImage).
AlwaysWhole ==
    \A p \in Places :
        /\ live[p].data # "part"
        /\ live[p] # NoDir \/ \E t \in Tasks : back[<<p, t>>].data \in Tasks \cup {Original}

\* The recycle bin of a directory survives its replacement, unless the second
\* rename failed (preserveRecycleBin).
BinSurvives ==
    \A p \in Places \ rolledBack :
        \/ live[p].bin
        \/ \E t \in Tasks : temp[<<p, t>>].bin \/ back[<<p, t>>].bin

\* Neither the files nor the recycle bin of a directory get lost.
DirectoriesSurvive == AlwaysWhole /\ BinSurvives

\* A task that reports completed has replaced the directory of every target
\* with a complete copy, and nothing has replaced it since (run, Snapshot).
CompletedIsDone ==
    [][\A t \in Tasks :
        (status'[t] = "completed" /\ status[t] # "completed") =>
            IF kind[t] = "image_sync_back" THEN live[Image].data = t
            ELSE \A i \in targets[t] : live[i].data = t]_depVars

\* The final status of a task is final (Cancel, isFinished).
FinishedIsFinal ==
    [][\A t \in Tasks :
        status[t] \in Finished => status'[t] \in {status[t], "none"}]_depVars

\* Every task ends and gives back its reservation and the image lock, whatever
\* fails on the way (run, the deferred release).
TasksEnd ==
    \A t \in Tasks :
        []<>(\/ pc[t] = "new"
             \/ /\ pc[t] = "gone"
                /\ t \notin readers /\ writer # t
                /\ \A i \in Slots : reserved[i] # t)
=============================================================================
