-------------------------- MODULE Deployment_proofs --------------------------
(***************************************************************************)
(* Proofs about the deployment tasks of a mirror server group, for any     *)
(* number of instances, tasks, faults and exits of the daemon.             *)
(***************************************************************************)
EXTENDS Deployment, FiniteSetTheorems, WellFoundedInduction, TLAPS

-----------------------------------------------------------------------------
(* Types.                                                                  *)

\* DeployInstance works on the slot cur[t].
SlotPCs == {"stop", "restore", "result"} \cup FilePCs

\* The slot in work is a target and not one of those to come.
SlotInWork ==
    \A t \in Tasks :
        /\ todo[t] \subseteq targets[t]
        /\ pc[t] \in {"new", "checked", "reserved"} => todo[t] = {}
        /\ pc[t] \in SlotPCs => cur[t] \in targets[t] \ todo[t]

TypeInv == DepTypeOK /\ SlotInWork

\* The next slot is one of those to come (Manager.run takes them in order).
LEMMA MinIsMember ==
    ASSUME NEW S \in SUBSET Slots, S # {}
    PROVE  Min(S) \in S
<1>1. S \subseteq Nat
  BY DEF Slots
<1>2. PICK x \in S : \A y \in S : ~(<<y, x>> \in OpToRel(<, Nat))
  BY <1>1, NatLessThanWellFounded, WFMin
<1>3. ASSUME NEW y \in S
      PROVE  ~(y < x)
  BY <1>1, <1>2, Zenon DEF OpToRel
<1>4. \A y \in S : x <= y
  BY <1>1, <1>3
<1> QED
  BY <1>4 DEF Min

\* The directories of a task have a place.
LEMMA OwnPlace ==
    ASSUME TypeInv, NEW t \in Tasks, pc[t] \in SlotPCs
    PROVE  /\ Place(t) \in Places
           /\ Own(t) \in Places \X Tasks
           /\ cur[t] \in Slots
BY DEF TypeInv, DepTypeOK, SlotInWork, Place, Own, Places

\* What the steps write keeps the directories' type.
LEMMA DirTypes ==
    /\ NoDir \in Dirs
    /\ \A d \in Dirs : d.data \in Contents /\ d.bin \in BOOLEAN
BY DEF Dirs, Contents, NoDir

\* A step that leaves directories and image lock alone keeps the types when it
\* keeps those of what it writes.
LEMMA TypesKept ==
    ASSUME TypeInv,
           UNCHANGED <<kind, targets, wasRunning, readers, writer, reserved, procVars,
                       dirVars, crashes, faults>>,
           pc' \in [Tasks -> PCs], todo' \in [Tasks -> SUBSET Slots],
           cur' \in [Tasks -> Slots \cup {0}], status' \in [Tasks -> Statuses],
           cancelled' \subseteq Tasks, force' \subseteq Tasks, failed' \subseteq Tasks,
           err' \subseteq Tasks, active' \in Tasks \cup {NoTask}, SlotInWork'
    PROVE  TypeInv'
BY SMTT(30) DEF TypeInv, DepTypeOK, procVars, dirVars

\* A task that gets its final status leaves the loop of run.
LEMMA FinishTypes ==
    ASSUME TypeInv, NEW t \in Tasks, NEW result \in Finished, FinishAs(t, result)
    PROVE  TypeInv'
<1> USE DEF FinishAs, Goto
<1>1. pc' \in [Tasks -> PCs]
  BY DEF TypeInv, DepTypeOK, PCs
<1>2. cur' \in [Tasks -> Slots \cup {0}]
  BY DEF TypeInv, DepTypeOK
<1>3. status' \in [Tasks -> Statuses]
  BY DEF TypeInv, DepTypeOK, Statuses
<1>4. active' \in Tasks \cup {NoTask}
  OBVIOUS
<1>5. SlotInWork'
  <2>1. ASSUME NEW u \in Tasks, u # t
        PROVE  pc'[u] = pc[u] /\ cur'[u] = cur[u]
    BY <2>1 DEF TypeInv, DepTypeOK
  <2>2. pc'[t] = "release"
    BY DEF TypeInv, DepTypeOK
  <2> QED
    BY <2>1, <2>2 DEF TypeInv, SlotInWork, SlotPCs, FilePCs
<1>6. todo' \in [Tasks -> SUBSET Slots] /\ cancelled' \subseteq Tasks /\ force' \subseteq Tasks
      /\ failed' \subseteq Tasks /\ err' \subseteq Tasks
  BY DEF TypeInv, DepTypeOK
<1> QED
  BY ONLY TypeInv, FinishAs(t, result), <1>1, <1>2, <1>3, <1>4, <1>5, <1>6, TypesKept DEF FinishAs

LEMMA TypeInvariant == DepSpec => []TypeInv
<1>1. DepInit => TypeInv
  BY DeploymentConstants DEF DepInit, TypeInv, DepTypeOK, SlotInWork, PCs, RunPCs, FilePCs, SlotPCs,
     Kinds, Statuses, Finished, Dirs, Contents, NoDir, Places
<1>2. TypeInv /\ [DepNext]_depVars => TypeInv'
  <2> SUFFICES ASSUME TypeInv, [DepNext]_depVars
               PROVE  TypeInv'
    OBVIOUS
  <2> USE DEF TypeInv, DepTypeOK, SlotInWork, PCs, RunPCs, FilePCs, SlotPCs, Kinds, Statuses,
              Finished, Goto, Fault, taskVars, lockVars, procVars, dirVars
  <2>1. ASSUME NEW t \in Tasks, NEW k \in Kinds, NEW slots \in SUBSET Requested,
               StartChecks(t, k, slots)
        PROVE  TypeInv'
    BY <2>1 DEF StartChecks, LockImage
  <2>2. ASSUME NEW t \in Tasks, StartRefused(t)
        PROVE  TypeInv'
    BY <2>2 DEF StartRefused, UnlockImage, Forget
  <2>3. ASSUME NEW t \in Tasks, StartReserves(t)
        PROVE  TypeInv'
    BY <2>3 DEF StartReserves
  <2>4. ASSUME NEW t \in Tasks, StartInserts(t)
        PROVE  TypeInv'
    <3>1. pc' \in [Tasks -> PCs] /\ active' \in Tasks \cup {NoTask}
      BY <2>4 DEF StartInserts
    <3>2. todo' \in [Tasks -> SUBSET Slots] /\ status' \in [Tasks -> Statuses]
      BY <2>4 DEF StartInserts
    <3>3. SlotInWork'
      <4>1. todo'[t] \subseteq targets[t] /\ pc'[t] \in {"queued", "release"}
        BY <2>4 DEF StartInserts
      <4>2. ASSUME NEW u \in Tasks, u # t
            PROVE  pc'[u] = pc[u] /\ todo'[u] = todo[u]
        BY <2>4, <4>2 DEF StartInserts
      <4> QED
        BY <2>4, <4>1, <4>2 DEF StartInserts
    <3> QED
      BY ONLY TypeInv, <2>4, <3>1, <3>2, <3>3, TypesKept DEF StartInserts, TypeInv, DepTypeOK
  <2>5. ASSUME NEW t \in Tasks, NEW f \in BOOLEAN, Cancel(t, f)
        PROVE  TypeInv'
    BY <2>5 DEF Cancel
  <2>6. ASSUME NEW t \in Tasks, RunBegins(t)
        PROVE  TypeInv'
    BY <2>6 DEF RunBegins
  <2>7. ASSUME NEW t \in Tasks, NextSlot(t)
        PROVE  TypeInv'
    <3>1. Min(todo[t]) \in todo[t]
      BY <2>7, MinIsMember DEF NextSlot
    <3> QED
      BY <2>7, <3>1 DEF NextSlot
  <2>8. ASSUME NEW t \in Tasks, StopsEarly(t) \/ Completes(t) \/ SlotCancelled(t)
        PROVE  TypeInv'
    <3>1. PICK result \in Finished : FinishAs(t, result)
      BY <2>8 DEF StopsEarly, Completes, SlotCancelled, Cancelled
    <3> QED
      BY ONLY TypeInv, <3>1, FinishTypes
  <2>9. ASSUME NEW t \in Tasks, SlotEnds(t)
        PROVE  TypeInv'
    BY <2>9 DEF SlotEnds
  <2>10. ASSUME NEW t \in Tasks, InstanceStops(t)
         PROVE  TypeInv'
    BY <2>10, OwnPlace DEF InstanceStops
  <2>11. ASSUME NEW t \in Tasks, Restores(t)
         PROVE  TypeInv'
    BY <2>11, OwnPlace DEF Restores, Attached
  <2>12. ASSUME NEW t \in Tasks, ReleasesImage(t)
         PROVE  TypeInv'
    BY <2>12 DEF ReleasesImage, UnlockImage, Forget
  <2>13. ASSUME NEW t \in Tasks, NEW i \in Slots, Releases(t, i)
         PROVE  TypeInv'
    BY <2>13 DEF Releases
  <2>14. ASSUME NEW t \in Tasks, MakesTemp(t)
         PROVE  TypeInv'
    <3>1. temp' \in [Places \X Tasks -> Dirs]
      BY <2>14, OwnPlace DEF MakesTemp, Dirs, Contents
    <3> QED
      BY <2>14, <3>1 DEF MakesTemp
  <2>15. ASSUME NEW t \in Tasks, CopyEnds(t)
         PROVE  TypeInv'
    <3>1. temp' \in [Places \X Tasks -> Dirs]
      <4>1. PICK data \in Contents : temp' = [temp EXCEPT ![Own(t)].data = data]
        BY <2>15 DEF CopyEnds, Contents
      <4>2. Own(t) \in Places \X Tasks
        BY <2>15, OwnPlace DEF CopyEnds
      <4> QED
        BY ONLY <4>1, <4>2, temp \in [Places \X Tasks -> Dirs] DEF Dirs
    <3> QED
      BY <2>15, <3>1 DEF CopyEnds
  <2>16. ASSUME NEW t \in Tasks, CopyInterrupted(t) \/ LastCheck(t)
         PROVE  TypeInv'
    BY <2>16 DEF CopyInterrupted, LastCheck
  <2>17. ASSUME NEW t \in Tasks, MovesOldAside(t)
         PROVE  TypeInv'
    <3>1. /\ back' \in [Places \X Tasks -> Dirs]
          /\ live' \in [Places -> Dirs]
      BY <2>17, OwnPlace DEF MovesOldAside, Dirs, Contents, NoDir
    <3> QED
      BY <2>17, <3>1 DEF MovesOldAside
  <2>18. ASSUME NEW t \in Tasks, MovesBin(t)
         PROVE  TypeInv'
    <3>1. /\ temp' \in [Places \X Tasks -> Dirs]
          /\ back' \in [Places \X Tasks -> Dirs]
      <4>1. Own(t) \in Places \X Tasks /\ back[Own(t)].bin \in BOOLEAN
        BY <2>18, OwnPlace, DirTypes DEF MovesBin
      <4> QED
        BY ONLY <2>18, <4>1, temp \in [Places \X Tasks -> Dirs], back \in [Places \X Tasks -> Dirs]
           DEF MovesBin, Dirs
    <3> QED
      BY <2>18, <3>1 DEF MovesBin
  <2>19. ASSUME NEW t \in Tasks, EnablesNew(t) \/ DropsBackup(t)
         PROVE  TypeInv'
    <3>1. /\ temp' \in [Places \X Tasks -> Dirs]
          /\ back' \in [Places \X Tasks -> Dirs]
          /\ live' \in [Places -> Dirs]
      <4>2. NoDir \in Dirs
        BY DirTypes
      <4>1. Own(t) \in Places \X Tasks /\ Place(t) \in Places
        BY <2>19, OwnPlace DEF EnablesNew, DropsBackup
      <4> QED
        BY ONLY <2>19, <4>1, <4>2, live \in [Places -> Dirs],
                temp \in [Places \X Tasks -> Dirs], back \in [Places \X Tasks -> Dirs], SMTT(20)
           DEF EnablesNew, DropsBackup
    <3>2. CASE EnablesNew(t)
      BY <3>1, <3>2, SMTT(20) DEF EnablesNew
    <3>3. CASE DropsBackup(t)
      BY <3>1, <3>3, SMTT(20) DEF DropsBackup
    <3> QED
      BY <2>19, <3>2, <3>3
  <2>20. ASSUME NEW t \in Tasks, Undoes(t)
         PROVE  TypeInv'
    <3>1. temp' \in [Places \X Tasks -> Dirs]
      <4>1. Own(t) \in Places \X Tasks
        BY <2>20, OwnPlace DEF Undoes
      <4>2. CASE temp' = [temp EXCEPT ![Own(t)] = NoDir]
        BY <4>1, <4>2, DirTypes
      <4>3. CASE temp' = [temp EXCEPT ![Own(t)].data = "part"]
        BY ONLY <4>1, <4>3, temp \in [Places \X Tasks -> Dirs] DEF Dirs, Contents
      <4> QED
        BY <2>20, <4>2, <4>3 DEF Undoes
    <3> QED
      BY <2>20, <3>1 DEF Undoes
  <2>21. ASSUME NEW t \in Tasks, InstanceBusy(t) \/ RestoreFails(t)
         PROVE  TypeInv'
    <3>1. CASE InstanceBusy(t)
      BY <3>1 DEF InstanceBusy
    <3>2. CASE RestoreFails(t)
      <4>1. cur[t] \in Slots /\ pc[t] = "restore"
        BY <3>2, OwnPlace DEF RestoreFails
      <4>2. running' \subseteq Slots /\ adrift' \subseteq running'
        BY <3>2, <4>1 DEF RestoreFails
      <4> QED
        BY <3>2, <4>1, <4>2 DEF RestoreFails
    <3> QED
      BY <2>21, <3>1, <3>2
  <2>22. ASSUME NEW t \in Tasks, RollsBack(t)
         PROVE  TypeInv'
    <3>1. /\ back' \in [Places \X Tasks -> Dirs]
          /\ live' \in [Places -> Dirs]
          /\ rolledBack' \subseteq Places
          /\ faults' \in Nat
      <4>1. Own(t) \in Places \X Tasks /\ Place(t) \in Places
        BY <2>22, OwnPlace DEF RollsBack
      <4> QED
        BY ONLY <2>22, <4>1, DirTypes, live \in [Places -> Dirs], back \in [Places \X Tasks -> Dirs],
                rolledBack \subseteq Places, faults \in Nat
           DEF RollsBack, Fault
    <3> QED
      BY <2>22, <3>1 DEF RollsBack
  <2>23. ASSUME NEW t \in Tasks, BackupStays(t)
         PROVE  TypeInv'
    <3>1. back' \in [Places \X Tasks -> Dirs]
      <4>1. Own(t) \in Places \X Tasks
        BY <2>23, OwnPlace DEF BackupStays
      <4> QED
        BY ONLY <2>23, <4>1, back \in [Places \X Tasks -> Dirs] DEF BackupStays, Dirs, Contents
    <3> QED
      BY <2>23, <3>1 DEF BackupStays
  <2>24. ASSUME NEW t \in Tasks, pc[t] \in FilePCs, Fails(t)
         PROVE  TypeInv'
    BY <2>24 DEF Fails
  <2>25. CASE ImageMutationBegins \/ ImageMutationEnds
    BY <2>25 DEF ImageMutationBegins, ImageMutationEnds
  <2>26. ASSUME NEW i \in Slots, Starts(i) \/ ProcessEnds(i) \/ LosesLink(i)
         PROVE  TypeInv'
    BY <2>26 DEF Starts, ProcessEnds, LosesLink, Attached
  <2>27. CASE Crash
    BY <2>27 DEF Crash, Forget
  <2>28. CASE UNCHANGED depVars
    BY <2>28 DEF depVars
  <2> QED
    BY <2>1, <2>2, <2>3, <2>4, <2>5, <2>6, <2>7, <2>8, <2>9, <2>10, <2>11, <2>12, <2>13, <2>14,
       <2>15, <2>16, <2>17, <2>18, <2>19, <2>20, <2>21, <2>22, <2>23, <2>24, <2>25, <2>26, <2>27, <2>28
       DEF DepNext, StartRequest, RunStep, FileStep, FaultStep
<1> QED
  BY <1>1, <1>2, PTL DEF DepSpec

\* The variables keep their types (task, Manager, the directories on disk).
THEOREM DepTypeCorrect == DepSpec => []DepTypeOK
<1>1. TypeInv => DepTypeOK
  BY DEF TypeInv
<1> QED
  BY <1>1, TypeInvariant, PTL
-----------------------------------------------------------------------------
(* Tasks, reservations and the image lock.                                 *)

\* A final status is written when nothing but the releases is left.
FinalIsOver == \A t \in Tasks : status[t] \in Finished => pc[t] \in {"release", "gone"}

\* From its reservation to the first release all targets are the task's.
ReservationHeld ==
    \A t \in Tasks :
        pc[t] \in {"reserved"} \cup RunPCs => \A i \in targets[t] : reserved[i] = t

\* From its first check to its end a task holds the image lock.
ImageHeld ==
    \A t \in Tasks :
        pc[t] \notin {"new", "gone"} =>
            IF kind[t] = "image_sync_back" THEN writer = t ELSE t \in readers

WriterAlone == writer # NoTask => readers = {}

SlotIsStopped == \A t \in Tasks : pc[t] \in FilePCs => cur[t] \notin running \ adrift

ControlInv ==
    /\ OneTaskPerGroup
    /\ FinalIsOver
    /\ ReservationHeld
    /\ ImageHeld
    /\ WriterAlone
    /\ SlotIsStopped

\* Most steps of DeployInstance only move on and change directories.
LEMMA StepWithinSlot ==
    ASSUME TypeInv, ControlInv, NEW t \in Tasks, pc[t] \in SlotPCs,
           NEW label \in SlotPCs, label \in FilePCs => pc[t] \in FilePCs, Goto(t, label),
           UNCHANGED <<kind, targets, cur, status, lockVars, procVars>>
    PROVE  ControlInv'
<1> USE DEF TypeInv, DepTypeOK, ControlInv, Goto, lockVars, SlotPCs, RunPCs, FilePCs
<1>1. OneTaskPerGroup'
  BY DEF OneTaskPerGroup, Inserted
<1>2. FinalIsOver'
  BY DEF FinalIsOver
<1>3. ReservationHeld'
  BY DEF ReservationHeld
<1>4. ImageHeld' /\ WriterAlone'
  BY DEF ImageHeld, WriterAlone
<1>5. SlotIsStopped'
  BY DEF SlotIsStopped, procVars
<1> QED
  BY <1>1, <1>2, <1>3, <1>4, <1>5

LEMMA ControlInvariant == DepSpec => []ControlInv
<1>1. DepInit => ControlInv
  BY DeploymentConstants DEF DepInit, ControlInv, OneTaskPerGroup, Inserted, FinalIsOver,
     ReservationHeld, ImageHeld, WriterAlone, SlotIsStopped, RunPCs, FilePCs, Finished
<1>2. TypeInv /\ ControlInv /\ [DepNext]_depVars => ControlInv'
  <2> SUFFICES ASSUME TypeInv, ControlInv, [DepNext]_depVars
               PROVE  ControlInv'
    OBVIOUS
  <2> USE DEF ControlInv, OneTaskPerGroup, Inserted, FinalIsOver, ReservationHeld, ImageHeld,
              WriterAlone, SlotIsStopped, RunPCs, FilePCs, Goto, taskVars, lockVars, procVars, dirVars
  <2>1. ASSUME NEW t \in Tasks, NEW k \in Kinds, NEW slots \in SUBSET Requested,
               StartChecks(t, k, slots)
        PROVE  ControlInv'
    BY <2>1, DeploymentConstants DEF StartChecks, LockImage, TypeInv, DepTypeOK, Kinds, Finished
  <2>2. ASSUME NEW t \in Tasks, StartRefused(t)
        PROVE  ControlInv'
    BY <2>2, DeploymentConstants DEF StartRefused, UnlockImage, Forget, TypeInv, DepTypeOK, Kinds
  <2>3. ASSUME NEW t \in Tasks, StartReserves(t)
        PROVE  ControlInv'
    BY <2>3, DeploymentConstants DEF StartReserves, TypeInv, DepTypeOK
  <2>4. ASSUME NEW t \in Tasks, StartInserts(t)
        PROVE  ControlInv'
    <3>1. OneTaskPerGroup'
      BY <2>4, DeploymentConstants DEF StartInserts, TypeInv, DepTypeOK
    <3>2. FinalIsOver'
      BY <2>4 DEF StartInserts, TypeInv, DepTypeOK, Finished
    <3>3. ReservationHeld'
      BY <2>4 DEF StartInserts, TypeInv, DepTypeOK
    <3>4. ImageHeld' /\ WriterAlone'
      BY <2>4 DEF StartInserts, TypeInv, DepTypeOK
    <3>5. SlotIsStopped'
      BY <2>4 DEF StartInserts, TypeInv, DepTypeOK
    <3> QED
      BY <3>1, <3>2, <3>3, <3>4, <3>5
  <2>5. ASSUME NEW t \in Tasks, NEW f \in BOOLEAN, Cancel(t, f)
        PROVE  ControlInv'
    BY <2>5 DEF Cancel, TypeInv, DepTypeOK, Finished
  <2>6. ASSUME NEW t \in Tasks, RunBegins(t)
        PROVE  ControlInv'
    BY <2>6 DEF RunBegins, TypeInv, DepTypeOK, Finished
  <2>7. ASSUME NEW t \in Tasks, NextSlot(t)
        PROVE  ControlInv'
    BY <2>7 DEF NextSlot, TypeInv, DepTypeOK, Finished
  <2>8. ASSUME NEW t \in Tasks, StopsEarly(t) \/ Completes(t) \/ SlotCancelled(t)
        PROVE  ControlInv'
    <3>1. PICK result : pc[t] \in {"next", "result"} /\ FinishAs(t, result)
      BY <2>8 DEF StopsEarly, Completes, SlotCancelled
    <3>2. OneTaskPerGroup'
      BY <3>1, DeploymentConstants DEF FinishAs, TypeInv, DepTypeOK
    <3>3. FinalIsOver'
      BY <3>1 DEF FinishAs, TypeInv, DepTypeOK
    <3> QED
      BY <3>1, <3>2, <3>3 DEF FinishAs, TypeInv, DepTypeOK
  <2>9. ASSUME NEW t \in Tasks, SlotEnds(t)
        PROVE  ControlInv'
    BY <2>9 DEF SlotEnds, TypeInv, DepTypeOK, Finished
  <2>10. ASSUME NEW t \in Tasks, InstanceStops(t)
         PROVE  ControlInv'
    BY <2>10 DEF InstanceStops, TypeInv, DepTypeOK, Finished
  <2>11. ASSUME NEW t \in Tasks, Restores(t) \/ RestoreFails(t)
         PROVE  ControlInv'
    <3>1. /\ pc[t] = "restore" /\ pc' = [pc EXCEPT ![t] = "result"] /\ pc \in [Tasks -> PCs]
          /\ UNCHANGED <<kind, targets, cur, status, lockVars>>
      BY <2>11 DEF Restores, RestoreFails, TypeInv, DepTypeOK
    <3>2. running' \ adrift' \subseteq (running \ adrift) \cup {cur[t]}
      BY <2>11 DEF Restores, RestoreFails, Attached
    <3>3. /\ cur[t] \in targets[t]
          /\ \A w \in Tasks : pc[w] \in FilePCs => cur[w] \in targets[w]
      BY <3>1 DEF TypeInv, SlotInWork, SlotPCs
    <3>4. OneTaskPerGroup' /\ FinalIsOver'
      BY ONLY ControlInv, <3>1
         DEF ControlInv, OneTaskPerGroup, Inserted, FinalIsOver, RunPCs, FilePCs, lockVars
    <3>5. ReservationHeld' /\ ImageHeld' /\ WriterAlone'
      BY ONLY ControlInv, <3>1
         DEF ControlInv, ReservationHeld, ImageHeld, WriterAlone, RunPCs, FilePCs, lockVars
    <3>6. SlotIsStopped'
      <4> SUFFICES ASSUME NEW w \in Tasks, pc'[w] \in FilePCs
                   PROVE  cur[w] \notin running' \ adrift'
        BY <3>1
      <4>1. w # t /\ pc[w] \in FilePCs
        BY <3>1
      <4>2. cur[w] # cur[t]
        BY <3>1, <3>3, <4>1
      <4> QED
        BY <3>2, <4>1, <4>2
    <3> QED
      BY <3>4, <3>5, <3>6
  <2>12. ASSUME NEW t \in Tasks, ReleasesImage(t)
         PROVE  ControlInv'
    BY <2>12, DeploymentConstants DEF ReleasesImage, UnlockImage, Forget, TypeInv, DepTypeOK
  <2>13. ASSUME NEW t \in Tasks, NEW i \in Slots, Releases(t, i)
         PROVE  ControlInv'
    BY <2>13 DEF Releases, TypeInv, DepTypeOK
  <2>14. ASSUME NEW t \in Tasks, FileStep(t)
         PROVE  ControlInv'
    BY <2>14, StepWithinSlot DEF FileStep, MakesTemp, CopyEnds, CopyInterrupted, LastCheck,
       MovesOldAside, MovesBin, EnablesNew, DropsBackup, Undoes, SlotPCs
  <2>15. ASSUME NEW t \in Tasks, FaultStep(t)
         PROVE  ControlInv'
    BY <2>11, <2>15, StepWithinSlot DEF FaultStep, InstanceBusy, RollsBack, BackupStays, Fails, SlotPCs
  <2>16. CASE ImageMutationBegins
    BY <2>16, DeploymentConstants DEF ImageMutationBegins, TypeInv, DepTypeOK
  <2>17. CASE ImageMutationEnds
    BY <2>17, DeploymentConstants DEF ImageMutationEnds, TypeInv, DepTypeOK
  <2>18. ASSUME NEW i \in Slots, Starts(i) \/ ProcessEnds(i) \/ LosesLink(i)
         PROVE  ControlInv'
    BY <2>18, DeploymentConstants DEF Starts, ProcessEnds, LosesLink, Attached, TypeInv, DepTypeOK, SlotInWork, SlotPCs
  <2>19. CASE Crash
    BY <2>19 DEF Crash, Forget, TypeInv, DepTypeOK, Finished
  <2>20. CASE UNCHANGED depVars
    BY <2>20 DEF depVars
  <2> QED
    BY <2>1, <2>2, <2>3, <2>4, <2>5, <2>6, <2>7, <2>8, <2>9, <2>10, <2>11, <2>12, <2>13, <2>14,
       <2>15, <2>16, <2>17, <2>18, <2>19, <2>20
       DEF DepNext, StartRequest, RunStep
<1> QED
  BY <1>1, <1>2, TypeInvariant, PTL DEF DepSpec

\* Two requests may pass the check of Manager.active together; only one of
\* them inserts its task (Manager.start).
THEOREM DepOneTask == DepSpec => []OneTaskPerGroup
<1>1. ControlInv => OneTaskPerGroup
  BY DEF ControlInv
<1> QED
  BY <1>1, ControlInvariant, PTL

\* What a task reads or replaces is not changed by another task nor by a file
\* operation on the image (imageLock).
THEOREM DepImageExclusive == DepSpec => []ImageExclusive
<1>1. TypeInv /\ ControlInv => ImageExclusive
  BY DeploymentConstants DEF TypeInv, DepTypeOK, ControlInv, ImageHeld, WriterAlone, ImageExclusive, FilePCs
<1> QED
  BY <1>1, TypeInvariant, ControlInvariant, PTL

\* No process of an instance runs while its directory is copied or replaced
\* (DeployInstance, ReserveDeployment).
THEOREM DepNoProcessInSwap == DepSpec => []NoProcessInSwap
<1>1. TypeInv /\ ControlInv => NoProcessInSwap
  BY DEF TypeInv, ControlInv, SlotInWork, SlotPCs, ReservationHeld, RunPCs, SlotIsStopped, NoProcessInSwap
<1> QED
  BY <1>1, TypeInvariant, ControlInvariant, PTL

\* A deployment has its group, the image and the stopped instance for itself
\* (Manager.start, imageLock, ReserveDeployment).
THEOREM DepExcludes == DepSpec => []DeploymentsExclude
<1>1. OneTaskPerGroup /\ ImageExclusive /\ NoProcessInSwap => DeploymentsExclude
  BY DEF DeploymentsExclude
<1> QED
  BY <1>1, DepOneTask, DepImageExclusive, DepNoProcessInSwap, PTL

\* The outcome of a task does not change any more (Cancel, isFinished).
THEOREM DepFinishedIsFinal == DepSpec => FinishedIsFinal
<1>1. TypeInv /\ ControlInv /\ [DepNext]_depVars =>
        \A t \in Tasks : status[t] \in Finished => status'[t] \in {status[t], "none"}
  <2> SUFFICES ASSUME TypeInv, ControlInv, [DepNext]_depVars,
                      NEW t \in Tasks, status[t] \in Finished
               PROVE  status'[t] \in {status[t], "none"}
    OBVIOUS
  <2>1. status \in [Tasks -> Statuses] /\ pc[t] \in {"release", "gone"}
    BY DEF TypeInv, DepTypeOK, ControlInv, FinalIsOver
  <2>2. \A u \in Tasks : pc[u] \in {"reserved"} \cup RunPCs => t # u
    BY <2>1 DEF RunPCs, FilePCs
  <2>3. \/ UNCHANGED status
        \/ \E u \in Tasks : StartInserts(u) \/ RunBegins(u)
                            \/ StopsEarly(u) \/ Completes(u) \/ SlotCancelled(u)
        \/ \E u \in Tasks, f \in BOOLEAN : Cancel(u, f)
        \/ Crash
    BY DEF DepNext, depVars, taskVars, StartChecks, StartRequest, StartRefused, StartReserves, RunStep,
       NextSlot, SlotEnds, InstanceStops, Restores, ReleasesImage, Releases, FileStep, MakesTemp,
       CopyEnds, CopyInterrupted, LastCheck, MovesOldAside, MovesBin, EnablesNew, DropsBackup, Undoes,
       FaultStep, InstanceBusy, RestoreFails, RollsBack, BackupStays, Fails, ImageMutationBegins,
       ImageMutationEnds, Starts, ProcessEnds, LosesLink, Attached
  <2>4. ASSUME NEW u \in Tasks, StartInserts(u)
        PROVE  status'[t] = status[t]
    BY <2>1, <2>2, <2>4 DEF StartInserts
  <2>5. ASSUME NEW u \in Tasks, RunBegins(u) \/ StopsEarly(u) \/ Completes(u) \/ SlotCancelled(u)
        PROVE  status'[t] = status[t]
    BY <2>1, <2>2, <2>5 DEF RunBegins, StopsEarly, Completes, SlotCancelled, FinishAs, RunPCs
  <2>6. ASSUME NEW u \in Tasks, NEW f \in BOOLEAN, Cancel(u, f)
        PROVE  status'[t] = status[t]
    BY <2>1, <2>6 DEF Cancel
  <2>7. CASE Crash
    BY <2>7 DEF Crash
  <2> QED
    BY <2>3, <2>4, <2>5, <2>6, <2>7
<1> QED
  BY <1>1, TypeInvariant, ControlInvariant, PTL DEF DepSpec, FinishedIsFinal
-----------------------------------------------------------------------------
(* The directories.                                                        *)

Whole == Tasks \cup {Original}

\* What is in place is never half a copy.
LiveIsWhole == \A p \in Places : live[p] = NoDir \/ live[p].data \in Whole

\* A sync-back has one target.
OneSource(t) == kind[t] = "image_sync_back" => \E i \in Slots : targets[t] = {i}

\* Task t has not begun to work on the directory of place p.
Untouched(t, p) ==
    \/ pc[t] \in {"new", "checked", "reserved", "queued"}
    \/ pc[t] = "next" /\ IF kind[t] = "image_sync_back" THEN todo[t] # {} ELSE p \in todo[t]
    \/ pc[t] \in SlotPCs /\ kind[t] = "mirror_deploy" /\ p \in todo[t]
    \/ pc[t] \in {"stop", "mkdir"} /\ p = Place(t)

\* A task leaves nothing where it has not worked, and no backup before its swap.
NothingLeft(t) ==
    /\ \A p \in Places :
          Untouched(t, p) => temp[<<p, t>>] = NoDir /\ back[<<p, t>>] = NoDir
    /\ pc[t] \in {"copy", "check", "swap"} => back[Own(t)] = NoDir

\* The contents at each step of a replacement.
CopyIsWhole(t) ==
    \/ pc[t] = "check" /\ t \notin cancelled
    \/ pc[t] \in {"swap", "bin", "enable"}
    => temp[Own(t)].data = t
OldIsAside(t) ==
    /\ pc[t] \in {"bin", "enable"} =>
          live[Place(t)] = NoDir /\ (back[Own(t)] = NoDir \/ back[Own(t)].data \in Whole)
    /\ pc[t] = "bin" => back[Own(t)].data \in Whole
NewIsInPlace(t) == pc[t] = "clean" => live[Place(t)].data = t

\* The recycle bin at each step of a replacement.
BinIsMoved(t) ==
    /\ pc[t] \in {"copy", "check", "swap", "bin"} => temp[Own(t)].bin = FALSE
    /\ pc[t] \in {"enable", "clean"} => back[Own(t)].bin = FALSE
    /\ pc[t] = "undo" => temp[Own(t)].bin = FALSE \/ Place(t) \in rolledBack

DirOk(t) ==
    /\ OneSource(t)
    /\ NothingLeft(t)
    /\ CopyIsWhole(t)
    /\ OldIsAside(t)
    /\ NewIsInPlace(t)
    /\ BinIsMoved(t)

DirInv == LiveIsWhole /\ \A t \in Tasks : DirOk(t)

\* A step of t leaves alone what belongs to the other tasks; a directory in
\* place is only changed by the one task of the group.
OnlyOf(t) ==
    /\ \A u \in Tasks \ {t} :
          /\ pc'[u] = pc[u]
          /\ kind'[u] = kind[u]
          /\ todo'[u] = todo[u]
          /\ targets'[u] = targets[u]
          /\ cur'[u] = cur[u]
          /\ u \in cancelled => u \in cancelled'
          /\ \A p \in Places : temp'[<<p, u>>] = temp[<<p, u>>] /\ back'[<<p, u>>] = back[<<p, u>>]
    /\ pc[t] \in FilePCs \/ UNCHANGED live
    /\ rolledBack \subseteq rolledBack'

LEMMA OthersKept ==
    ASSUME TypeInv, ControlInv, NEW t \in Tasks, OnlyOf(t), NEW u \in Tasks \ {t}, DirOk(u)
    PROVE  DirOk(u)'
<1>1. Place(u)' = Place(u) /\ Own(u)' = Own(u)
  BY DEF OnlyOf, Place, Own
<1>2. pc[u] \in SlotPCs => Place(u) \in Places /\ UNCHANGED live
  <2> SUFFICES ASSUME pc[u] \in SlotPCs
               PROVE  Place(u) \in Places /\ UNCHANGED live
    OBVIOUS
  <2>1. active = u
    BY DEF ControlInv, OneTaskPerGroup, Inserted, SlotPCs, RunPCs
  <2>2. pc[t] \notin FilePCs
    BY <2>1 DEF ControlInv, OneTaskPerGroup, Inserted, RunPCs
  <2> QED
    BY <2>2, OwnPlace DEF OnlyOf
<1>3. \A p \in Places : Untouched(u, p)' <=> Untouched(u, p)
  BY <1>1 DEF OnlyOf, Untouched
<1>4. OneSource(u)'
  BY DEF OnlyOf, DirOk, OneSource
<1>5. NothingLeft(u)'
  BY <1>1, <1>2, <1>3 DEF OnlyOf, DirOk, NothingLeft, Own, SlotPCs, FilePCs
<1>6. CopyIsWhole(u)' /\ BinIsMoved(u)'
  BY <1>1, <1>2 DEF OnlyOf, DirOk, CopyIsWhole, BinIsMoved, Own, SlotPCs, FilePCs
<1>7. OldIsAside(u)' /\ NewIsInPlace(u)'
  BY <1>1, <1>2 DEF OnlyOf, DirOk, OldIsAside, NewIsInPlace, Own, SlotPCs, FilePCs
<1> QED
  BY <1>4, <1>5, <1>6, <1>7 DEF DirOk

\* What an update of one directory in a table of them does.
LEMMA DirUpdate ==
    ASSUME NEW S, NEW f \in [S -> Dirs], NEW o \in S, NEW c \in Contents, NEW x \in BOOLEAN
    PROVE  /\ [f EXCEPT ![o].data = c][o].data = c
           /\ [f EXCEPT ![o].data = c][o].bin = f[o].bin
           /\ [f EXCEPT ![o].bin = x][o].bin = x
           /\ [f EXCEPT ![o].bin = x][o].data = f[o].data
           /\ \A q \in S \ {o} : [f EXCEPT ![o].data = c][q] = f[q] /\ [f EXCEPT ![o].bin = x][q] = f[q]
BY DEF Dirs

LEMMA DirStep ==
    ASSUME TypeInv, ControlInv, DirInv, NEW t \in Tasks, OnlyOf(t), DirOk(t)', LiveIsWhole'
    PROVE  DirInv'
<1>1. \A u \in Tasks \ {t} : DirOk(u)'
  BY OthersKept DEF DirInv
<1> QED
  BY <1>1 DEF DirInv

\* A request for a sync-back names one slot.
LEMMA OneSlot ==
    ASSUME NEW slots \in SUBSET Slots, Cardinality(slots) = 1
    PROVE  \E i \in Slots : slots = {i}
<1>1. IsFiniteSet(Slots)
  BY FS_Interval, DeploymentConstants DEF Slots
<1>2. IsFiniteSet(slots)
  BY <1>1, FS_Subset
<1>3. \E i : slots = {i}
  BY <1>2, FS_Singleton
<1> QED
  BY <1>3

\* The slot in work of a sync-back is its last.
LEMMA NothingToDo ==
    ASSUME TypeInv, NEW t \in Tasks, OneSource(t), pc[t] \in SlotPCs, kind[t] = "image_sync_back"
    PROVE  todo[t] = {}
<1>1. PICK i \in Slots : targets[t] = {i}
  BY DEF OneSource
<1>2. todo[t] \subseteq {i} /\ cur[t] \in {i} \ todo[t]
  BY <1>1 DEF TypeInv, SlotInWork
<1> QED
  BY <1>2

\* What is claimed of t when it is not at a file operation.
LEMMA OutsideFiles ==
    ASSUME NEW t \in Tasks, DirOk(t), UNCHANGED dirVars, pc'[t] \notin FilePCs, OneSource(t)',
           \A p \in Places : Untouched(t, p)' => Untouched(t, p)
    PROVE  DirOk(t)'
BY DEF DirOk, NothingLeft, CopyIsWhole, OldIsAside, NewIsInPlace, BinIsMoved, FilePCs, dirVars

\* The steps of t between its file operations.
ControlStep(t) ==
    \/ StartRequest(t)
    \/ \E k \in Kinds, slots \in SUBSET Requested : StartChecks(t, k, slots)
    \/ \E x \in BOOLEAN : Cancel(t, x)
    \/ RunStep(t)
    \/ InstanceBusy(t)
    \/ RestoreFails(t)

\* An error of another task is not touched.
ErrorsKept(t) == \A u \in Tasks \ {t} : (u \in err => u \in err') /\ (u \in failed => u \in failed')

LEMMA ControlFrame ==
    ASSUME TypeInv, NEW t \in Tasks, ControlStep(t)
    PROVE  UNCHANGED dirVars /\ OnlyOf(t) /\ ErrorsKept(t)
<1> USE DEF ControlStep, Goto, taskVars, lockVars, procVars, dirVars
<1>1. UNCHANGED dirVars
  BY DEF StartRequest, StartRefused, StartReserves, StartInserts, StartChecks, Cancel, RunStep,
     RunBegins, NextSlot, StopsEarly, Completes, SlotCancelled, FinishAs, SlotEnds, InstanceStops,
     Restores, ReleasesImage, Releases, InstanceBusy, RestoreFails
<1>2. OnlyOf(t)
  BY <1>1 DEF TypeInv, DepTypeOK, OnlyOf, StartRequest, StartRefused, StartReserves, StartInserts, StartChecks,
     Cancel, RunStep, RunBegins, NextSlot, StopsEarly, Completes, SlotCancelled, FinishAs, SlotEnds,
     InstanceStops, Restores, ReleasesImage, Releases, InstanceBusy, RestoreFails, Forget
<1>3. ErrorsKept(t)
  BY DEF ErrorsKept, StartRequest, StartRefused, StartReserves, StartInserts, StartChecks,
     Cancel, RunStep, RunBegins, NextSlot, StopsEarly, Completes, SlotCancelled, FinishAs, SlotEnds,
     InstanceStops, Restores, ReleasesImage, Releases, InstanceBusy, RestoreFails, Forget
<1> QED
  BY <1>1, <1>2, <1>3

LEMMA ControlSteps ==
    ASSUME TypeInv, ControlInv, DirInv, NEW t \in Tasks, ControlStep(t)
    PROVE  DirInv'
<1> USE DEF TypeInv, DepTypeOK, SlotPCs, RunPCs, FilePCs, Goto, taskVars, lockVars, procVars, dirVars
<1>1. UNCHANGED dirVars
  BY ControlFrame
<1>2. LiveIsWhole' /\ DirOk(t)
  BY <1>1 DEF LiveIsWhole, DirInv
<1>3. OnlyOf(t)
  BY ControlFrame
<1> SUFFICES DirOk(t)'
  BY <1>2, <1>3, DirStep
<1>4. ASSUME NEW k \in Kinds, NEW slots \in SUBSET Requested, StartChecks(t, k, slots)
      PROVE  DirOk(t)'
  <2>1. slots \in SUBSET Slots
    BY <1>4 DEF StartChecks
  <2>2. k = "image_sync_back" => \E i \in Slots : slots = {i}
    BY <1>4, <2>1, OneSlot DEF StartChecks
  <2>3. OneSource(t)'
    BY <1>4, <2>2 DEF StartChecks, OneSource
  <2>4. \A p \in Places : Untouched(t, p)
    BY <1>4 DEF StartChecks, Untouched
  <2>5. pc'[t] = "checked"
    BY <1>4 DEF StartChecks
  <2> QED
    BY <1>1, <1>2, <2>3, <2>4, <2>5, OutsideFiles
<1>5. ASSUME StartRefused(t) \/ ReleasesImage(t)
      PROVE  DirOk(t)'
  <2>1. pc'[t] = "gone" /\ kind'[t] = "mirror_deploy"
    BY <1>5 DEF StartRefused, ReleasesImage, Forget
  <2> QED
    BY <1>1, <1>2, <2>1, OutsideFiles DEF OneSource, Untouched
<1>6. ASSUME StartReserves(t) \/ StartInserts(t)
      PROVE  DirOk(t)'
  <2>1. pc[t] \in {"checked", "reserved"} /\ pc'[t] \in {"reserved", "queued", "release"}
    BY <1>6 DEF StartReserves, StartInserts
  <2>2. UNCHANGED <<kind, targets>>
    BY <1>6 DEF StartReserves, StartInserts
  <2>3. \A p \in Places : Untouched(t, p)
    BY <2>1 DEF Untouched
  <2> QED
    BY <1>1, <1>2, <2>1, <2>2, <2>3, OutsideFiles DEF OneSource, DirOk
<1>7. ASSUME NEW x \in BOOLEAN, Cancel(t, x)
      PROVE  DirOk(t)'
  BY <1>1, <1>2, <1>7 DEF Cancel, DirOk, OneSource, NothingLeft, Untouched, CopyIsWhole, OldIsAside,
     NewIsInPlace, BinIsMoved, Place, Own
<1>8. ASSUME RunBegins(t)
      PROVE  DirOk(t)'
  <2>1. pc[t] = "queued" /\ pc'[t] = "next" /\ UNCHANGED <<kind, targets>>
    BY <1>8 DEF RunBegins
  <2>2. \A p \in Places : Untouched(t, p)
    BY <2>1 DEF Untouched
  <2> QED
    BY <1>1, <1>2, <2>1, <2>2, OutsideFiles DEF OneSource, DirOk
<1>9. ASSUME NextSlot(t)
      PROVE  DirOk(t)'
  <2>1. Min(todo[t]) \in todo[t]
    BY <1>9, MinIsMember DEF NextSlot
  <2>2. /\ pc[t] = "next" /\ pc'[t] = "stop"
        /\ cur'[t] \in todo[t]
        /\ todo'[t] \subseteq todo[t]
        /\ UNCHANGED <<kind, targets>>
    BY <1>9, <2>1 DEF NextSlot
  <2>3. \A p \in Places : Untouched(t, p)' => Untouched(t, p)
    BY <2>2 DEF Untouched, Place, Kinds
  <2> QED
    BY <1>1, <1>2, <2>2, <2>3, OutsideFiles DEF OneSource, DirOk
<1>10. ASSUME StopsEarly(t) \/ Completes(t) \/ SlotCancelled(t)
       PROVE  DirOk(t)'
  <2>1. pc'[t] = "release" /\ UNCHANGED <<kind, targets>>
    BY <1>10 DEF StopsEarly, Completes, SlotCancelled, FinishAs
  <2> QED
    BY <1>1, <1>2, <2>1, OutsideFiles DEF OneSource, DirOk, Untouched
<1>11. ASSUME SlotEnds(t)
       PROVE  DirOk(t)'
  <2>1. kind[t] = "image_sync_back" => todo[t] = {}
    BY <1>2, <1>11, NothingToDo DEF SlotEnds, DirOk
  <2>2. pc[t] = "result" /\ pc'[t] = "next" /\ UNCHANGED <<kind, targets, todo>>
    BY <1>11 DEF SlotEnds
  <2>3. \A p \in Places : Untouched(t, p)' => Untouched(t, p)
    BY <2>1, <2>2 DEF Untouched, Kinds
  <2> QED
    BY <1>1, <1>2, <2>2, <2>3, OutsideFiles DEF OneSource, DirOk
<1>12. ASSUME InstanceStops(t)
       PROVE  DirOk(t)'
  BY <1>1, <1>2, <1>12 DEF InstanceStops, DirOk, OneSource, NothingLeft, Untouched, CopyIsWhole,
     OldIsAside, NewIsInPlace, BinIsMoved, Place, Own
<1>13. ASSUME InstanceBusy(t) \/ Restores(t) \/ RestoreFails(t)
       PROVE  DirOk(t)'
  <2>1. pc[t] \in SlotPCs /\ pc'[t] = "result" /\ UNCHANGED <<kind, targets, todo, cur>>
    BY <1>13 DEF InstanceBusy, Restores, RestoreFails
  <2>2. \A p \in Places : Untouched(t, p)' => Untouched(t, p)
    BY <2>1 DEF Untouched
  <2> QED
    BY <1>1, <1>2, <2>1, <2>2, OutsideFiles DEF OneSource, DirOk
<1>14. ASSUME NEW i \in Slots, Releases(t, i)
       PROVE  DirOk(t)'
  <2>1. pc'[t] = "release" /\ UNCHANGED <<kind, targets>>
    BY <1>14 DEF Releases
  <2> QED
    BY <1>1, <1>2, <2>1, OutsideFiles DEF OneSource, DirOk, Untouched
<1> QED
  BY <1>4, <1>5, <1>6, <1>7, <1>8, <1>9, <1>10, <1>11, <1>12, <1>13, <1>14 DEF ControlStep, StartRequest, RunStep

\* A file operation of t changes at most the three directories of its place.
OneReplacement(t) ==
    /\ UNCHANGED <<kind, todo, targets, cur, cancelled>>
    /\ rolledBack \subseteq rolledBack'
    /\ \A q \in (Places \X Tasks) \ {Own(t)} : temp'[q] = temp[q] /\ back'[q] = back[q]
    /\ \A p \in Places \ {Place(t)} : live'[p] = live[p]

LEMMA InFiles ==
    ASSUME TypeInv, ControlInv, DirInv, NEW t \in Tasks, pc[t] \in FilePCs,
           NEW label \in (FilePCs \ {"mkdir"}) \cup {"restore"}, Goto(t, label), OneReplacement(t),
           live'[Place(t)] = NoDir \/ live'[Place(t)].data \in Whole,
           label \in {"copy", "check", "swap"} => back'[Own(t)] = NoDir,
           CopyIsWhole(t)', OldIsAside(t)', NewIsInPlace(t)', BinIsMoved(t)'
    PROVE  DirInv'
<1>1. DirOk(t)
  BY DEF DirInv
<1>2. OnlyOf(t)
  BY DEF OneReplacement, OnlyOf, Own, Goto, TypeInv, DepTypeOK
<1>3. LiveIsWhole'
  BY DEF OneReplacement, DirInv, LiveIsWhole
<1>4. Place(t)' = Place(t) /\ Own(t)' = Own(t) /\ pc'[t] = label
  BY DEF OneReplacement, Place, Own, Goto, TypeInv, DepTypeOK
<1>5. ASSUME NEW p \in Places, Untouched(t, p)'
      PROVE  temp'[<<p, t>>] = NoDir /\ back'[<<p, t>>] = NoDir
  <2>1. kind[t] = "mirror_deploy" /\ p \in todo[t]
    BY <1>4, <1>5 DEF Untouched, OneReplacement, SlotPCs, FilePCs
  <2>2. Untouched(t, p) /\ p # Place(t)
    BY <2>1 DEF Untouched, SlotPCs, FilePCs, Place, TypeInv, SlotInWork
  <2>3. <<p, t>> \in (Places \X Tasks) \ {Own(t)}
    BY <2>2 DEF Own
  <2> QED
    BY <1>1, <2>2, <2>3 DEF OneReplacement, DirOk, NothingLeft
<1>6. NothingLeft(t)'
  BY <1>4, <1>5 DEF NothingLeft
<1>7. OneSource(t)'
  BY <1>1 DEF DirOk, OneSource, OneReplacement
<1> QED
  BY <1>2, <1>3, <1>6, <1>7, DirStep DEF DirOk

\* Every place has a complete directory, perhaps moved aside.
CopyExists ==
    \A p \in Places : live[p] # NoDir \/ \E t \in Tasks : back[<<p, t>>].data \in Whole

\* A file operation keeps the complete copy and the recycle bin of a place if
\* it keeps its own.
LEMMA CopyKept ==
    ASSUME CopyExists, NEW t \in Tasks, OneReplacement(t), Place(t) \in Places,
           \/ live'[Place(t)] # NoDir
           \/ live[Place(t)] = NoDir /\ back'[Own(t)] = back[Own(t)]
           \/ live[Place(t)] = NoDir /\ back[Own(t)] = NoDir
           \/ back'[Own(t)].data \in Whole
    PROVE  CopyExists'
<1> SUFFICES ASSUME NEW p \in Places
             PROVE  live'[p] # NoDir \/ \E u \in Tasks : back'[<<p, u>>].data \in Whole
  BY DEF CopyExists
<1>1. NoDir.data \notin Whole
  BY DeploymentConstants DEF NoDir, Whole
<1>2. CASE p # Place(t)
  BY <1>2 DEF CopyExists, OneReplacement, Own
<1>3. CASE p = Place(t)
  <2>1. \A u \in Tasks \ {t} : back'[<<p, u>>] = back[<<p, u>>]
    BY DEF OneReplacement, Own
  <2>2. <<p, t>> = Own(t)
    BY <1>3 DEF Own
  <2> QED
    BY <1>1, <1>3, <2>1, <2>2 DEF CopyExists
<1> QED
  BY <1>2, <1>3

LEMMA BinKept ==
    ASSUME BinSurvives, NEW t \in Tasks, OneReplacement(t), Place(t) \in Places,
           \/ Place(t) \in rolledBack'
           \/ live[Place(t)].bin \/ temp[Own(t)].bin \/ back[Own(t)].bin =>
                 live'[Place(t)].bin \/ temp'[Own(t)].bin \/ back'[Own(t)].bin
    PROVE  BinSurvives'
<1> SUFFICES ASSUME NEW p \in Places \ rolledBack'
             PROVE  live'[p].bin \/ \E u \in Tasks : temp'[<<p, u>>].bin \/ back'[<<p, u>>].bin
  BY DEF BinSurvives
<1>1. p \in Places \ rolledBack
  BY DEF OneReplacement
<1>2. CASE p # Place(t)
  <2>1. \A u \in Tasks : temp'[<<p, u>>] = temp[<<p, u>>] /\ back'[<<p, u>>] = back[<<p, u>>]
    BY <1>2 DEF OneReplacement, Own
  <2> QED
    BY <1>1, <1>2, <2>1 DEF BinSurvives, OneReplacement
<1>3. CASE p = Place(t)
  <2>1. \A u \in Tasks \ {t} : temp'[<<p, u>>] = temp[<<p, u>>] /\ back'[<<p, u>>] = back[<<p, u>>]
    BY DEF OneReplacement, Own
  <2>2. <<p, t>> = Own(t)
    BY <1>3 DEF Own
  <2> QED
    BY <1>1, <1>3, <2>1, <2>2 DEF BinSurvives
<1> QED
  BY <1>2, <1>3

\* The file operations of t.
DirectoryStep(t) ==
    \/ FileStep(t)
    \/ RollsBack(t)
    \/ BackupStays(t)
    \/ pc[t] \in {"mkdir", "copy", "check", "swap"} /\ Fails(t)

LEMMA FileSteps ==
    ASSUME TypeInv, ControlInv, DirInv, CopyExists, BinSurvives, NEW t \in Tasks, DirectoryStep(t)
    PROVE  DirInv' /\ CopyExists' /\ BinSurvives' /\ OneReplacement(t)
<1> DEFINE o == Own(t)
           p == Place(t)
<1>1. pc[t] \in FilePCs
  BY DEF DirectoryStep, FileStep, MakesTemp, CopyEnds, CopyInterrupted, LastCheck, MovesOldAside, MovesBin,
     EnablesNew, DropsBackup, Undoes, RollsBack, BackupStays, FilePCs
<1>2. p \in Places /\ o \in Places \X Tasks /\ o = <<p, t>>
  BY <1>1, OwnPlace DEF SlotPCs, Own
<1>3. /\ live \in [Places -> Dirs]
      /\ temp \in [Places \X Tasks -> Dirs]
      /\ back \in [Places \X Tasks -> Dirs]
      /\ rolledBack \subseteq Places
      /\ pc \in [Tasks -> PCs]
  BY DEF TypeInv, DepTypeOK
<1>4. /\ CopyIsWhole(t)
      /\ OldIsAside(t)
      /\ NewIsInPlace(t)
      /\ BinIsMoved(t)
      /\ live[p] = NoDir \/ live[p].data \in Whole
      /\ pc[t] = "mkdir" => temp[o] = NoDir /\ back[o] = NoDir
      /\ pc[t] \in {"copy", "check", "swap"} => back[o] = NoDir
  BY <1>2 DEF DirInv, DirOk, LiveIsWhole, NothingLeft, Untouched, FilePCs
<1>5. /\ UNCHANGED <<kind, todo, targets, cur, cancelled>>
      /\ p' = p
      /\ o' = o
  BY DEF DirectoryStep, FileStep, MakesTemp, CopyEnds, CopyInterrupted, LastCheck, MovesOldAside, MovesBin,
     EnablesNew, DropsBackup, Undoes, RollsBack, BackupStays, Fails, taskVars, Place, Own
<1>6. NoDir.bin = FALSE /\ NoDir.data \notin Whole /\ t \in Whole
  BY DeploymentConstants DEF NoDir, Whole
<1> HIDE DEF o, p
<1>7. CASE MakesTemp(t)
  <2>1. /\ pc[t] = "mkdir" /\ Goto(t, "copy") /\ pc'[t] = "copy"
        /\ temp'[o].bin = FALSE
        /\ \A q \in (Places \X Tasks) \ {o} : temp'[q] = temp[q]
        /\ UNCHANGED <<live, back, rolledBack>>
    BY <1>2, <1>3, <1>7 DEF MakesTemp, Goto, o
  <2>2. OneReplacement(t)
    BY <1>5, <2>1 DEF OneReplacement, o, p
  <2>3. CopyIsWhole(t)' /\ OldIsAside(t)' /\ NewIsInPlace(t)' /\ BinIsMoved(t)'
    BY <1>4, <1>5, <1>6, <2>1 DEF CopyIsWhole, OldIsAside, NewIsInPlace, BinIsMoved, o, p
  <2>4. DirInv'
    BY <1>1, <1>4, <1>6, <2>1, <2>2, <2>3, InFiles DEF FilePCs, NewIsInPlace, CopyIsWhole, OldIsAside, o, p
  <2>5. CopyExists'
    BY <1>2, <1>4, <1>6, <2>1, <2>2, CopyKept DEF CopyIsWhole, OldIsAside, NewIsInPlace, o, p
  <2>6. BinSurvives'
    BY <1>2, <1>4, <1>6, <2>1, <2>2, BinKept DEF BinIsMoved, OldIsAside, o, p
  <2> QED
    BY <2>2, <2>4, <2>5, <2>6
<1>8. CASE CopyEnds(t)
  <2>1. /\ pc[t] = "copy" /\ Goto(t, "check") /\ pc'[t] = "check"
        /\ temp'[o].bin = temp[o].bin
        /\ temp'[o].data = t \/ t \in cancelled
        /\ \A q \in (Places \X Tasks) \ {o} : temp'[q] = temp[q]
        /\ UNCHANGED <<live, back, rolledBack>>
    <3>1. PICK complete \in BOOLEAN :
            /\ complete \/ t \in cancelled
            /\ temp' = [temp EXCEPT ![o].data = IF complete THEN t ELSE "part"]
      BY <1>8 DEF CopyEnds, o
    <3>2. (IF complete THEN t ELSE "part") \in Contents
      BY DEF Contents
    <3>3. /\ temp'[o].bin = temp[o].bin
          /\ temp'[o].data = IF complete THEN t ELSE "part"
          /\ \A q \in (Places \X Tasks) \ {o} : temp'[q] = temp[q]
      BY <1>2, <1>3, <3>1, <3>2, DirUpdate
    <3> QED
      BY <1>3, <1>8, <3>1, <3>3 DEF CopyEnds, Goto
  <2>2. OneReplacement(t)
    BY <1>5, <2>1 DEF OneReplacement, o, p
  <2>3. CopyIsWhole(t)' /\ OldIsAside(t)' /\ NewIsInPlace(t)' /\ BinIsMoved(t)'
    BY <1>4, <1>5, <1>6, <2>1 DEF CopyIsWhole, OldIsAside, NewIsInPlace, BinIsMoved, o, p
  <2>4. DirInv'
    BY <1>1, <1>4, <1>6, <2>1, <2>2, <2>3, InFiles DEF FilePCs, NewIsInPlace, CopyIsWhole, OldIsAside, o, p
  <2>5. CopyExists'
    BY <1>2, <1>4, <1>6, <2>1, <2>2, CopyKept DEF CopyIsWhole, OldIsAside, NewIsInPlace, o, p
  <2>6. BinSurvives'
    BY <1>2, <1>4, <1>6, <2>1, <2>2, BinKept DEF BinIsMoved, OldIsAside, o, p
  <2> QED
    BY <2>2, <2>4, <2>5, <2>6
<1>9. CASE CopyInterrupted(t) \/ (t \in cancelled /\ LastCheck(t)) \/ (pc[t] \in {"mkdir", "copy", "check", "swap"} /\ Fails(t))
  <2>1. /\ pc[t] \in {"mkdir", "copy", "check", "swap"} /\ Goto(t, "undo") /\ pc'[t] = "undo"
        /\ UNCHANGED dirVars /\ UNCHANGED <<live, temp, back, rolledBack>>
    BY <1>3, <1>9 DEF CopyInterrupted, LastCheck, Fails, Goto, dirVars
  <2>2. OneReplacement(t)
    BY <1>5, <2>1 DEF OneReplacement, o, p
  <2>3. CopyIsWhole(t)' /\ OldIsAside(t)' /\ NewIsInPlace(t)' /\ BinIsMoved(t)'
    BY <1>4, <1>5, <1>6, <2>1 DEF CopyIsWhole, OldIsAside, NewIsInPlace, BinIsMoved, o, p
  <2>4. DirInv'
    BY <1>1, <1>4, <1>6, <2>1, <2>2, <2>3, InFiles DEF FilePCs, NewIsInPlace, CopyIsWhole, OldIsAside, o, p
  <2>5. CopyExists'
    BY <1>2, <1>4, <1>6, <2>1, <2>2, CopyKept DEF CopyIsWhole, OldIsAside, NewIsInPlace, o, p
  <2>6. BinSurvives'
    BY <1>2, <1>4, <1>6, <2>1, <2>2, BinKept DEF BinIsMoved, OldIsAside, o, p
  <2> QED
    BY <2>2, <2>4, <2>5, <2>6
<1>10. CASE t \notin cancelled /\ LastCheck(t)
  <2>1. /\ pc[t] = "check" /\ Goto(t, "swap") /\ pc'[t] = "swap" /\ t \notin cancelled
        /\ UNCHANGED <<live, temp, back, rolledBack>>
    BY <1>3, <1>10 DEF LastCheck, Goto, dirVars
  <2>2. OneReplacement(t)
    BY <1>5, <2>1 DEF OneReplacement, o, p
  <2>3. CopyIsWhole(t)' /\ OldIsAside(t)' /\ NewIsInPlace(t)' /\ BinIsMoved(t)'
    BY <1>4, <1>5, <1>6, <2>1 DEF CopyIsWhole, OldIsAside, NewIsInPlace, BinIsMoved, o, p
  <2>4. DirInv'
    BY <1>1, <1>4, <1>6, <2>1, <2>2, <2>3, InFiles DEF FilePCs, NewIsInPlace, CopyIsWhole, OldIsAside, o, p
  <2>5. CopyExists'
    BY <1>2, <1>4, <1>6, <2>1, <2>2, CopyKept DEF CopyIsWhole, OldIsAside, NewIsInPlace, o, p
  <2>6. BinSurvives'
    BY <1>2, <1>4, <1>6, <2>1, <2>2, BinKept DEF BinIsMoved, OldIsAside, o, p
  <2> QED
    BY <2>2, <2>4, <2>5, <2>6
<1>11. CASE MovesOldAside(t)
  <2>1. /\ pc[t] = "swap"
        /\ \/ live[p] = NoDir /\ Goto(t, "enable") /\ pc'[t] = "enable"
           \/ live[p] # NoDir /\ Goto(t, "bin") /\ pc'[t] = "bin"
        /\ back'[o] = live[p] /\ live'[p] = NoDir
        /\ \A q \in (Places \X Tasks) \ {o} : back'[q] = back[q]
        /\ \A q \in Places \ {p} : live'[q] = live[q]
        /\ UNCHANGED <<temp, rolledBack>>
    BY <1>2, <1>3, <1>11 DEF MovesOldAside, Goto, o, p
  <2>2. OneReplacement(t)
    BY <1>5, <2>1 DEF OneReplacement, o, p
  <2>3. CopyIsWhole(t)' /\ OldIsAside(t)' /\ NewIsInPlace(t)' /\ BinIsMoved(t)'
    BY <1>4, <1>5, <1>6, <2>1 DEF CopyIsWhole, OldIsAside, NewIsInPlace, BinIsMoved, o, p
  <2>4. DirInv'
    BY <1>1, <1>4, <1>6, <2>1, <2>2, <2>3, InFiles DEF FilePCs, NewIsInPlace, CopyIsWhole, OldIsAside, o, p
  <2>5. CopyExists'
    BY <1>2, <1>4, <1>6, <2>1, <2>2, CopyKept DEF CopyIsWhole, OldIsAside, NewIsInPlace, o, p
  <2>6. BinSurvives'
    BY <1>2, <1>4, <1>6, <2>1, <2>2, BinKept DEF BinIsMoved, OldIsAside, o, p
  <2> QED
    BY <2>2, <2>4, <2>5, <2>6
<1>12. CASE MovesBin(t)
  <2>1. /\ pc[t] = "bin" /\ Goto(t, "enable") /\ pc'[t] = "enable"
        /\ temp'[o].bin = back[o].bin /\ temp'[o].data = temp[o].data
        /\ back'[o].bin = FALSE /\ back'[o].data = back[o].data
        /\ \A q \in (Places \X Tasks) \ {o} : temp'[q] = temp[q] /\ back'[q] = back[q]
        /\ UNCHANGED <<live, rolledBack>>
    <3>1. back[o].bin \in BOOLEAN
      BY <1>2, <1>3, DirTypes
    <3>2. /\ temp'[o].bin = back[o].bin /\ temp'[o].data = temp[o].data
          /\ \A q \in (Places \X Tasks) \ {o} : temp'[q] = temp[q]
      BY <1>2, <1>3, <1>12, <3>1, DirUpdate DEF MovesBin, o
    <3>3. /\ back'[o].bin = FALSE /\ back'[o].data = back[o].data
          /\ \A q \in (Places \X Tasks) \ {o} : back'[q] = back[q]
      BY <1>2, <1>3, <1>12, DirUpdate DEF MovesBin, o
    <3> QED
      BY <1>3, <1>12, <3>2, <3>3 DEF MovesBin, Goto
  <2>2. OneReplacement(t)
    BY <1>5, <2>1 DEF OneReplacement, o, p
  <2>3. CopyIsWhole(t)' /\ OldIsAside(t)' /\ NewIsInPlace(t)' /\ BinIsMoved(t)'
    BY <1>4, <1>5, <1>6, <2>1 DEF CopyIsWhole, OldIsAside, NewIsInPlace, BinIsMoved, o, p
  <2>4. DirInv'
    BY <1>1, <1>4, <1>6, <2>1, <2>2, <2>3, InFiles DEF FilePCs, NewIsInPlace, CopyIsWhole, OldIsAside, o, p
  <2>5. CopyExists'
    BY <1>2, <1>4, <1>6, <2>1, <2>2, CopyKept DEF CopyIsWhole, OldIsAside, NewIsInPlace, o, p
  <2>6. BinSurvives'
    BY <1>2, <1>4, <1>6, <2>1, <2>2, BinKept DEF BinIsMoved, OldIsAside, o, p
  <2> QED
    BY <2>2, <2>4, <2>5, <2>6
<1>13. CASE RollsBack(t)
  <2>1. /\ pc[t] \in {"bin", "enable"} /\ Goto(t, "undo") /\ pc'[t] = "undo"
        /\ rolledBack \subseteq rolledBack'
        /\ pc[t] = "enable" => p \in rolledBack'
        /\ \/ live'[p] = back[o] /\ back'[o] = NoDir
           \/ UNCHANGED <<live, back>>
        /\ \A q \in (Places \X Tasks) \ {o} : back'[q] = back[q]
        /\ \A q \in Places \ {p} : live'[q] = live[q]
        /\ UNCHANGED temp
    BY <1>2, <1>3, <1>13 DEF RollsBack, Goto, o, p
  <2>2. OneReplacement(t)
    BY <1>5, <2>1 DEF OneReplacement, o, p
  <2>3. CopyIsWhole(t)' /\ OldIsAside(t)' /\ NewIsInPlace(t)' /\ BinIsMoved(t)'
    BY <1>4, <1>5, <1>6, <2>1 DEF CopyIsWhole, OldIsAside, NewIsInPlace, BinIsMoved, o, p
  <2>4. DirInv'
    BY <1>1, <1>4, <1>6, <2>1, <2>2, <2>3, InFiles DEF FilePCs, NewIsInPlace, CopyIsWhole, OldIsAside, o, p
  <2>5. CopyExists'
    BY <1>2, <1>4, <1>6, <2>1, <2>2, CopyKept DEF CopyIsWhole, OldIsAside, NewIsInPlace, o, p
  <2>6. BinSurvives'
    BY <1>2, <1>4, <1>6, <2>1, <2>2, BinKept DEF BinIsMoved, OldIsAside, o, p
  <2> QED
    BY <2>2, <2>4, <2>5, <2>6
<1>14. CASE EnablesNew(t)
  <2>1. /\ pc[t] = "enable" /\ Goto(t, "clean") /\ pc'[t] = "clean"
        /\ live'[p] = temp[o] /\ temp'[o] = NoDir
        /\ \A q \in (Places \X Tasks) \ {o} : temp'[q] = temp[q]
        /\ \A q \in Places \ {p} : live'[q] = live[q]
        /\ UNCHANGED <<back, rolledBack>>
    BY <1>2, <1>3, <1>14 DEF EnablesNew, Goto, o, p
  <2>2. OneReplacement(t)
    BY <1>5, <2>1 DEF OneReplacement, o, p
  <2>3. CopyIsWhole(t)' /\ OldIsAside(t)' /\ NewIsInPlace(t)' /\ BinIsMoved(t)'
    BY <1>4, <1>5, <1>6, <2>1 DEF CopyIsWhole, OldIsAside, NewIsInPlace, BinIsMoved, o, p
  <2>4. DirInv'
    BY <1>1, <1>4, <1>6, <2>1, <2>2, <2>3, InFiles DEF FilePCs, NewIsInPlace, CopyIsWhole, OldIsAside, o, p
  <2>5. CopyExists'
    BY <1>2, <1>4, <1>6, <2>1, <2>2, CopyKept DEF CopyIsWhole, OldIsAside, NewIsInPlace, o, p
  <2>6. BinSurvives'
    BY <1>2, <1>4, <1>6, <2>1, <2>2, BinKept DEF BinIsMoved, OldIsAside, o, p
  <2> QED
    BY <2>2, <2>4, <2>5, <2>6
<1>15. CASE DropsBackup(t)
  <2>1. /\ pc[t] = "clean" /\ Goto(t, "restore") /\ pc'[t] = "restore"
        /\ back'[o] = NoDir
        /\ \A q \in (Places \X Tasks) \ {o} : back'[q] = back[q]
        /\ UNCHANGED <<live, temp, rolledBack>>
    BY <1>2, <1>3, <1>15 DEF DropsBackup, Goto, o
  <2>2. OneReplacement(t)
    BY <1>5, <2>1 DEF OneReplacement, o, p
  <2>3. CopyIsWhole(t)' /\ OldIsAside(t)' /\ NewIsInPlace(t)' /\ BinIsMoved(t)'
    BY <1>4, <1>5, <1>6, <2>1 DEF CopyIsWhole, OldIsAside, NewIsInPlace, BinIsMoved, o, p
  <2>4. DirInv'
    BY <1>1, <1>4, <1>6, <2>1, <2>2, <2>3, InFiles DEF FilePCs, NewIsInPlace, CopyIsWhole, OldIsAside, o, p
  <2>5. CopyExists'
    BY <1>2, <1>4, <1>6, <2>1, <2>2, CopyKept DEF CopyIsWhole, OldIsAside, NewIsInPlace, o, p
  <2>6. BinSurvives'
    BY <1>2, <1>4, <1>6, <2>1, <2>2, BinKept DEF BinIsMoved, OldIsAside, o, p
  <2> QED
    BY <2>2, <2>4, <2>5, <2>6
<1>16. CASE BackupStays(t)
  <2>1. /\ pc[t] = "clean" /\ Goto(t, "restore") /\ pc'[t] = "restore"
        /\ back'[o].bin = back[o].bin
        /\ \A q \in (Places \X Tasks) \ {o} : back'[q] = back[q]
        /\ UNCHANGED <<live, temp, rolledBack>>
    <3>1. /\ back'[o].bin = back[o].bin
          /\ \A q \in (Places \X Tasks) \ {o} : back'[q] = back[q]
      BY <1>2, <1>3, <1>16, DirUpdate DEF BackupStays, Contents, o
    <3> QED
      BY <1>3, <1>16, <3>1 DEF BackupStays, Goto
  <2>2. OneReplacement(t)
    BY <1>5, <2>1 DEF OneReplacement, o, p
  <2>3. CopyIsWhole(t)' /\ OldIsAside(t)' /\ NewIsInPlace(t)' /\ BinIsMoved(t)'
    BY <1>4, <1>5, <1>6, <2>1 DEF CopyIsWhole, OldIsAside, NewIsInPlace, BinIsMoved, o, p
  <2>4. DirInv'
    BY <1>1, <1>4, <1>6, <2>1, <2>2, <2>3, InFiles DEF FilePCs, NewIsInPlace, CopyIsWhole, OldIsAside, o, p
  <2>5. CopyExists'
    BY <1>2, <1>4, <1>6, <2>1, <2>2, CopyKept DEF CopyIsWhole, OldIsAside, NewIsInPlace, o, p
  <2>6. BinSurvives'
    BY <1>2, <1>4, <1>6, <2>1, <2>2, BinKept DEF BinIsMoved, OldIsAside, o, p
  <2> QED
    BY <2>2, <2>4, <2>5, <2>6
<1>17. CASE Undoes(t)
  <2>1. /\ pc[t] = "undo" /\ Goto(t, "restore") /\ pc'[t] = "restore"
        /\ \A q \in (Places \X Tasks) \ {o} : temp'[q] = temp[q]
        /\ UNCHANGED <<live, back, rolledBack>>
    <3>1. \A q \in (Places \X Tasks) \ {o} : temp'[q] = temp[q]
      BY <1>2, <1>3, <1>17, DirUpdate DEF Undoes, Contents, o
    <3> QED
      BY <1>3, <1>17, <3>1 DEF Undoes, Goto
  <2>2. OneReplacement(t)
    BY <1>5, <2>1 DEF OneReplacement, o, p
  <2>3. CopyIsWhole(t)' /\ OldIsAside(t)' /\ NewIsInPlace(t)' /\ BinIsMoved(t)'
    BY <1>4, <1>5, <1>6, <2>1 DEF CopyIsWhole, OldIsAside, NewIsInPlace, BinIsMoved, o, p
  <2>4. DirInv'
    BY <1>1, <1>4, <1>6, <2>1, <2>2, <2>3, InFiles DEF FilePCs, NewIsInPlace, CopyIsWhole, OldIsAside, o, p
  <2>5. CopyExists'
    BY <1>2, <1>4, <1>6, <2>1, <2>2, CopyKept DEF CopyIsWhole, OldIsAside, NewIsInPlace, o, p
  <2>6. BinSurvives'
    BY <1>2, <1>4, <1>6, <2>1, <2>2, BinKept DEF BinIsMoved, OldIsAside, o, p
  <2> QED
    BY <2>2, <2>4, <2>5, <2>6
<1> QED
  BY <1>7, <1>8, <1>9, <1>10, <1>11, <1>12, <1>13, <1>14, <1>15, <1>16, <1>17 DEF DirectoryStep, FileStep

LEMMA DirInvariant == DepSpec => [](DirInv /\ CopyExists /\ BinSurvives)
<1>1. DepInit => DirInv /\ CopyExists /\ BinSurvives
  <2> SUFFICES ASSUME DepInit
               PROVE  DirInv /\ CopyExists /\ BinSurvives
    OBVIOUS
  <2>1. \A p \in Places : live[p].data = Original /\ live[p].bin = TRUE
    BY DEF DepInit
  <2>2. LiveIsWhole /\ CopyExists /\ BinSurvives
    BY <2>1, DeploymentConstants DEF LiveIsWhole, Whole, CopyExists, BinSurvives, NoDir
  <2>3. ASSUME NEW t \in Tasks
        PROVE  DirOk(t)
    BY DEF DepInit, DirOk, OneSource, NothingLeft, CopyIsWhole, OldIsAside, NewIsInPlace, BinIsMoved
  <2> QED
    BY <2>2, <2>3 DEF DirInv
<1>2. TypeInv /\ ControlInv /\ (DirInv /\ CopyExists /\ BinSurvives) /\ [DepNext]_depVars
        => (DirInv /\ CopyExists /\ BinSurvives)'
  <2> SUFFICES ASSUME TypeInv, ControlInv, DirInv, CopyExists, BinSurvives, [DepNext]_depVars
               PROVE  (DirInv /\ CopyExists /\ BinSurvives)'
    OBVIOUS
  <2>1. UNCHANGED dirVars => CopyExists' /\ BinSurvives'
    BY DEF dirVars, CopyExists, BinSurvives
  <2>2. ASSUME NEW t \in Tasks, ControlStep(t)
        PROVE  (DirInv /\ CopyExists /\ BinSurvives)'
    BY <2>1, <2>2, ControlFrame, ControlSteps
  <2>3. ASSUME NEW t \in Tasks, DirectoryStep(t)
        PROVE  (DirInv /\ CopyExists /\ BinSurvives)'
    BY <2>3, FileSteps
  <2>4. CASE ImageMutationBegins \/ ImageMutationEnds \/ UNCHANGED depVars
            \/ \E i \in Slots : Starts(i) \/ ProcessEnds(i) \/ LosesLink(i)
    <3>1. UNCHANGED <<pc, kind, todo, targets, cur, cancelled, live, temp, back, rolledBack>>
      BY <2>4 DEF ImageMutationBegins, ImageMutationEnds, Starts, ProcessEnds, LosesLink, Attached, depVars, taskVars, procVars, dirVars
    <3> QED
      BY <2>1, <3>1 DEF dirVars, DirInv, LiveIsWhole, DirOk, OneSource, NothingLeft, Untouched, CopyIsWhole,
         OldIsAside, NewIsInPlace, BinIsMoved, Place, Own
  <2>5. CASE Crash
    <3>1. UNCHANGED dirVars
      BY <2>5 DEF Crash
    <3>2. ASSUME NEW t \in Tasks
          PROVE  DirOk(t)'
      <4>1. CASE pc[t] = "new"
        <5>1. UNCHANGED <<pc[t], kind[t], targets[t]>>
          BY <2>5, <4>1 DEF Crash, Forget
        <5>2. DirOk(t)
          BY DEF DirInv
        <5>3. OneSource(t)' /\ pc'[t] \notin FilePCs /\ \A p \in Places : Untouched(t, p)
          BY <4>1, <5>1, <5>2 DEF DirOk, OneSource, Untouched, FilePCs
        <5> QED
          BY <3>1, <5>2, <5>3, OutsideFiles
      <4>2. CASE pc[t] # "new"
        <5>1. pc'[t] = "gone" /\ kind'[t] = "mirror_deploy"
          BY <2>5, <4>2 DEF Crash, Forget
        <5>2. DirOk(t)
          BY DEF DirInv
        <5>3. OneSource(t)' /\ pc'[t] \notin FilePCs /\ \A p \in Places : ~Untouched(t, p)'
          BY <5>1 DEF OneSource, Untouched, FilePCs, SlotPCs
        <5> QED
          BY <3>1, <5>2, <5>3, OutsideFiles
      <4> QED
        BY <4>1, <4>2
    <3>3. LiveIsWhole'
      BY <3>1 DEF dirVars, DirInv, LiveIsWhole
    <3> QED
      BY <2>1, <3>1, <3>2, <3>3 DEF DirInv
  <2> QED
    BY <2>2, <2>3, <2>4, <2>5 DEF DepNext, ControlStep, DirectoryStep, FaultStep
<1> QED
  BY <1>1, <1>2, TypeInvariant, ControlInvariant, PTL DEF DepSpec

\* No failure, cancellation or exit of the daemon leaves a place without a
\* complete directory, or half a copy in place (deployFiles,
\* syncInstanceBackToImage).
THEOREM DepAlwaysWhole == DepSpec => []AlwaysWhole
<1>1. "part" \notin Whole /\ NoDir.data # "part"
  BY DeploymentConstants DEF Whole, NoDir
<1>2. DirInv => \A p \in Places : live[p].data # "part"
  BY <1>1 DEF DirInv, LiveIsWhole
<1>3. DirInv /\ CopyExists => AlwaysWhole
  BY <1>2 DEF CopyExists, AlwaysWhole, Whole
<1> QED
  BY <1>3, DirInvariant, PTL

\* The recycle bin of a place is never lost, unless the second rename of a
\* swap failed there (preserveRecycleBin).
THEOREM DepBinSurvives == DepSpec => []BinSurvives
BY DirInvariant, PTL

\* Neither the files nor the recycle bin of a directory get lost
\* (deployFiles, syncInstanceBackToImage, preserveRecycleBin).
THEOREM DepDirectoriesSurvive == DepSpec => []DirectoriesSurvive
<1>1. AlwaysWhole /\ BinSurvives => DirectoriesSurvive
  BY DEF DirectoriesSurvive
<1> QED
  BY <1>1, DepAlwaysWhole, DepBinSurvives, PTL
-----------------------------------------------------------------------------
(* What a completed task has done.                                         *)

\* What a task has already replaced is its own work.
SlotIsDone(t) ==
    pc[t] \in {"restore", "result"} /\ t \notin err => live[Place(t)].data = t
TargetsAreDone(t) ==
    Inserted(t) /\ t \notin failed =>
        IF kind[t] = "image_sync_back"
          THEN pc[t] = "next" /\ todo[t] = {} => live[Image].data = t
          ELSE \A i \in targets[t] \ todo[t] :
                   live[i].data = t \/ (pc[t] \in SlotPCs /\ i = cur[t])

\* A task begins with all of its targets to come, and has at least one.
AllToDo(t) == pc[t] = "queued" => todo[t] = targets[t]
HasTargets(t) == pc[t] \notin {"new", "gone"} => targets[t] # {}

DoneOk(t) == SlotIsDone(t) /\ TargetsAreDone(t) /\ AllToDo(t) /\ HasTargets(t)

DoneInv == \A t \in Tasks : DoneOk(t)

\* Only the task of the group changes a directory in place, and only its own
\* steps move it on.
LEMMA OthersDone ==
    ASSUME TypeInv, ControlInv, NEW t \in Tasks, OnlyOf(t), NEW u \in Tasks \ {t}, DoneOk(u),
           u \in err => u \in err', u \in failed => u \in failed'
    PROVE  DoneOk(u)'
<1>1. Inserted(u) => UNCHANGED live
  BY DEF OnlyOf, ControlInv, OneTaskPerGroup, Inserted, RunPCs
<1>2. Place(u)' = Place(u)
  BY DEF OnlyOf, Place
<1>3. SlotIsDone(u)'
  BY <1>1, <1>2 DEF OnlyOf, DoneOk, SlotIsDone, Inserted, RunPCs
<1>4. TargetsAreDone(u)'
  BY <1>1 DEF OnlyOf, DoneOk, TargetsAreDone, Inserted
<1>5. AllToDo(u)' /\ HasTargets(u)'
  BY DEF OnlyOf, DoneOk, AllToDo, HasTargets
<1> QED
  BY <1>3, <1>4, <1>5 DEF DoneOk

LEMMA DirectoryFrame ==
    ASSUME TypeInv, ControlInv, DirInv, CopyExists, BinSurvives, NEW t \in Tasks, DirectoryStep(t)
    PROVE  OnlyOf(t) /\ ErrorsKept(t)
<1>1. OneReplacement(t)
  BY FileSteps
<1>2. pc[t] \in FilePCs /\ \A u \in Tasks \ {t} : pc'[u] = pc[u]
  BY DEF DirectoryStep, FileStep, MakesTemp, CopyEnds, CopyInterrupted, LastCheck, MovesOldAside, MovesBin,
     EnablesNew, DropsBackup, Undoes, RollsBack, BackupStays, Fails, FilePCs, Goto, TypeInv, DepTypeOK
<1>3. ErrorsKept(t)
  BY DEF ErrorsKept, DirectoryStep, FileStep, MakesTemp, CopyEnds, CopyInterrupted, LastCheck, MovesOldAside,
     MovesBin, EnablesNew, DropsBackup, Undoes, RollsBack, BackupStays, Fails, taskVars
<1> QED
  BY <1>1, <1>2, <1>3 DEF OneReplacement, OnlyOf, Own

\* Between the file operations.
LEMMA ControlDone ==
    ASSUME TypeInv, ControlInv, DirInv, DoneInv, NEW t \in Tasks, ControlStep(t)
    PROVE  DoneOk(t)'
<1> USE DEF TypeInv, DepTypeOK, Inserted, SlotPCs, RunPCs, FilePCs, Goto, taskVars, lockVars, procVars, dirVars
<1>1. DoneOk(t) /\ OneSource(t) /\ UNCHANGED live
  BY ControlFrame DEF DoneInv, DirInv, DirOk
<1> USE DEF DoneOk, SlotIsDone, TargetsAreDone, AllToDo, HasTargets
<1>2. ASSUME NEW k \in Kinds, NEW slots \in SUBSET Requested, StartChecks(t, k, slots)
      PROVE  DoneOk(t)'
  <2>1. pc'[t] = "checked" /\ targets'[t] # {}
    BY <1>2 DEF StartChecks
  <2> QED
    BY <2>1
<1>3. ASSUME StartRefused(t) \/ ReleasesImage(t)
      PROVE  DoneOk(t)'
  <2>1. pc'[t] = "gone"
    BY <1>3 DEF StartRefused, ReleasesImage, Forget
  <2> QED
    BY <2>1
<1>4. ASSUME StartReserves(t)
      PROVE  DoneOk(t)'
  <2>1. pc[t] = "checked" /\ pc'[t] = "reserved" /\ UNCHANGED targets
    BY <1>4 DEF StartReserves
  <2> QED
    BY <1>1, <2>1
<1>5. ASSUME StartInserts(t)
      PROVE  DoneOk(t)'
  <2>1. /\ pc[t] = "reserved" /\ UNCHANGED <<kind, targets>>
        /\ pc'[t] = "release" \/ (pc'[t] = "queued" /\ todo'[t] = targets[t])
    BY <1>5 DEF StartInserts
  <2> QED
    BY <1>1, <2>1
<1>6. ASSUME NEW x \in BOOLEAN, Cancel(t, x)
      PROVE  DoneOk(t)'
  <2>1. UNCHANGED <<pc, kind, todo, targets, cur, err, failed>>
    BY <1>6 DEF Cancel
  <2> QED
    BY <1>1, <2>1 DEF Place
<1>7. ASSUME RunBegins(t)
      PROVE  DoneOk(t)'
  <2>1. pc[t] = "queued" /\ pc'[t] = "next" /\ UNCHANGED <<kind, todo, targets>>
    BY <1>7 DEF RunBegins
  <2> QED
    BY <1>1, <2>1
<1>8. ASSUME NextSlot(t)
      PROVE  DoneOk(t)'
  <2>1. Min(todo[t]) \in todo[t]
    BY <1>8, MinIsMember DEF NextSlot
  <2>2. /\ pc[t] = "next" /\ pc'[t] = "stop"
        /\ todo'[t] = todo[t] \ {cur'[t]}
        /\ UNCHANGED <<kind, targets, failed>>
    BY <1>8, <2>1 DEF NextSlot
  <2> QED
    BY <1>1, <2>2
<1>9. ASSUME StopsEarly(t) \/ Completes(t) \/ SlotCancelled(t)
      PROVE  DoneOk(t)'
  <2>1. pc[t] \in {"next", "result"} /\ pc'[t] = "release" /\ UNCHANGED targets
    BY <1>9 DEF StopsEarly, Completes, SlotCancelled, FinishAs
  <2> QED
    BY <1>1, <2>1
<1>10. ASSUME SlotEnds(t)
       PROVE  DoneOk(t)'
  <2>1. /\ pc[t] = "result" /\ pc'[t] = "next"
        /\ t \notin failed' => t \notin failed /\ t \notin err
        /\ UNCHANGED <<kind, todo, targets, cur>>
    BY <1>10 DEF SlotEnds
  <2> QED
    BY <1>1, <2>1 DEF Place
<1>11. ASSUME InstanceStops(t)
       PROVE  DoneOk(t)'
  <2>1. pc[t] = "stop" /\ pc'[t] = "mkdir" /\ UNCHANGED <<kind, todo, targets, cur, failed>>
    BY <1>11 DEF InstanceStops
  <2> QED
    BY <1>1, <2>1
<1>12. ASSUME InstanceBusy(t) \/ Restores(t) \/ RestoreFails(t)
       PROVE  DoneOk(t)'
  <2>1. /\ pc[t] \in {"stop", "restore"} /\ pc'[t] = "result"
        /\ pc[t] = "stop" => t \in err'
        /\ err \subseteq err'
        /\ UNCHANGED <<kind, todo, targets, cur, failed>>
    BY <1>12 DEF InstanceBusy, Restores, RestoreFails
  <2> QED
    BY <1>1, <2>1 DEF Place
<1>13. ASSUME NEW i \in Slots, Releases(t, i)
       PROVE  DoneOk(t)'
  <2>1. pc[t] = "release" /\ pc'[t] = "release" /\ UNCHANGED targets
    BY <1>13 DEF Releases
  <2> QED
    BY <1>1, <2>1
<1> QED
  BY <1>2, <1>3, <1>4, <1>5, <1>6, <1>7, <1>8, <1>9, <1>10, <1>11, <1>12, <1>13
     DEF ControlStep, StartRequest, RunStep

\* At the file operations: only the directory of the slot in work changes.
LEMMA DirectoryDone ==
    ASSUME TypeInv, ControlInv, DirInv, CopyExists, BinSurvives, DoneInv, NEW t \in Tasks, DirectoryStep(t)
    PROVE  DoneOk(t)'
<1>1. DoneOk(t) /\ NewIsInPlace(t) /\ OneReplacement(t)
  BY FileSteps DEF DoneInv, DirInv, DirOk
<1>2. pc[t] \in FilePCs /\ pc'[t] \in FilePCs \cup {"restore"}
  BY DEF DirectoryStep, FileStep, MakesTemp, CopyEnds, CopyInterrupted, LastCheck, MovesOldAside, MovesBin,
     EnablesNew, DropsBackup, Undoes, RollsBack, BackupStays, Fails, FilePCs, Goto, TypeInv, DepTypeOK
<1>3. UNCHANGED failed
  BY DEF DirectoryStep, FileStep, MakesTemp, CopyEnds, CopyInterrupted, LastCheck, MovesOldAside, MovesBin,
     EnablesNew, DropsBackup, Undoes, RollsBack, BackupStays, Fails, taskVars
<1>4. pc'[t] = "restore" => t \in err' \/ (pc[t] = "clean" /\ UNCHANGED live)
  BY DEF DirectoryStep, FileStep, MakesTemp, CopyEnds, CopyInterrupted, LastCheck, MovesOldAside, MovesBin,
     EnablesNew, DropsBackup, Undoes, RollsBack, BackupStays, Fails, Goto, TypeInv, DepTypeOK
<1>5. Place(t)' = Place(t)
  BY <1>1 DEF OneReplacement, Place
<1>6. SlotIsDone(t)'
  BY <1>1, <1>2, <1>4, <1>5 DEF SlotIsDone, NewIsInPlace, FilePCs
<1>7. kind[t] = "mirror_deploy" => \A i \in targets[t] \ {cur[t]} : live'[i] = live[i]
  BY <1>1 DEF OneReplacement, Place, Places, TypeInv, DepTypeOK
<1>8. TargetsAreDone(t)'
  BY <1>1, <1>2, <1>3, <1>7 DEF DoneOk, TargetsAreDone, OneReplacement, Inserted, RunPCs, FilePCs, SlotPCs,
     TypeInv, DepTypeOK, Kinds
<1>9. AllToDo(t)' /\ HasTargets(t)'
  BY <1>1, <1>2 DEF DoneOk, AllToDo, HasTargets, OneReplacement, FilePCs
<1> QED
  BY <1>6, <1>8, <1>9 DEF DoneOk

LEMMA DoneInvariant == DepSpec => []DoneInv
<1>1. DepInit => DoneInv
  BY DEF DepInit, DoneInv, DoneOk, SlotIsDone, TargetsAreDone, AllToDo, HasTargets, Inserted, RunPCs, FilePCs
<1>2. TypeInv /\ ControlInv /\ (DirInv /\ CopyExists /\ BinSurvives) /\ DoneInv /\ [DepNext]_depVars => DoneInv'
  <2> SUFFICES ASSUME TypeInv, ControlInv, DirInv, CopyExists, BinSurvives, DoneInv, [DepNext]_depVars
               PROVE  DoneInv'
    OBVIOUS
  <2>1. ASSUME NEW t \in Tasks, OnlyOf(t), ErrorsKept(t), DoneOk(t)'
        PROVE  DoneInv'
    BY <2>1, OthersDone DEF DoneInv, ErrorsKept
  <2>2. ASSUME NEW t \in Tasks, ControlStep(t)
        PROVE  DoneInv'
    BY <2>1, <2>2, ControlFrame, ControlDone
  <2>3. ASSUME NEW t \in Tasks, DirectoryStep(t)
        PROVE  DoneInv'
    BY <2>1, <2>3, DirectoryFrame, DirectoryDone
  <2>4. CASE ImageMutationBegins \/ ImageMutationEnds \/ UNCHANGED depVars
            \/ \E i \in Slots : Starts(i) \/ ProcessEnds(i) \/ LosesLink(i)
    <3>1. UNCHANGED <<pc, kind, todo, targets, cur, err, failed, live>>
      BY <2>4 DEF ImageMutationBegins, ImageMutationEnds, Starts, ProcessEnds, LosesLink, Attached, depVars, taskVars, procVars, dirVars
    <3> QED
      BY <3>1 DEF DoneInv, DoneOk, SlotIsDone, TargetsAreDone, AllToDo, HasTargets, Inserted, Place
  <2>5. CASE Crash
    <3>1. \A t \in Tasks : pc'[t] \in {"new", "gone"}
      BY <2>5 DEF Crash, Forget
    <3> QED
      BY <3>1 DEF DoneInv, DoneOk, SlotIsDone, TargetsAreDone, AllToDo, HasTargets, Inserted, RunPCs, FilePCs
  <2> QED
    BY <2>2, <2>3, <2>4, <2>5 DEF DepNext, ControlStep, DirectoryStep, FaultStep
<1> QED
  BY <1>1, <1>2, TypeInvariant, ControlInvariant, DirInvariant, PTL DEF DepSpec

\* Only run's end, after the last slot, reports a task completed.
LEMMA OnlyCompletes ==
    ASSUME TypeInv, [DepNext]_depVars, NEW t \in Tasks, status'[t] = "completed", status[t] # "completed"
    PROVE  Completes(t) /\ t \notin failed
<1>1. status \in [Tasks -> Statuses]
  BY DEF TypeInv, DepTypeOK
<1>2. \/ \E u \in Tasks : StartInserts(u) \/ RunBegins(u)
                         \/ StopsEarly(u) \/ Completes(u) \/ SlotCancelled(u)
      \/ \E u \in Tasks, f \in BOOLEAN : Cancel(u, f)
      \/ Crash
  BY DEF DepNext, depVars, taskVars, StartChecks, StartRequest, StartRefused, StartReserves, RunStep,
     NextSlot, SlotEnds, InstanceStops, Restores, ReleasesImage, Releases, FileStep, MakesTemp,
     CopyEnds, CopyInterrupted, LastCheck, MovesOldAside, MovesBin, EnablesNew, DropsBackup, Undoes,
     FaultStep, InstanceBusy, RestoreFails, RollsBack, BackupStays, Fails, ImageMutationBegins,
     ImageMutationEnds, Starts, ProcessEnds, LosesLink, Attached
<1>3. ~Crash
  BY DEF Crash
<1>4. \A u \in Tasks : ~StartInserts(u) /\ ~RunBegins(u)
  BY <1>1 DEF StartInserts, RunBegins
<1>5. \A u \in Tasks, f \in BOOLEAN : ~Cancel(u, f)
  BY <1>1 DEF Cancel
<1>6. \A u \in Tasks : ~StopsEarly(u) /\ ~SlotCancelled(u)
  BY <1>1 DEF StopsEarly, SlotCancelled, FinishAs, Cancelled
<1>7. PICK u \in Tasks : Completes(u)
  BY <1>2, <1>3, <1>4, <1>5, <1>6
<1>8. status' = [status EXCEPT ![u] = IF u \in failed THEN "completed_with_errors" ELSE "completed"]
  BY <1>7 DEF Completes, FinishAs
<1>9. u = t
  BY <1>1, <1>8
<1> QED
  BY <1>1, <1>7, <1>8, <1>9

\* A task that reports completed leaves every target as its own complete copy
\* (run, Snapshot).
THEOREM DepCompletedIsDone == DepSpec => CompletedIsDone
<1>1. TypeInv /\ DoneInv /\ [DepNext]_depVars =>
        \A t \in Tasks :
            (status'[t] = "completed" /\ status[t] # "completed") =>
                IF kind[t] = "image_sync_back" THEN live[Image].data = t
                ELSE \A i \in targets[t] : live[i].data = t
  <2> SUFFICES ASSUME TypeInv, DoneInv, [DepNext]_depVars, NEW t \in Tasks,
                      status'[t] = "completed", status[t] # "completed"
               PROVE  IF kind[t] = "image_sync_back" THEN live[Image].data = t
                      ELSE \A i \in targets[t] : live[i].data = t
    OBVIOUS
  <2>1. pc[t] = "next" /\ todo[t] = {} /\ t \notin failed
    BY OnlyCompletes DEF Completes
  <2> QED
    BY <2>1 DEF DoneInv, DoneOk, TargetsAreDone, Inserted, RunPCs, SlotPCs, FilePCs
<1> QED
  BY <1>1, TypeInvariant, DoneInvariant, PTL DEF DepSpec, CompletedIsDone
=============================================================================
