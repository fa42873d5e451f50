------------------------------- MODULE Schedule -------------------------------
(***************************************************************************)
(* The scheduled tasks of the panel (panel/internal/schedule and           *)
(* panel/internal/store).                                                  *)
(*                                                                         *)
(* Every two seconds the schedule loop lists the tasks that are due and    *)
(* claims them one by one: in one transaction the task gets its next due   *)
(* time and a run is inserted.  A run is executed by goroutines, one per   *)
(* target, that send a command to a daemon and write what came of it.      *)
(* Users create, change, delete and start tasks meanwhile; the panel may   *)
(* be shut down, killed and started again, and a statement may fail.       *)
(*                                                                         *)
(* Time is a number of ticks.  A schedule is "once" (at a time the user    *)
(* chose), "daily" (at the multiples of Period; a weekly one is the same   *)
(* with a longer Period) or "interval" (every Period ticks from the time   *)
(* it was saved).  Each time a user saves a task it gets a version, which  *)
(* only the properties look at; the id of a deleted task never comes back. *)
(***************************************************************************)
EXTENDS Naturals

CONSTANTS
    Tasks,     \* ids of scheduled tasks
    Targets,   \* the instances every task is about
    MaxRuns,   \* bound on the runs
    Kinds,     \* kinds of schedules users choose
    NoTask,
    Never,     \* next_run_at IS NULL
    MaxTime,   \* bound on the clock
    Period,    \* distance between two due times of a repeated task
    Grace,     \* missedGracePeriod
    MaxEdits,  \* bound on how often a task is saved
    MaxFaults, \* bound on failing statements
    MaxCrash   \* bound on the starts of the panel

ASSUME ScheduleConstants ==
    /\ Kinds \subseteq {"once", "daily", "interval"}
    /\ NoTask \notin Tasks
    /\ Never \notin Nat
    /\ MaxRuns \in Nat \ {0}
    /\ MaxTime \in Nat
    /\ Period \in Nat \ {0}
    /\ Grace \in Nat
    /\ MaxEdits \in Nat
    /\ MaxFaults \in Nat
    /\ MaxCrash \in Nat

VARIABLES
    now,
    task,    \* table scheduled_tasks
    run,     \* tables task_runs and task_run_targets
    saving,  \* a request that prepared a task and is about to save it
    loop,    \* the cycle of the schedule loop
    exec,    \* the goroutine of a run
    part,    \* the goroutine of a target of a run
    panel,   \* the panel's process
    sent,    \* how often a daemon received the command of a run for a target
    faults, crashes

schedVars == <<now, task, run, saving, loop, exec, part, panel, sent, faults, crashes>>

Runs   == 1 .. MaxRuns
Times  == 0 .. MaxTime + Period
Dues   == Times \cup {Never}
Open   == {"queued", "running"}
Ended  == {"completed", "completed_with_errors", "failed", "missed"}

NoRow    == [exists |-> FALSE, enabled |-> FALSE, due |-> Never, kind |-> "once", version |-> 0]
NoRun    == [task |-> NoTask, version |-> 0, due |-> Never, status |-> "none",
             results |-> [x \in Targets |-> "none"]]
NoCycle  == [at |-> "wait", now |-> 0, todo |-> {}]
NoSaving == [task |-> NoTask, due |-> Never, kind |-> "once"]

SchedTypeOK ==
    /\ now \in 0 .. MaxTime
    /\ task \in [Tasks -> [exists : BOOLEAN, enabled : BOOLEAN, due : Dues, kind : Kinds \cup {"once"},
                           version : 0 .. MaxEdits]]
    /\ run \in [Runs -> [task : Tasks \cup {NoTask}, version : 0 .. MaxEdits, due : Dues,
                         status : Open \cup Ended \cup {"none"},
                         results : [Targets -> Open \cup Ended \cup {"none"}]]]
    /\ saving \in [task : Tasks \cup {NoTask}, due : Dues, kind : Kinds \cup {"once"}]
    /\ loop \in [at : {"wait", "claim"}, now : 0 .. MaxTime,
                 todo : SUBSET (Tasks \X Times \X Kinds)]
    /\ exec \in [Runs -> {"none", "start", "targets"}]
    /\ part \in [Runs \X Targets -> {"none", "begin", "call", "ok", "bad", "done"}]
    /\ panel \in {"up", "closing", "down"}
    /\ sent \in [Runs \X Targets -> 0 .. 2]
    /\ faults \in 0 .. MaxFaults
    /\ crashes \in 0 .. MaxCrash
    /\ \A t \in Tasks : task[t].enabled <=> task[t].exists /\ task[t].due # Never

SchedInit ==
    /\ now = 0
    /\ task = [t \in Tasks |-> NoRow]
    /\ run = [r \in Runs |-> NoRun]
    /\ saving = NoSaving
    /\ loop = NoCycle
    /\ exec = [r \in Runs |-> "none"]
    /\ part = [p \in Runs \X Targets |-> "none"]
    /\ panel = "up"
    /\ sent = [p \in Runs \X Targets |-> 0]
    /\ faults = 0
    /\ crashes = 0

-----------------------------------------------------------------------------
(* The due times.                                                          *)

\* nextDaily and nextWeekly: the first time of the schedule after a time.
NextDue(after) == (after \div Period + 1) * Period

\* FirstRun: a single time has to be later than now.
FirstRun(kind) ==
    IF kind = "once" THEN {d \in 0 .. MaxTime : d > now}
    ELSE IF kind = "daily" THEN {NextDue(now)} ELSE {now + Period}

\* NextAfter, for a task that was due at a time.
NextAfter(kind, due, at) ==
    IF kind = "once" THEN Never
    ELSE IF kind = "daily" THEN NextDue(at)
    ELSE due + ((at - due) \div Period + 1) * Period

Tick ==
    /\ now < MaxTime
    /\ now' = now + 1
    /\ UNCHANGED <<task, run, saving, loop, exec, part, panel, sent, faults, crashes>>

-----------------------------------------------------------------------------
(* Requests: CreateTask, UpdateTask, DeleteScheduledTask, RunNow.          *)

\* prepareTask computes the due time; a task that is not enabled has none, and
\* its kind does not matter.
Prepare(t, kind, enabled) ==
    /\ enabled \/ kind = "once"
    /\ panel = "up"
    /\ saving = NoSaving
    /\ task[t].exists \/ task[t].version = 0
    /\ task[t].version < MaxEdits
    /\ \E due \in FirstRun(kind) :
         saving' = [task |-> t, due |-> IF enabled THEN due ELSE Never, kind |-> kind]
    /\ UNCHANGED <<now, task, run, loop, exec, part, panel, sent, faults, crashes>>

Save ==
    /\ saving # NoSaving
    /\ task' = [task EXCEPT ![saving.task] =
                  [exists |-> TRUE, enabled |-> saving.due # Never, due |-> saving.due,
                   kind |-> saving.kind, version |-> task[saving.task].version + 1]]
    /\ saving' = NoSaving
    /\ UNCHANGED <<now, run, loop, exec, part, panel, sent, faults, crashes>>

\* An update of a task that was deleted meanwhile changes nothing.
DeleteTask(t) ==
    /\ panel # "down"
    /\ task[t].exists
    /\ task' = [task EXCEPT ![t] = [NoRow EXCEPT !.version = task[t].version]]
    /\ saving' = IF saving.task = t THEN NoSaving ELSE saving
    /\ UNCHANGED <<now, run, loop, exec, part, panel, sent, faults, crashes>>

NewRun(r, t, due, status) ==
    [task |-> t, version |-> task[t].version, due |-> due, status |-> status,
     results |-> [x \in Targets |-> status]]

\* The next run to be inserted.
Unused(r) == run[r].status = "none" /\ \A q \in 1 .. r - 1 : run[q].status # "none"

\* A request that is under way at a shutdown is still served.
RunNow(t, r) ==
    /\ panel # "down"
    /\ task[t].exists
    /\ Unused(r)
    /\ run' = [run EXCEPT ![r] = NewRun(r, t, Never, "queued")]
    /\ exec' = [exec EXCEPT ![r] = "start"]
    /\ UNCHANGED <<now, task, saving, loop, part, panel, sent, faults, crashes>>

-----------------------------------------------------------------------------
(* processDue.                                                             *)

\* ListDueScheduledTasks.
CycleBegins ==
    /\ panel = "up"
    /\ loop.at = "wait"
    /\ LET due == {t \in Tasks : task[t].enabled /\ task[t].due <= now} IN
         /\ due # {}
         /\ loop' = [at |-> "claim", now |-> now,
                     todo |-> {<<t, task[t].due, task[t].kind>> : t \in due}]
    /\ UNCHANGED <<now, task, run, saving, exec, part, panel, sent, faults, crashes>>

Took(c) ==
    loop' = IF loop.todo = {c} THEN NoCycle ELSE [loop EXCEPT !.todo = @ \ {c}]

\* The row is not the one that was listed, or a statement failed.
ClaimsNothing(c) ==
    /\ c \in loop.todo
    /\ \/ ~(task[c[1]].enabled /\ task[c[1]].due = c[2]) /\ UNCHANGED faults
       \/ panel = "closing" /\ UNCHANGED faults
       \/ faults < MaxFaults /\ faults' = faults + 1
    /\ Took(c)
    /\ UNCHANGED <<now, task, run, saving, exec, part, panel, sent, crashes>>

\* The claim of a listed task whose row is still as it was listed.
ClaimedAs(c, r, enabled, next, status, state) ==
    /\ c \in loop.todo
    /\ panel = "up"
    /\ task[c[1]].enabled
    /\ task[c[1]].due = c[2]
    /\ Unused(r)
    /\ task' = [task EXCEPT ![c[1]].enabled = enabled, ![c[1]].due = next]
    /\ run' = [run EXCEPT ![r] = NewRun(r, c[1], c[2], status)]
    /\ exec' = [exec EXCEPT ![r] = state]
    /\ Took(c)
    /\ UNCHANGED <<now, saving, part, panel, sent, faults, crashes>>

Missed(c) == loop.now > c[2] + Grace

\* ClaimScheduledTask: the next due time follows from the schedule that was
\* listed, the run from the row that is there now.  A run that is too late is
\* only recorded.
Claims(c, r) ==
    LET next == NextAfter(c[3], c[2], loop.now)
    IN ClaimedAs(c, r, next # Never, next,
                 IF Missed(c) THEN "missed" ELSE "queued", IF Missed(c) THEN "none" ELSE "start")

-----------------------------------------------------------------------------
(* execute and executeTarget.                                              *)

\* A statement fails; those that write a result do so even when the panel
\* is being shut down.
Fails(needsContext) ==
    \/ needsContext /\ panel = "closing" /\ UNCHANGED faults
    \/ faults < MaxFaults /\ faults' = faults + 1

StartRun(r) ==
    /\ exec[r] = "start"
    /\ panel = "up"
    /\ run' = [run EXCEPT ![r].status = IF @ = "queued" THEN "running" ELSE @]
    /\ exec' = [exec EXCEPT ![r] = "targets"]
    /\ part' = [p \in Runs \X Targets |-> IF p[1] = r THEN "begin" ELSE part[p]]
    /\ UNCHANGED <<now, task, saving, loop, panel, sent, faults, crashes>>

\* The run is given up as it is.
StartRunFails(r) ==
    /\ exec[r] = "start"
    /\ Fails(TRUE)
    /\ exec' = [exec EXCEPT ![r] = "none"]
    /\ UNCHANGED <<now, task, run, saving, loop, part, panel, sent, crashes>>

StartTarget(r, x) ==
    /\ part[<<r, x>>] = "begin"
    /\ panel = "up"
    /\ run' = [run EXCEPT ![r].results[x] = "running"]
    /\ part' = [part EXCEPT ![<<r, x>>] = "call"]
    /\ UNCHANGED <<now, task, saving, loop, exec, panel, sent, faults, crashes>>

\* The target is given up as it is.
StartTargetFails(r, x) ==
    /\ part[<<r, x>>] = "begin"
    /\ Fails(TRUE)
    /\ part' = [part EXCEPT ![<<r, x>>] = "done"]
    /\ UNCHANGED <<now, task, run, saving, loop, exec, panel, sent, crashes>>

\* The daemon does what it is told, or it does and the answer is lost or too
\* late, or the command never reaches it.
CallTarget(r, x) ==
    /\ part[<<r, x>>] = "call"
    /\ \E ok, arrives \in BOOLEAN :
         /\ ok => arrives
         /\ part' = [part EXCEPT ![<<r, x>>] = IF ok THEN "ok" ELSE "bad"]
         /\ sent' = IF arrives /\ sent[<<r, x>>] < 2 THEN [sent EXCEPT ![<<r, x>>] = @ + 1] ELSE sent
    /\ UNCHANGED <<now, task, run, saving, loop, exec, panel, faults, crashes>>

CompleteTarget(r, x) ==
    /\ part[<<r, x>>] \in {"ok", "bad"}
    /\ \/ /\ run' = [run EXCEPT ![r].results[x] = IF part[<<r, x>>] = "ok" THEN "completed" ELSE "failed"]
          /\ UNCHANGED faults
       \/ Fails(FALSE) /\ UNCHANGED run
    /\ part' = [part EXCEPT ![<<r, x>>] = "done"]
    /\ UNCHANGED <<now, task, saving, loop, exec, panel, sent, crashes>>

\* The status FinishTaskRun derives from the targets' rows.
Outcome(results) ==
    LET failed == \E x \in Targets : results[x] = "failed"
        succeeded == \E x \in Targets : results[x] = "completed"
    IN IF failed /\ succeeded THEN "completed_with_errors"
       ELSE IF failed THEN "failed" ELSE "completed"

\* Mutant: the run does not wait for its targets.
FinishRunEarly(r) ==
    /\ exec[r] = "targets"
    /\ run' = [run EXCEPT ![r].status = Outcome(run[r].results)]
    /\ exec' = [exec EXCEPT ![r] = "none"]
    /\ UNCHANGED <<now, task, saving, loop, part, panel, sent, faults, crashes>>

\* wait.Wait, then FinishTaskRun.
FinishRun(r) ==
    /\ exec[r] = "targets"
    /\ \A x \in Targets : part[<<r, x>>] = "done"
    /\ \/ /\ run' = [run EXCEPT ![r].status = Outcome(run[r].results)]
          /\ UNCHANGED faults
       \/ Fails(FALSE) /\ UNCHANGED run
    /\ exec' = [exec EXCEPT ![r] = "none"]
    /\ part' = [p \in Runs \X Targets |-> IF p[1] = r THEN "none" ELSE part[p]]
    /\ UNCHANGED <<now, task, saving, loop, panel, sent, crashes>>

-----------------------------------------------------------------------------
(* The panel's process.                                                    *)

Shutdown ==
    /\ panel = "up"
    /\ crashes < MaxCrash
    /\ panel' = "closing"
    /\ UNCHANGED <<now, task, run, saving, loop, exec, part, sent, faults, crashes>>

\* The process is gone, with everything that was not in the database.
Exit ==
    /\ crashes < MaxCrash
    /\ panel # "down"
    /\ panel' = "down"
    /\ crashes' = crashes + 1
    /\ saving' = NoSaving
    /\ loop' = NoCycle
    /\ exec' = [r \in Runs |-> "none"]
    /\ part' = [p \in Runs \X Targets |-> "none"]
    /\ UNCHANGED <<now, task, run, sent, faults>>

\* Mutant: the runs of the last process are started again.
BootResuming ==
    /\ panel = "down"
    /\ panel' = "up"
    /\ exec' = [r \in Runs |-> IF run[r].status \in Open THEN "start" ELSE "none"]
    /\ UNCHANGED <<now, task, run, saving, loop, part, sent, faults, crashes>>

\* Service.Start: FailIncompleteTaskRuns, one transaction, may fail as a whole.
Boot ==
    /\ panel = "down"
    /\ panel' = "up"
    /\ \/ /\ run' = [r \in Runs |->
                IF run[r].status \notin Open THEN run[r]
                ELSE [run[r] EXCEPT !.status = "failed",
                        !.results = [x \in Targets |-> IF @[x] \in Open THEN "failed" ELSE @[x]]]]
          /\ UNCHANGED faults
       \/ Fails(FALSE) /\ UNCHANGED run
    /\ UNCHANGED <<now, task, saving, loop, exec, part, sent, crashes>>

RunStep(r) ==
    \/ StartRun(r)
    \/ FinishRun(r)
    \/ StartRunFails(r)
    \/ \E x \in Targets :
         \/ StartTarget(r, x)
         \/ StartTargetFails(r, x)
         \/ CallTarget(r, x)
         \/ CompleteTarget(r, x)

LoopStep ==
    \/ CycleBegins
    \/ \E c \in loop.todo : ClaimsNothing(c)
    \/ \E c \in loop.todo, r \in Runs : Claims(c, r)

SchedNext ==
    \/ Tick
    \/ \E t \in Tasks, kind \in Kinds, enabled \in BOOLEAN : Prepare(t, kind, enabled)
    \/ Save
    \/ \E t \in Tasks : DeleteTask(t)
    \/ \E t \in Tasks, r \in Runs : RunNow(t, r)
    \/ LoopStep
    \/ \E r \in Runs : RunStep(r)
    \/ Shutdown
    \/ Exit
    \/ Boot

SchedSpec == SchedInit /\ [][SchedNext]_schedVars

-----------------------------------------------------------------------------
(* Properties.                                                             *)

\* What a user saved is done at most once at each due time: whatever the loop
\* listed, however often the panel was started and whoever changed the task
\* meanwhile, a target does not get the command of one due time twice, neither
\* by one run nor by two (ClaimScheduledTask, FailIncompleteTaskRuns).
CommandOnce ==
    /\ \A p \in Runs \X Targets : sent[p] <= 1
    /\ \A r, q \in Runs, x \in Targets :
          (r # q /\ sent[<<r, x>>] > 0 /\ sent[<<q, x>>] > 0 /\ run[r].due # Never) =>
              <<run[r].task, run[r].version, run[r].due>>
                # <<run[q].task, run[q].version, run[q].due>>

\* A command that was sent belongs to a run that is not shown as missed, and
\* its target is not shown as waiting, nor as done when nothing was sent
\* (processDue, executeTarget).
SentIsShown ==
    \A r \in Runs, x \in Targets :
        /\ sent[<<r, x>>] > 0 => run[r].status # "missed" /\ run[r].results[x] # "queued"
        /\ run[r].results[x] = "completed" => sent[<<r, x>>] > 0

\* A run shown as completed has no failed target, not even later
\* (execute, FinishTaskRun).
CompletedHasNoFailure ==
    \A r \in Runs : run[r].status = "completed" =>
        \A x \in Targets : run[r].results[x] # "failed"

\* As long as no statement failed, a run that is shown as waiting or running
\* is being worked on; after a shutdown or a crash at any moment no run of the
\* last process is left like that (execute, FailIncompleteTaskRuns).
OpenRunIsWorkedOn ==
    \A r \in Runs : (panel = "up" /\ faults = 0 /\ run[r].status \in Open) => exec[r] # "none"

\* What is recorded of a run is true, besides its type: commands are sent for
\* what is shown as begun, a completed run has no failure, and somebody works on
\* every open run (execute, executeTarget, Start).
RunsAreTrue == SchedTypeOK /\ SentIsShown /\ CompletedHasNoFailure /\ OpenRunIsWorkedOn
=============================================================================
