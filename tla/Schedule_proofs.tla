---------------------------- MODULE Schedule_proofs ----------------------------
(***************************************************************************)
(* Theorems about Schedule: for any number of tasks, targets, runs, edits,  *)
(* failing statements and starts of the panel, a command is sent once for   *)
(* a due time, and what is recorded of a run is true.                       *)
(***************************************************************************)
EXTENDS Schedule, TLAPS

RunRows == [task : Tasks \cup {NoTask}, version : 0 .. MaxEdits, due : Dues,
            status : Open \cup Ended \cup {"none"},
            results : [Targets -> Open \cup Ended \cup {"none"}]]
TaskRows == [exists : BOOLEAN, enabled : BOOLEAN, due : Dues, kind : Kinds \cup {"once"},
             version : 0 .. MaxEdits]

\* What requests and the loop remember fits the table.
PlansOK ==
    /\ saving # NoSaving => /\ saving.task \in Tasks
                            /\ task[saving.task].version < MaxEdits
                            /\ saving.due # Never => saving.kind \in Kinds
    /\ \A t \in Tasks : task[t].enabled => task[t].kind \in Kinds
    /\ \A c \in loop.todo : c[2] <= loop.now

\* A due time that has a run lies before the task's next one, as long as the task is the
\* one that was claimed.
IsPast(r) ==
    /\ run[r].task \in Tasks
    /\ run[r].version <= task[run[r].task].version
    /\ run[r].version = task[run[r].task].version =>
         task[run[r].task].due = Never \/ task[run[r].task].due > run[r].due

SameDue(r, q) ==
    run[r].task = run[q].task /\ run[r].version = run[q].version /\ run[r].due = run[q].due

Claimed(r) == run[r].status # "none" /\ run[r].due # Never

DuesOK ==
    /\ \A r \in Runs : Claimed(r) => IsPast(r)
    /\ \A r, q \in Runs : Claimed(r) /\ Claimed(q) /\ r # q => ~SameDue(r, q)

PartOK(r, x) ==
    /\ exec[r] # "targets" => part[<<r, x>>] = "none"
    /\ part[<<r, x>>] \in {"begin", "call"} => sent[<<r, x>>] = 0
    /\ part[<<r, x>>] \in {"call", "ok", "bad"} => run[r].results[x] = "running"
    /\ part[<<r, x>>] = "ok" => sent[<<r, x>>] = 1
    /\ sent[<<r, x>>] <= 1
    /\ sent[<<r, x>>] = 1 => run[r].status \notin {"none", "missed"} /\ run[r].results[x] # "queued"
    /\ run[r].results[x] = "completed" => sent[<<r, x>>] = 1

RunOK(r) ==
    /\ exec[r] = "start" => run[r].status = "queued" /\ \A x \in Targets : sent[<<r, x>>] = 0
    /\ exec[r] = "targets" => run[r].status = "running"
    /\ run[r].status = "completed" => \A x \in Targets : run[r].results[x] # "failed"
    /\ \A x \in Targets : PartOK(r, x)

SchedInv ==
    /\ SchedTypeOK
    /\ PlansOK
    /\ DuesOK
    /\ \A r \in Runs : RunOK(r)
    /\ OpenRunIsWorkedOn
    /\ panel = "down" => \A r \in Runs : exec[r] = "none"

-----------------------------------------------------------------------------
(* The due times.                                                          *)

\* The next multiple of the period lies after a time, and at most a period later.
LEMMA NextMultiple ==
    ASSUME NEW a \in Nat
    PROVE  LET d == (a \div Period + 1) * Period IN d \in Nat /\ a < d /\ d <= a + Period
<1>0. Period \in Nat \ {0}
  BY ScheduleConstants
<1>1. PICK q \in Nat, r \in Nat : q = a \div Period /\ r = a % Period
  BY <1>0
<1>2. a = q * Period + r /\ r < Period
  BY <1>0, <1>1
<1>3. (q + 1) * Period = q * Period + Period
  BY <1>0
<1> QED
  BY <1>0, <1>1, <1>2, <1>3

\* The due time after one that is past is none, or a later one.
LEMMA NextIsLater ==
    ASSUME NEW kind \in Kinds, NEW due \in Times, NEW at \in 0 .. MaxTime, due <= at
    PROVE  /\ NextAfter(kind, due, at) \in Dues
           /\ NextAfter(kind, due, at) # Never => NextAfter(kind, due, at) > due
<1>0. /\ MaxTime \in Nat /\ Period \in Nat \ {0} /\ Never \notin Nat
      /\ kind \in {"once", "daily", "interval"} /\ due \in Nat /\ at \in Nat
  BY ScheduleConstants DEF Times
<1>1. CASE kind = "once"
  BY <1>1 DEF NextAfter, Dues
<1>2. CASE kind = "daily"
  <2>1. NextAfter(kind, due, at) = (at \div Period + 1) * Period
    BY <1>2 DEF NextAfter, NextDue
  <2> QED
    BY <1>0, <2>1, NextMultiple DEF Dues, Times
<1>3. CASE kind = "interval"
  <2>1. NextAfter(kind, due, at) = due + ((at - due) \div Period + 1) * Period
    BY <1>3 DEF NextAfter
  <2>2. at - due \in Nat
    BY <1>0
  <2> DEFINE d == ((at - due) \div Period + 1) * Period
  <2>3. d \in Nat /\ at - due < d /\ d <= (at - due) + Period
    BY <2>2, NextMultiple
  <2>4. NextAfter(kind, due, at) = due + d
    BY <2>1
  <2> HIDE DEF d
  <2> QED
    BY <1>0, <2>3, <2>4 DEF Dues, Times
<1> QED
  BY <1>0, <1>1, <1>2, <1>3

LEMMA FirstIsDue ==
    ASSUME NEW kind \in Kinds \cup {"once"}, now \in 0 .. MaxTime, NEW due \in FirstRun(kind)
    PROVE  due \in Times
<1>0. MaxTime \in Nat /\ Period \in Nat \ {0} /\ kind \in {"once", "daily", "interval"}
  BY ScheduleConstants
<1>1. NextDue(now) \in Times
  <2>1. now \in Nat
    BY <1>0
  <2>2. NextDue(now) \in Nat /\ NextDue(now) <= now + Period
    BY <2>1, NextMultiple DEF NextDue
  <2> QED
    BY <1>0, <2>2 DEF Times
<1> QED
  BY <1>0, <1>1 DEF FirstRun, Times

-----------------------------------------------------------------------------
(* Tasks and plans.                                                        *)

LEMMA RunsUntouched ==
    ASSUME SchedInv, UNCHANGED <<run, exec, part, sent, panel>>, faults' = faults \/ faults' = faults + 1
    PROVE  /\ \A r \in Runs : RunOK(r)'
           /\ OpenRunIsWorkedOn'
           /\ panel' = "down" => \A r \in Runs : exec'[r] = "none"
<1>1. \A r \in Runs : RunOK(r)'
  BY DEF SchedInv, RunOK, PartOK
<1>2. OpenRunIsWorkedOn'
  <2>1. faults \in Nat
    BY DEF SchedInv, SchedTypeOK
  <2> QED
    BY <2>1 DEF SchedInv, OpenRunIsWorkedOn
<1> QED
  BY <1>1, <1>2 DEF SchedInv

LEMMA DuesUntouched ==
    ASSUME DuesOK, run' = run,
           \A t \in Tasks : \/ task'[t] = task[t]
                            \/ task'[t].version = task[t].version /\ task'[t].due = Never
                            \/ task'[t].version = task[t].version + 1,
           SchedTypeOK
    PROVE  DuesOK'
<1>1. ASSUME NEW r \in Runs, Claimed(r)' PROVE IsPast(r)'
  <2>1. Claimed(r) /\ IsPast(r)
    BY <1>1 DEF Claimed, DuesOK
  <2>2. run[r].version \in Nat
    BY DEF SchedTypeOK
  <2> DEFINE t == run[r].task
  <2>4. t \in Tasks /\ run'[r].task = t /\ task[t].version \in Nat
    BY <2>1 DEF IsPast, SchedTypeOK
  <2>5. CASE task'[t] = task[t]
    BY <2>1, <2>4, <2>5 DEF IsPast
  <2>6. CASE task'[t].version = task[t].version /\ task'[t].due = Never
    BY <2>1, <2>4, <2>6 DEF IsPast
  <2>7. CASE task'[t].version = task[t].version + 1
    BY <2>1, <2>2, <2>4, <2>7 DEF IsPast
  <2> QED
    BY <2>4, <2>5, <2>6, <2>7
<1>2. \A r, q \in Runs : Claimed(r)' /\ Claimed(q)' /\ r # q => ~SameDue(r, q)'
  BY DEF DuesOK, Claimed, SameDue
<1> QED
  BY <1>1, <1>2 DEF DuesOK

LoopRows == [at : {"wait", "claim"}, now : 0 .. MaxTime, todo : SUBSET (Tasks \X Times \X Kinds)]

LEMMA TookOne ==
    ASSUME SchedTypeOK, PlansOK, NEW c \in loop.todo, Took(c)
    PROVE  loop' \in LoopRows /\ \A d \in loop'.todo : d[2] <= loop'.now
<1>1. loop \in LoopRows /\ \A d \in loop.todo : d[2] <= loop.now
  BY DEF SchedTypeOK, PlansOK, LoopRows
<1>2. CASE loop.todo = {c}
  BY <1>2, ScheduleConstants DEF Took, NoCycle, LoopRows
<1>3. CASE loop.todo # {c}
  <2>1. loop' = [loop EXCEPT !.todo = loop.todo \ {c}]
    BY <1>1, <1>3 DEF Took, LoopRows
  <2> QED
    BY <1>1, <2>1 DEF LoopRows
<1> QED
  BY <1>2, <1>3

LEMMA PlanInv ==
    ASSUME SchedInv,
           \/ Tick
           \/ \E t \in Tasks, kind \in Kinds, enabled \in BOOLEAN : Prepare(t, kind, enabled)
           \/ Save
           \/ \E t \in Tasks : DeleteTask(t)
           \/ CycleBegins
           \/ \E c \in loop.todo : ClaimsNothing(c)
    PROVE  SchedInv'
<1>0. SchedTypeOK /\ PlansOK /\ DuesOK /\ MaxTime \in Nat /\ MaxEdits \in Nat /\ NoTask \notin Tasks
      /\ Never \notin Nat
  BY ScheduleConstants DEF SchedInv
<1>1. /\ UNCHANGED <<run, exec, part, sent, panel, crashes>>
      /\ faults' = faults \/ faults' = faults + 1
  BY DEF Tick, Prepare, Save, DeleteTask, CycleBegins, ClaimsNothing
<1>2. /\ \A r \in Runs : RunOK(r)'
      /\ OpenRunIsWorkedOn'
      /\ panel' = "down" => \A r \in Runs : exec'[r] = "none"
  BY <1>1, RunsUntouched
<1>3. SUFFICES SchedTypeOK' /\ PlansOK' /\ DuesOK'
  BY <1>2 DEF SchedInv
<1>4. CASE Tick
  BY <1>0, <1>1, <1>4, DuesUntouched DEF Tick, SchedTypeOK, PlansOK
<1>5. ASSUME NEW t \in Tasks, NEW kind \in Kinds, NEW enabled \in BOOLEAN, Prepare(t, kind, enabled)
      PROVE  SchedTypeOK' /\ PlansOK' /\ DuesOK'
  <2>1. PICK due \in Times : saving' = [task |-> t, due |-> IF enabled THEN due ELSE Never,
                                        kind |-> kind]
    BY <1>0, <1>5, FirstIsDue DEF Prepare, SchedTypeOK
  <2>2. saving'.task = t /\ saving'.kind = kind /\ saving'.due \in Dues
    BY <2>1 DEF Dues
  <2>3. UNCHANGED <<now, task, loop, faults>> /\ task[t].version < MaxEdits
    BY <1>5 DEF Prepare
  <2>4. SchedTypeOK'
    BY <1>0, <1>1, <2>1, <2>2, <2>3 DEF SchedTypeOK
  <2> QED
    BY <1>0, <1>1, <2>2, <2>3, <2>4, DuesUntouched DEF PlansOK
<1>6. CASE Save
  <2> DEFINE t   == saving.task
             new == [exists |-> TRUE, enabled |-> saving.due # Never, due |-> saving.due,
                     kind |-> saving.kind, version |-> task[t].version + 1]
  <2>1. /\ t \in Tasks /\ task[t].version < MaxEdits
        /\ (saving.due # Never => saving.kind \in Kinds)
        /\ task' = [task EXCEPT ![t] = new] /\ saving' = NoSaving
        /\ UNCHANGED <<now, loop, faults>>
    BY <1>0, <1>6 DEF Save, PlansOK
  <2>2. new \in TaskRows /\ new.version = task[t].version + 1 /\ new.kind = saving.kind
        /\ (new.enabled <=> new.exists /\ new.due # Never)
        /\ (new.enabled <=> saving.due # Never)
    <3>1. new \in TaskRows
      BY <1>0, <2>1 DEF SchedTypeOK, TaskRows
    <3>2. new.version = task[t].version + 1 /\ new.kind = saving.kind /\ new.due = saving.due
      OBVIOUS
    <3>3. new.exists = TRUE /\ new.enabled = (saving.due # Never)
      OBVIOUS
    <3> QED
      BY <3>1, <3>2, <3>3
  <2> HIDE DEF new
  <2>3. /\ task'[t] = new /\ task' \in [Tasks -> TaskRows]
        /\ \A u \in Tasks : u # t => task'[u] = task[u]
    BY <1>0, <2>1, <2>2 DEF SchedTypeOK, TaskRows
  <2>4. NoSaving \in [task : Tasks \cup {NoTask}, due : Dues, kind : Kinds \cup {"once"}]
    BY DEF NoSaving, Dues
  <2>5. \A u \in Tasks : task'[u].enabled <=> task'[u].exists /\ task'[u].due # Never
    BY <1>0, <2>2, <2>3 DEF SchedTypeOK
  <2>6. SchedTypeOK'
    BY <1>0, <1>1, <2>1, <2>3, <2>4, <2>5 DEF SchedTypeOK, TaskRows
  <2>7. PlansOK'
    BY <1>0, <2>1, <2>2, <2>3 DEF PlansOK
  <2>8. DuesOK'
    BY <1>0, <1>1, <2>1, <2>2, <2>3, DuesUntouched
  <2> QED
    BY <2>6, <2>7, <2>8
<1>7. ASSUME NEW t \in Tasks, DeleteTask(t) PROVE SchedTypeOK' /\ PlansOK' /\ DuesOK'
  <2> DEFINE new == [NoRow EXCEPT !.version = task[t].version]
  <2>1. /\ task' = [task EXCEPT ![t] = new]
        /\ saving' = (IF saving.task = t THEN NoSaving ELSE saving)
        /\ UNCHANGED <<now, loop, faults>>
    BY <1>7 DEF DeleteTask
  <2>2. new \in TaskRows /\ new.version = task[t].version /\ new.due = Never /\ ~new.enabled
        /\ ~new.exists
    BY <1>0 DEF SchedTypeOK, TaskRows, NoRow, Dues
  <2> HIDE DEF new
  <2>3. /\ task'[t] = new /\ task' \in [Tasks -> TaskRows]
        /\ \A u \in Tasks : u # t => task'[u] = task[u]
    BY <1>0, <2>1, <2>2 DEF SchedTypeOK, TaskRows
  <2>4. NoSaving \in [task : Tasks \cup {NoTask}, due : Dues, kind : Kinds \cup {"once"}]
    BY DEF NoSaving, Dues
  <2>5. \A u \in Tasks : task'[u].enabled <=> task'[u].exists /\ task'[u].due # Never
    BY <1>0, <2>2, <2>3 DEF SchedTypeOK
  <2>6. SchedTypeOK'
    BY <1>0, <1>1, <2>1, <2>3, <2>4, <2>5 DEF SchedTypeOK, TaskRows
  <2>7. PlansOK'
    BY <1>0, <2>1, <2>2, <2>3 DEF PlansOK
  <2>8. DuesOK'
    BY <1>0, <1>1, <2>1, <2>2, <2>3, DuesUntouched
  <2> QED
    BY <2>6, <2>7, <2>8
<1>8. CASE CycleBegins
  <2> DEFINE due == {t \in Tasks : task[t].enabled /\ task[t].due <= now}
             new == [at |-> "claim", now |-> now,
                     todo |-> {<<t, task[t].due, task[t].kind>> : t \in due}]
  <2>1. loop' = new /\ UNCHANGED <<now, task, saving, faults>>
    BY <1>8 DEF CycleBegins
  <2>2. ASSUME NEW t \in due
        PROVE  /\ <<t, task[t].due, task[t].kind>> \in Tasks \X Times \X Kinds
               /\ <<t, task[t].due, task[t].kind>>[2] <= now
    <3>1. t \in Tasks /\ task[t].enabled /\ task[t].due <= now
      OBVIOUS
    <3>2. task[t].kind \in Kinds /\ task[t].due \in Dues /\ task[t].due # Never
      BY <1>0, <3>1 DEF PlansOK, SchedTypeOK
    <3> QED
      BY <3>1, <3>2 DEF Dues
  <2>3. new.todo \subseteq Tasks \X Times \X Kinds /\ \A c \in new.todo : c[2] <= now
    BY <2>2
  <2>4. new \in [at : {"wait", "claim"}, now : 0 .. MaxTime, todo : SUBSET (Tasks \X Times \X Kinds)]
        /\ new.now = now
    BY <1>0, <2>3 DEF SchedTypeOK
  <2> HIDE DEF new
  <2>5. SchedTypeOK'
    BY <1>0, <1>1, <2>1, <2>4 DEF SchedTypeOK
  <2>6. PlansOK'
    BY <1>0, <2>1, <2>3, <2>4 DEF PlansOK
  <2> QED
    BY <1>0, <1>1, <2>1, <2>5, <2>6, DuesUntouched
<1>9. ASSUME NEW c \in loop.todo, ClaimsNothing(c) PROVE SchedTypeOK' /\ PlansOK' /\ DuesOK'
  <2>1. Took(c) /\ UNCHANGED <<now, task, saving>>
        /\ (faults' = faults \/ (faults < MaxFaults /\ faults' = faults + 1))
    BY <1>9 DEF ClaimsNothing
  <2>2. /\ loop' \in [at : {"wait", "claim"}, now : 0 .. MaxTime,
                      todo : SUBSET (Tasks \X Times \X Kinds)]
        /\ \A d \in loop'.todo : d[2] <= loop'.now
    BY <1>0, <2>1, TookOne DEF LoopRows
  <2>3. SchedTypeOK'
    BY <1>0, <1>1, <2>1, <2>2, ScheduleConstants DEF SchedTypeOK
  <2> QED
    BY <1>0, <1>1, <2>1, <2>2, <2>3, DuesUntouched DEF PlansOK
<1> QED
  BY <1>4, <1>5, <1>6, <1>7, <1>8, <1>9

-----------------------------------------------------------------------------
(* A run that is executed.                                                 *)

PartPCs == {"none", "begin", "call", "ok", "bad", "done"}

\* A step of one run leaves the tasks, the plans and the other runs alone.
LEMMA OneRun ==
    ASSUME SchedInv, NEW r \in Runs,
           UNCHANGED <<now, task, saving, loop, panel, crashes>>,
           run' \in [Runs -> RunRows], exec' \in [Runs -> {"none", "start", "targets"}],
           part' \in [Runs \X Targets -> PartPCs], sent' \in [Runs \X Targets -> 0 .. 2],
           \/ faults' = faults
           \/ faults < MaxFaults /\ faults' = faults + 1,
           \A q \in Runs : /\ run'[q].task = run[q].task /\ run'[q].version = run[q].version
                           /\ run'[q].due = run[q].due
                           /\ run'[q].status # "none" => run[q].status # "none",
           \A q \in Runs \ {r} : /\ run'[q] = run[q] /\ exec'[q] = exec[q]
                                 /\ \A x \in Targets : /\ part'[<<q, x>>] = part[<<q, x>>]
                                                       /\ sent'[<<q, x>>] = sent[<<q, x>>],
           RunOK(r)',
           panel # "down",
           run'[r].status \in Open /\ exec'[r] = "none" => panel # "up" \/ faults' = faults + 1
    PROVE  SchedInv'
<1>0. SchedTypeOK /\ faults \in 0 .. MaxFaults /\ MaxFaults \in Nat
  BY ScheduleConstants DEF SchedInv, SchedTypeOK
<1>1. faults' \in 0 .. MaxFaults /\ (faults' = 0 => faults = 0 /\ faults' # faults + 1)
  BY <1>0
<1>2. SchedTypeOK'
  BY <1>0, <1>1 DEF SchedTypeOK, RunRows, PartPCs
<1>3. PlansOK'
  BY DEF SchedInv, PlansOK
<1>4. DuesOK'
  BY DEF SchedInv, DuesOK, Claimed, IsPast, SameDue
<1>5. ASSUME NEW q \in Runs, q # r PROVE RunOK(q)'
  <2>1. RunOK(q) /\ q \in Runs \ {r}
    BY <1>5 DEF SchedInv
  <2>2. run'[q] = run[q] /\ exec'[q] = exec[q]
    BY <2>1
  <2>3. \A x \in Targets : part'[<<q, x>>] = part[<<q, x>>] /\ sent'[<<q, x>>] = sent[<<q, x>>]
    BY <2>1
  <2>4. \A x \in Targets : PartOK(q, x)'
    BY <2>1, <2>2, <2>3 DEF RunOK, PartOK
  <2> QED
    BY <2>1, <2>2, <2>3, <2>4 DEF RunOK
<1>6. OpenRunIsWorkedOn'
  BY <1>1 DEF SchedInv, OpenRunIsWorkedOn
<1> QED
  BY <1>2, <1>3, <1>4, <1>5, <1>6 DEF SchedInv

\* What the steps of a run start from.
LEMMA RunTypes ==
    ASSUME SchedInv, NEW r \in Runs
    PROVE  /\ run \in [Runs -> RunRows] /\ exec \in [Runs -> {"none", "start", "targets"}]
           /\ part \in [Runs \X Targets -> PartPCs] /\ sent \in [Runs \X Targets -> 0 .. 2]
           /\ run[r].results \in [Targets -> Open \cup Ended \cup {"none"}]
           /\ RunOK(r)
           /\ exec[r] # "none" => panel # "down"
BY DEF SchedInv, SchedTypeOK, RunRows, PartPCs

LEMMA StartRunInv ==
    ASSUME SchedInv, NEW r \in Runs, StartRun(r) \/ StartRunFails(r)
    PROVE  SchedInv'
<1>0. /\ run \in [Runs -> RunRows] /\ exec \in [Runs -> {"none", "start", "targets"}]
      /\ part \in [Runs \X Targets -> PartPCs] /\ sent \in [Runs \X Targets -> 0 .. 2]
      /\ RunOK(r)
      /\ exec[r] # "none" => panel # "down"
  BY RunTypes
<1>1. CASE StartRun(r)
  <2>1. /\ exec[r] = "start" /\ panel = "up" /\ exec' = [exec EXCEPT ![r] = "targets"]
        /\ part' = [p \in Runs \X Targets |-> IF p[1] = r THEN "begin" ELSE part[p]]
        /\ UNCHANGED <<now, task, saving, loop, panel, sent, faults, crashes>>
    BY <1>1 DEF StartRun
  <2>2. run[r].status = "queued" /\ \A x \in Targets : sent[<<r, x>>] = 0
    BY <1>0, <2>1 DEF RunOK
  <2>3. run' = [run EXCEPT ![r].status = "running"]
    BY <1>0, <1>1, <2>2 DEF StartRun
  <2>4. /\ run' \in [Runs -> RunRows] /\ run'[r].status = "running"
        /\ run'[r].results = run[r].results
        /\ \A q \in Runs : /\ run'[q].task = run[q].task /\ run'[q].version = run[q].version
                           /\ run'[q].due = run[q].due
                           /\ run'[q].status # "none" => run[q].status # "none"
                           /\ q # r => run'[q] = run[q]
    BY <1>0, <2>2, <2>3 DEF RunRows, Open
  <2>5. /\ exec' \in [Runs -> {"none", "start", "targets"}] /\ exec'[r] = "targets"
        /\ \A q \in Runs \ {r} : exec'[q] = exec[q]
    BY <1>0, <2>1
  <2>6. /\ part' \in [Runs \X Targets -> PartPCs] /\ \A x \in Targets : part'[<<r, x>>] = "begin"
        /\ \A q \in Runs \ {r}, x \in Targets : part'[<<q, x>>] = part[<<q, x>>]
    BY <1>0, <2>1 DEF PartPCs
  <2>7. \A x \in Targets : PartOK(r, x)'
    BY <1>0, <2>1, <2>2, <2>4, <2>5, <2>6 DEF PartOK, RunOK
  <2>8. RunOK(r)'
    BY <2>4, <2>5, <2>7 DEF RunOK
  <2> QED
    BY <1>0, <2>1, <2>4, <2>5, <2>6, <2>8, OneRun
<1>2. CASE StartRunFails(r)
  <2>1. /\ exec[r] = "start" /\ exec' = [exec EXCEPT ![r] = "none"] /\ Fails(TRUE)
        /\ UNCHANGED <<now, task, run, saving, loop, part, panel, sent, crashes>>
    BY <1>2 DEF StartRunFails
  <2>2. /\ exec' \in [Runs -> {"none", "start", "targets"}] /\ exec'[r] = "none"
        /\ \A q \in Runs \ {r} : exec'[q] = exec[q]
    BY <1>0, <2>1
  <2>3. \A x \in Targets : PartOK(r, x)'
    BY <1>0, <2>1, <2>2 DEF PartOK, RunOK
  <2>4. RunOK(r)'
    BY <1>0, <2>1, <2>2, <2>3 DEF RunOK
  <2> QED
    BY <1>0, <2>1, <2>2, <2>4, OneRun DEF Fails
<1> QED
  BY <1>1, <1>2

\* A step for one target of a run that is executed.
TargetStep(r, x, res, pc, n) ==
    /\ part[<<r, x>>] # "none"
    /\ res \in Open \cup Ended \cup {"none"} /\ pc \in PartPCs /\ n \in 0 .. 1
    /\ \/ run' = [run EXCEPT ![r].results[x] = res]
       \/ run' = run /\ res = run[r].results[x]
    /\ part' = [part EXCEPT ![<<r, x>>] = pc]
    /\ sent' = [sent EXCEPT ![<<r, x>>] = n]
    /\ UNCHANGED <<now, task, saving, loop, exec, panel, crashes>>
    /\ \/ faults' = faults
       \/ faults < MaxFaults /\ faults' = faults + 1
    /\ pc \in {"begin", "call"} => n = 0
    /\ pc \in {"call", "ok", "bad"} => res = "running"
    /\ pc = "ok" => n = 1
    /\ n = 1 => res # "queued"
    /\ res = "completed" => n = 1

LEMMA OneTarget ==
    ASSUME SchedInv, NEW r \in Runs, NEW x \in Targets, NEW res, NEW pc, NEW n,
           TargetStep(r, x, res, pc, n)
    PROVE  SchedInv'
<1>0. /\ run \in [Runs -> RunRows] /\ exec \in [Runs -> {"none", "start", "targets"}]
      /\ part \in [Runs \X Targets -> PartPCs] /\ sent \in [Runs \X Targets -> 0 .. 2]
      /\ run[r].results \in [Targets -> Open \cup Ended \cup {"none"}]
      /\ RunOK(r)
      /\ exec[r] # "none" => panel # "down"
  BY RunTypes
<1>1. exec[r] = "targets" /\ run[r].status = "running" /\ panel # "down"
  BY <1>0 DEF RunOK, PartOK, TargetStep
<1>2. /\ part' \in [Runs \X Targets -> PartPCs] /\ sent' \in [Runs \X Targets -> 0 .. 2]
      /\ part'[<<r, x>>] = pc /\ sent'[<<r, x>>] = n
      /\ \A q \in Runs, y \in Targets : q # r \/ y # x =>
           part'[<<q, y>>] = part[<<q, y>>] /\ sent'[<<q, y>>] = sent[<<q, y>>]
  BY <1>0 DEF TargetStep
<1>3. /\ run' \in [Runs -> RunRows] /\ run'[r].status = "running"
      /\ \A q \in Runs : /\ run'[q].task = run[q].task /\ run'[q].version = run[q].version
                         /\ run'[q].due = run[q].due /\ run'[q].status = run[q].status
                         /\ q # r => run'[q] = run[q]
      /\ run'[r].results[x] = res
      /\ \A y \in Targets : y # x => run'[r].results[y] = run[r].results[y]
  <2>1. CASE run' = [run EXCEPT ![r].results[x] = res]
    BY <1>0, <1>1, <2>1 DEF RunRows, TargetStep
  <2>2. CASE run' = run /\ res = run[r].results[x]
    BY <1>0, <1>1, <2>2
  <2> QED
    BY <2>1, <2>2 DEF TargetStep
<1>4. ASSUME NEW y \in Targets PROVE PartOK(r, y)'
  <2>1. CASE y = x
    BY <1>1, <1>2, <1>3, <2>1 DEF PartOK, TargetStep
  <2>2. CASE y # x
    <3>1. PartOK(r, y)
      BY <1>0 DEF RunOK
    <3> QED
      BY <1>1, <1>2, <1>3, <2>2, <3>1 DEF PartOK, TargetStep
  <2> QED
    BY <2>1, <2>2
<1>5. RunOK(r)'
  BY <1>1, <1>3, <1>4 DEF RunOK, TargetStep
<1>6. \A q \in Runs \ {r} : /\ run'[q] = run[q] /\ exec'[q] = exec[q]
                            /\ \A y \in Targets : /\ part'[<<q, y>>] = part[<<q, y>>]
                                                  /\ sent'[<<q, y>>] = sent[<<q, y>>]
  BY <1>2, <1>3 DEF TargetStep
<1>7. exec'[r] # "none" /\ exec' \in [Runs -> {"none", "start", "targets"}]
  BY <1>0, <1>1 DEF TargetStep
<1> QED
  BY <1>1, <1>2, <1>3, <1>5, <1>6, <1>7, OneRun DEF TargetStep

LEMMA TargetInv ==
    ASSUME SchedInv, NEW r \in Runs, NEW x \in Targets,
           StartTarget(r, x) \/ StartTargetFails(r, x) \/ CallTarget(r, x) \/ CompleteTarget(r, x)
    PROVE  SchedInv'
<1> DEFINE n   == sent[<<r, x>>]
           res == run[r].results[x]
<1>0. /\ sent \in [Runs \X Targets -> 0 .. 2] /\ PartOK(r, x)
      /\ res \in Open \cup Ended \cup {"none"}
  BY RunTypes DEF RunOK
<1>1. n \in 0 .. 1
  BY <1>0 DEF PartOK
<1>2. CASE StartTarget(r, x)
  <2>1. part[<<r, x>>] = "begin" /\ n = 0
    BY <1>0, <1>2 DEF StartTarget, PartOK
  <2>2. TargetStep(r, x, "running", "call", 0)
    BY <1>0, <1>2, <2>1 DEF StartTarget, TargetStep, Open, PartPCs
  <2> QED
    BY <2>2, OneTarget
<1>3. CASE StartTargetFails(r, x)
  <2>1. part[<<r, x>>] = "begin" /\ n = 0 /\ res # "completed"
    BY <1>0, <1>3 DEF StartTargetFails, PartOK
  <2>2. TargetStep(r, x, res, "done", 0)
    BY <1>0, <1>3, <2>1 DEF StartTargetFails, Fails, TargetStep, PartPCs
  <2> QED
    BY <2>2, OneTarget
<1>4. CASE CallTarget(r, x)
  <2>1. part[<<r, x>>] = "call" /\ n = 0 /\ res = "running"
    BY <1>0, <1>4 DEF CallTarget, PartOK
  <2>2. \E pc \in {"ok", "bad"}, k \in 0 .. 1 : /\ pc = "ok" => k = 1
                                                /\ part' = [part EXCEPT ![<<r, x>>] = pc]
                                                /\ sent' = [sent EXCEPT ![<<r, x>>] = k]
    <3>1. PICK ok \in BOOLEAN, arrives \in BOOLEAN :
            /\ ok => arrives
            /\ part' = [part EXCEPT ![<<r, x>>] = IF ok THEN "ok" ELSE "bad"]
            /\ sent' = IF arrives /\ n < 2 THEN [sent EXCEPT ![<<r, x>>] = n + 1] ELSE sent
      BY <1>4 DEF CallTarget
    <3>2. sent = [sent EXCEPT ![<<r, x>>] = 0]
      BY <1>0, <2>1
    <3>3. PICK k \in 0 .. 1 : k = IF arrives THEN 1 ELSE 0
      OBVIOUS
    <3>4. sent' = [sent EXCEPT ![<<r, x>>] = k]
      <4>1. CASE arrives
        <5>1. sent' = [sent EXCEPT ![<<r, x>>] = n + 1] /\ n + 1 = 1 /\ k = 1
          BY <2>1, <3>1, <3>3, <4>1
        <5> QED
          BY <5>1
      <4>2. CASE ~arrives
        BY <3>1, <3>2, <3>3, <4>2
      <4> QED
        BY <4>1, <4>2
    <3>5. PICK pc \in {"ok", "bad"} : pc = IF ok THEN "ok" ELSE "bad"
      OBVIOUS
    <3>6. part' = [part EXCEPT ![<<r, x>>] = pc] /\ (pc = "ok" => k = 1)
      BY <3>1, <3>3, <3>5
    <3> QED
      BY <3>4, <3>6
  <2>3. PICK pc \in {"ok", "bad"}, k \in 0 .. 1 : TargetStep(r, x, "running", pc, k)
    BY <1>4, <2>1, <2>2 DEF CallTarget, TargetStep, Open, PartPCs
  <2> QED
    BY <2>3, OneTarget
<1>5. CASE CompleteTarget(r, x)
  <2>1. part[<<r, x>>] \in {"ok", "bad"} /\ res = "running" /\ (part[<<r, x>>] = "ok" => n = 1)
    BY <1>0, <1>5 DEF CompleteTarget, PartOK
  <2>2. \E new \in {"running", "completed", "failed"} : TargetStep(r, x, new, "done", n)
    <3>1. CASE Fails(FALSE) /\ run' = run
      BY <1>0, <1>1, <1>5, <2>1, <3>1 DEF CompleteTarget, Fails, TargetStep, PartPCs, Open
    <3>2. CASE /\ run' = [run EXCEPT ![r].results[x] = IF part[<<r, x>>] = "ok" THEN "completed"
                                                                              ELSE "failed"]
               /\ faults' = faults
      BY <1>0, <1>1, <1>5, <2>1, <3>2 DEF CompleteTarget, TargetStep, PartPCs, Ended
    <3> QED
      BY <1>5, <3>1, <3>2 DEF CompleteTarget
  <2> QED
    BY <2>2, OneTarget
<1> QED
  BY <1>2, <1>3, <1>4, <1>5

LEMMA FinishRunInv ==
    ASSUME SchedInv, NEW r \in Runs, FinishRun(r)
    PROVE  SchedInv'
<1> DEFINE res == run[r].results
<1>0. /\ run \in [Runs -> RunRows] /\ exec \in [Runs -> {"none", "start", "targets"}]
      /\ part \in [Runs \X Targets -> PartPCs] /\ sent \in [Runs \X Targets -> 0 .. 2]
      /\ RunOK(r)
      /\ exec[r] # "none" => panel # "down"
  BY RunTypes
<1>1. /\ exec[r] = "targets" /\ exec' = [exec EXCEPT ![r] = "none"]
      /\ part' = [p \in Runs \X Targets |-> IF p[1] = r THEN "none" ELSE part[p]]
      /\ UNCHANGED <<now, task, saving, loop, panel, sent, crashes>>
  BY DEF FinishRun
<1>2. run[r].status = "running"
  BY <1>0, <1>1 DEF RunOK
<1>3. /\ part' \in [Runs \X Targets -> PartPCs] /\ \A x \in Targets : part'[<<r, x>>] = "none"
      /\ \A q \in Runs \ {r}, x \in Targets : part'[<<q, x>>] = part[<<q, x>>]
  BY <1>0, <1>1 DEF PartPCs
<1>4. /\ exec' \in [Runs -> {"none", "start", "targets"}] /\ exec'[r] = "none"
      /\ \A q \in Runs \ {r} : exec'[q] = exec[q]
  BY <1>0, <1>1
<1>5. CASE run' = run /\ Fails(FALSE)
  <2>1. \A x \in Targets : PartOK(r, x)'
    BY <1>0, <1>1, <1>3, <1>5 DEF RunOK, PartOK
  <2>2. RunOK(r)'
    BY <1>2, <1>4, <1>5, <2>1 DEF RunOK
  <2> QED
    BY <1>0, <1>1, <1>3, <1>4, <1>5, <2>2, OneRun DEF Fails
<1>6. CASE run' = [run EXCEPT ![r].status = Outcome(res)] /\ faults' = faults
  <2>1. /\ Outcome(res) \in {"completed_with_errors", "failed", "completed"}
        /\ Outcome(res) = "completed" => \A x \in Targets : res[x] # "failed"
    BY DEF Outcome
  <2>2. PICK out \in {"completed_with_errors", "failed", "completed"} : out = Outcome(res)
    BY <2>1
  <2>3. /\ run' \in [Runs -> RunRows] /\ run'[r].status = out /\ run'[r].results = res
        /\ \A q \in Runs : /\ run'[q].task = run[q].task /\ run'[q].version = run[q].version
                           /\ run'[q].due = run[q].due
                           /\ run'[q].status # "none" => run[q].status # "none"
                           /\ q # r => run'[q] = run[q]
    BY <1>0, <1>2, <1>6, <2>2 DEF RunRows, Ended
  <2>4. \A x \in Targets : PartOK(r, x)'
    BY <1>0, <1>1, <1>3, <2>3 DEF RunOK, PartOK
  <2>5. RunOK(r)'
    BY <1>4, <2>1, <2>2, <2>3, <2>4 DEF RunOK
  <2>6. run'[r].status \notin Open
    BY <2>3 DEF Open
  <2> QED
    BY <1>0, <1>1, <1>3, <1>4, <1>6, <2>3, <2>5, <2>6, OneRun
<1> QED
  BY <1>5, <1>6 DEF FinishRun

-----------------------------------------------------------------------------
(* A run that is inserted.                                                 *)

\* A new run has not sent anything, and nobody else works on it.
Inserts(r, t, due, status) ==
    /\ run[r].status = "none"
    /\ due \in Dues /\ status \in {"queued", "missed"}
    /\ run' = [run EXCEPT ![r] = NewRun(r, t, due, status)]
    /\ exec' = [exec EXCEPT ![r] = IF status = "missed" THEN "none" ELSE "start"]
    /\ panel # "down"
    /\ UNCHANGED <<part, sent, panel, faults>>

LEMMA Inserted ==
    ASSUME SchedInv, NEW r \in Runs, NEW t \in Tasks, NEW due, NEW status,
           Inserts(r, t, due, status)
    PROVE  /\ run' \in [Runs -> RunRows] /\ exec' \in [Runs -> {"none", "start", "targets"}]
           /\ \A q \in Runs : RunOK(q)'
           /\ OpenRunIsWorkedOn'
           /\ \A q \in Runs \ {r} : run'[q] = run[q]
           /\ run'[r].task = t /\ run'[r].version = task[t].version /\ run'[r].due = due
           /\ run'[r].status # "none"
<1>0. /\ run \in [Runs -> RunRows] /\ exec \in [Runs -> {"none", "start", "targets"}]
      /\ part \in [Runs \X Targets -> PartPCs] /\ sent \in [Runs \X Targets -> 0 .. 2]
      /\ RunOK(r)
      /\ run[r].status = "none"
      /\ run' = [run EXCEPT ![r] = NewRun(r, t, due, status)]
      /\ exec' = [exec EXCEPT ![r] = IF status = "missed" THEN "none" ELSE "start"]
      /\ panel # "down" /\ status \in {"queued", "missed"} /\ due \in Dues
      /\ UNCHANGED <<part, sent, panel, faults>>
  BY RunTypes DEF Inserts
<1> DEFINE new == NewRun(r, t, due, status)
<1>1. /\ new \in RunRows /\ new.task = t /\ new.version = task[t].version /\ new.due = due
      /\ new.status = status /\ \A x \in Targets : new.results[x] = status
  BY <1>0 DEF NewRun, RunRows, Open, Ended, SchedInv, SchedTypeOK
<1> HIDE DEF new
<1>2. /\ run' \in [Runs -> RunRows] /\ run'[r] = new
      /\ \A q \in Runs \ {r} : run'[q] = run[q]
  BY <1>0, <1>1 DEF new
<1>3. /\ exec' \in [Runs -> {"none", "start", "targets"}]
      /\ exec'[r] = (IF status = "missed" THEN "none" ELSE "start")
      /\ \A q \in Runs \ {r} : exec'[q] = exec[q]
  BY <1>0
<1>4. exec[r] = "none" /\ \A x \in Targets : sent[<<r, x>>] = 0 /\ part[<<r, x>>] = "none"
  <2>1. exec[r] = "none"
    BY <1>0 DEF RunOK
  <2>2. ASSUME NEW x \in Targets PROVE sent[<<r, x>>] = 0 /\ part[<<r, x>>] = "none"
    BY <1>0, <2>1 DEF RunOK, PartOK
  <2> QED
    BY <2>1, <2>2
<1>5. \A x \in Targets : PartOK(r, x)'
  BY <1>0, <1>1, <1>2, <1>3, <1>4 DEF PartOK
<1>6. RunOK(r)'
  BY <1>0, <1>1, <1>2, <1>3, <1>4, <1>5 DEF RunOK
<1>7. ASSUME NEW q \in Runs \ {r} PROVE RunOK(q)'
  BY <1>0, <1>2, <1>3 DEF SchedInv, RunOK, PartOK
<1>8. OpenRunIsWorkedOn'
  BY <1>0, <1>1, <1>2, <1>3 DEF SchedInv, OpenRunIsWorkedOn, Open
<1> QED
  BY <1>0, <1>1, <1>2, <1>3, <1>6, <1>7, <1>8

LEMMA RunNowInv ==
    ASSUME SchedInv, NEW t \in Tasks, NEW r \in Runs, RunNow(t, r)
    PROVE  SchedInv'
<1>1. /\ run[r].status = "none" /\ panel # "down"
      /\ run' = [run EXCEPT ![r] = NewRun(r, t, Never, "queued")]
      /\ exec' = [exec EXCEPT ![r] = IF "queued" = "missed" THEN "none" ELSE "start"]
      /\ UNCHANGED <<now, task, saving, loop, part, panel, sent, faults, crashes>>
  BY DEF RunNow, Unused
<1>2. /\ run' \in [Runs -> RunRows] /\ exec' \in [Runs -> {"none", "start", "targets"}]
      /\ \A q \in Runs : RunOK(q)'
      /\ OpenRunIsWorkedOn'
      /\ \A q \in Runs \ {r} : run'[q] = run[q]
      /\ run'[r].due = Never
  <2>1. Inserts(r, t, Never, "queued")
    BY <1>1 DEF Inserts, Dues
  <2> QED
    BY <1>1, <2>1, Inserted
<1>3. SchedTypeOK'
  BY <1>1, <1>2 DEF SchedInv, SchedTypeOK, RunRows
<1>4. PlansOK'
  BY <1>1 DEF SchedInv, PlansOK
<1>5. DuesOK'
  BY <1>1, <1>2 DEF SchedInv, DuesOK, Claimed, IsPast, SameDue
<1> QED
  BY <1>1, <1>2, <1>3, <1>4, <1>5 DEF SchedInv

\* The task's next due time lies after the one the run is for.
LEMMA ClaimsInv ==
    ASSUME SchedInv, NEW c \in loop.todo, NEW r \in Runs, Claims(c, r)
    PROVE  SchedInv'
<1>0. SchedTypeOK /\ PlansOK /\ DuesOK /\ MaxTime \in Nat /\ Never \notin Nat /\ Period \in Nat
  BY ScheduleConstants DEF SchedInv
<1>1. PICK t \in Tasks, due \in Times, kind \in Kinds : c = <<t, due, kind>>
  BY <1>0 DEF SchedTypeOK
<1>2. due <= loop.now /\ loop.now \in 0 .. MaxTime
  BY <1>0, <1>1 DEF PlansOK, SchedTypeOK
<1>3. PICK next \in Dues : next = NextAfter(kind, due, loop.now) /\ (next # Never => next > due)
  BY <1>2, NextIsLater
<1>4. PICK status \in {"queued", "missed"} : status = IF Missed(c) THEN "missed" ELSE "queued"
  OBVIOUS
<1>5. ClaimedAs(c, r, next # Never, next, status, IF Missed(c) THEN "none" ELSE "start")
  BY <1>1, <1>3, <1>4 DEF Claims
<1>6. /\ panel = "up" /\ task[t].due = due /\ task[t].enabled /\ run[r].status = "none"
      /\ task' = [task EXCEPT ![t].enabled = (next # Never), ![t].due = next]
      /\ run' = [run EXCEPT ![r] = NewRun(r, t, due, status)]
      /\ exec' = [exec EXCEPT ![r] = IF status = "missed" THEN "none" ELSE "start"]
      /\ Took(c)
      /\ UNCHANGED <<now, saving, part, panel, sent, faults, crashes>>
  BY <1>1, <1>4, <1>5 DEF ClaimedAs, Unused
<1>7. /\ run' \in [Runs -> RunRows] /\ exec' \in [Runs -> {"none", "start", "targets"}]
      /\ \A q \in Runs : RunOK(q)'
      /\ OpenRunIsWorkedOn'
      /\ \A q \in Runs \ {r} : run'[q] = run[q]
      /\ run'[r].task = t /\ run'[r].version = task[t].version /\ run'[r].due = due
  <2>1. Inserts(r, t, due, status)
    BY <1>6 DEF Inserts, Dues
  <2> QED
    BY <1>6, <2>1, Inserted
<1>8. /\ task' \in [Tasks -> TaskRows]
      /\ task'[t].due = next /\ task'[t].version = task[t].version
      /\ task'[t].kind = task[t].kind /\ task'[t].exists = task[t].exists
      /\ (task'[t].enabled <=> next # Never)
      /\ \A u \in Tasks : u # t => task'[u] = task[u]
  <2> DEFINE new == [task[t] EXCEPT !.enabled = (next # Never), !.due = next]
  <2>1. task \in [Tasks -> TaskRows]
    BY <1>0 DEF SchedTypeOK, TaskRows
  <2>2. new \in TaskRows /\ new.due = next /\ new.version = task[t].version
        /\ new.kind = task[t].kind /\ new.exists = task[t].exists
    BY <2>1 DEF TaskRows
  <2>3. new.enabled = (next # Never)
    BY <2>1 DEF TaskRows
  <2>4. task' = [task EXCEPT ![t] = new]
    BY <1>6, <2>1 DEF TaskRows
  <2> HIDE DEF new
  <2>5. task'[t] = new /\ task' \in [Tasks -> TaskRows]
        /\ \A u \in Tasks : u # t => task'[u] = task[u]
    BY <2>1, <2>2, <2>4
  <2> QED
    BY <2>2, <2>3, <2>5
<1>9. /\ loop' \in [at : {"wait", "claim"}, now : 0 .. MaxTime,
                    todo : SUBSET (Tasks \X Times \X Kinds)]
      /\ \A d \in loop'.todo : d[2] <= loop'.now
  <2>1. Took(c)
    BY <1>6
  <2> QED
    BY <1>0, <2>1, TookOne DEF LoopRows
<1>10. SchedTypeOK'
  <2>1. \A u \in Tasks : task'[u].enabled <=> task'[u].exists /\ task'[u].due # Never
    <3>1. task[t].exists /\ \A u \in Tasks : task[u].enabled <=> task[u].exists /\ task[u].due # Never
      BY <1>0, <1>6 DEF SchedTypeOK
    <3>2. task'[t].enabled <=> task'[t].exists /\ task'[t].due # Never
      BY <1>8, <3>1
    <3> QED
      BY <1>8, <3>1, <3>2
  <2> QED
    BY <1>0, <1>6, <1>7, <1>8, <1>9, <2>1 DEF SchedTypeOK, TaskRows, RunRows
<1>11. PlansOK'
  BY <1>0, <1>6, <1>8, <1>9 DEF PlansOK
<1>12. ASSUME NEW q \in Runs, q # r, Claimed(q)
       PROVE  /\ IsPast(q) /\ run[q].due \in Nat /\ due \in Nat
              /\ run[q].task = t /\ run[q].version = task[t].version => run[q].due < due
  <2>1. IsPast(q) /\ run[q].due \in Nat /\ due \in Nat
    BY <1>0, <1>12 DEF DuesOK, Claimed, SchedTypeOK, Dues, Times
  <2> QED
    BY <1>0, <1>6, <2>1 DEF IsPast
<1>13. ASSUME NEW q \in Runs, Claimed(q)' PROVE IsPast(q)'
  <2>1. CASE q = r
    BY <1>0, <1>3, <1>7, <1>8, <2>1 DEF IsPast, SchedTypeOK
  <2>2. CASE q # r
    <3>1. Claimed(q) /\ run'[q] = run[q]
      BY <1>7, <1>13, <2>2 DEF Claimed
    <3>2. CASE run[q].task # t
      BY <1>8, <1>12, <2>2, <3>1, <3>2 DEF IsPast
    <3>3. CASE run[q].task = t
      <4>1. next # Never => next \in Nat
        BY <1>0, <1>3 DEF Dues, Times
      <4>2. run[q].version = task[t].version => next = Never \/ next > run[q].due
        BY <1>3, <1>12, <2>2, <3>1, <3>3, <4>1
      <4>3. run[q].version <= task[t].version
        BY <1>12, <2>2, <3>1, <3>3 DEF IsPast
      <4> QED
        BY <1>8, <3>1, <3>3, <4>2, <4>3 DEF IsPast
    <3> QED
      BY <3>2, <3>3
  <2> QED
    BY <2>1, <2>2
<1>14. ASSUME NEW p \in Runs, NEW q \in Runs, Claimed(p)', Claimed(q)', p # q PROVE ~SameDue(p, q)'
  <2>1. CASE p # r /\ q # r
    BY <1>0, <1>7, <1>14, <2>1 DEF DuesOK, Claimed, SameDue
  <2>2. CASE p = r
    BY <1>7, <1>12, <1>14, <2>2 DEF Claimed, SameDue
  <2>3. CASE q = r
    BY <1>7, <1>12, <1>14, <2>3 DEF Claimed, SameDue
  <2> QED
    BY <2>1, <2>2, <2>3
<1>15. DuesOK'
  BY <1>13, <1>14 DEF DuesOK
<1> QED
  BY <1>6, <1>7, <1>10, <1>11, <1>15 DEF SchedInv

-----------------------------------------------------------------------------
(* The panel's process.                                                    *)

LEMMA PanelInv ==
    ASSUME SchedInv, Shutdown \/ Exit \/ Boot
    PROVE  SchedInv'
<1>0. /\ SchedTypeOK /\ PlansOK /\ DuesOK /\ \A r \in Runs : RunOK(r)
      /\ MaxCrash \in Nat /\ MaxFaults \in Nat
  BY ScheduleConstants DEF SchedInv
<1>1. CASE Shutdown
  <2>1. /\ panel' = "closing"
        /\ UNCHANGED <<now, task, run, saving, loop, exec, part, sent, faults, crashes>>
    BY <1>1 DEF Shutdown
  <2>2. SchedTypeOK' /\ PlansOK' /\ DuesOK'
    BY <1>0, <2>1 DEF SchedTypeOK, PlansOK, DuesOK, Claimed, IsPast, SameDue
  <2>3. \A r \in Runs : RunOK(r)'
    BY <1>0, <2>1 DEF RunOK, PartOK
  <2> QED
    BY <2>1, <2>2, <2>3 DEF SchedInv, OpenRunIsWorkedOn
<1>2. CASE Exit
  <2>1. /\ panel' = "down" /\ crashes' = crashes + 1 /\ crashes < MaxCrash
        /\ saving' = NoSaving /\ loop' = NoCycle
        /\ exec' = [r \in Runs |-> "none"] /\ part' = [p \in Runs \X Targets |-> "none"]
        /\ UNCHANGED <<now, task, run, sent, faults>>
    BY <1>2 DEF Exit
  <2>2. /\ NoSaving \in [task : Tasks \cup {NoTask}, due : Dues, kind : Kinds \cup {"once"}]
        /\ NoCycle \in [at : {"wait", "claim"}, now : 0 .. MaxTime,
                        todo : SUBSET (Tasks \X Times \X Kinds)]
        /\ NoCycle.todo = {}
    BY ScheduleConstants DEF NoSaving, NoCycle, Dues
  <2>3. SchedTypeOK' /\ PlansOK' /\ DuesOK'
    BY <1>0, <2>1, <2>2 DEF SchedTypeOK, PlansOK, DuesOK, Claimed, IsPast, SameDue
  <2>4. \A r \in Runs : RunOK(r)'
    BY <1>0, <2>1 DEF RunOK, PartOK
  <2> QED
    BY <2>1, <2>3, <2>4 DEF SchedInv, OpenRunIsWorkedOn
<1>3. CASE Boot
  <2>1. /\ panel = "down" /\ panel' = "up"
        /\ UNCHANGED <<now, task, saving, loop, exec, part, sent, crashes>>
    BY <1>3 DEF Boot
  <2>2. \A r \in Runs : exec[r] = "none"
    BY <2>1 DEF SchedInv
  <2>3. CASE Fails(FALSE) /\ run' = run
    <3>1. SchedTypeOK' /\ PlansOK' /\ DuesOK' /\ faults' > 0
      BY <1>0, <2>1, <2>3
         DEF SchedTypeOK, PlansOK, DuesOK, Claimed, IsPast, SameDue, Fails
    <3>2. \A r \in Runs : RunOK(r)'
      BY <1>0, <2>1, <2>3 DEF RunOK, PartOK
    <3> QED
      BY <1>0, <2>1, <3>1, <3>2 DEF SchedInv, OpenRunIsWorkedOn, SchedTypeOK
  <2>4. CASE /\ run' = [r \in Runs |->
                  IF run[r].status \notin Open THEN run[r]
                  ELSE [run[r] EXCEPT !.status = "failed",
                          !.results = [x \in Targets |-> IF @[x] \in Open THEN "failed" ELSE @[x]]]]
             /\ faults' = faults
    <3>1. ASSUME NEW r \in Runs
          PROVE  /\ run'[r] \in RunRows /\ run'[r].task = run[r].task
                 /\ run'[r].version = run[r].version /\ run'[r].due = run[r].due
                 /\ run'[r].status = IF run[r].status \in Open THEN "failed" ELSE run[r].status
                 /\ \A x \in Targets :
                      run'[r].results[x] = IF run[r].status \in Open /\ run[r].results[x] \in Open
                                           THEN "failed" ELSE run[r].results[x]
      <4>0. run[r] \in RunRows /\ run[r].results \in [Targets -> Open \cup Ended \cup {"none"}]
        BY <1>0 DEF SchedTypeOK, RunRows
      <4>1. CASE run[r].status \notin Open
        BY <2>4, <4>0, <4>1
      <4>2. CASE run[r].status \in Open
        <5> DEFINE res == [x \in Targets |-> IF run[r].results[x] \in Open THEN "failed"
                                                                      ELSE run[r].results[x]]
        <5>1. res \in [Targets -> Open \cup Ended \cup {"none"}]
          BY <4>0 DEF Ended
        <5>2. run'[r] = [run[r] EXCEPT !.status = "failed", !.results = res]
          BY <2>4, <4>0, <4>2 DEF RunRows
        <5>3. \A x \in Targets : res[x] = IF run[r].results[x] \in Open THEN "failed"
                                                                   ELSE run[r].results[x]
          OBVIOUS
        <5> HIDE DEF res
        <5> QED
          BY <4>0, <4>2, <5>1, <5>2, <5>3 DEF RunRows, Ended
      <4> QED
        BY <4>1, <4>2
    <3>2. run' \in [Runs -> RunRows]
      BY <2>4, <3>1
    <3>3. SchedTypeOK' /\ PlansOK'
      BY <1>0, <2>1, <2>4, <3>2 DEF SchedTypeOK, PlansOK, RunRows
    <3>4. DuesOK'
      <4>1. \A r \in Runs : Claimed(r)' => Claimed(r)
        BY <3>1 DEF Claimed, Open
      <4> QED
        BY <1>0, <2>1, <3>1, <4>1 DEF DuesOK, IsPast, SameDue
    <3>5. ASSUME NEW r \in Runs PROVE RunOK(r)'
      <4>1. \A x \in Targets : PartOK(r, x)
        BY <1>0 DEF RunOK
      <4>2. \A x \in Targets : PartOK(r, x)'
        BY <2>1, <2>2, <3>1, <4>1 DEF PartOK, Open
      <4>3. run'[r].status = "completed" => run[r].status = "completed" /\ run[r].status \notin Open
        BY <3>1 DEF Open
      <4>4. run'[r].status = "completed" => \A x \in Targets : run'[r].results[x] # "failed"
        BY <1>0, <3>1, <4>3 DEF RunOK
      <4> QED
        BY <2>1, <2>2, <4>2, <4>4 DEF RunOK
    <3>6. OpenRunIsWorkedOn'
      BY <3>1 DEF OpenRunIsWorkedOn, Open
    <3> QED
      BY <2>1, <3>3, <3>4, <3>5, <3>6 DEF SchedInv
  <2> QED
    BY <1>3, <2>3, <2>4 DEF Boot
<1> QED
  BY <1>1, <1>2, <1>3

-----------------------------------------------------------------------------
(* The theorems.                                                           *)

LEMMA SchedInitInv == SchedInit => SchedInv
<1> SUFFICES ASSUME SchedInit PROVE SchedInv
  OBVIOUS
<1>0. /\ MaxTime \in Nat /\ MaxEdits \in Nat /\ MaxFaults \in Nat /\ MaxCrash \in Nat
  BY ScheduleConstants
<1>1. /\ NoRow \in TaskRows /\ ~NoRow.enabled /\ ~NoRow.exists
      /\ NoRun \in RunRows /\ NoRun.status = "none"
      /\ \A x \in Targets : NoRun.results[x] = "none"
      /\ NoSaving \in [task : Tasks \cup {NoTask}, due : Dues, kind : Kinds \cup {"once"}]
      /\ NoCycle \in [at : {"wait", "claim"}, now : 0 .. MaxTime,
                      todo : SUBSET (Tasks \X Times \X Kinds)]
      /\ NoCycle.todo = {}
  BY <1>0 DEF NoRow, NoRun, NoSaving, NoCycle, TaskRows, RunRows, Dues
<1>2. SchedTypeOK
  BY <1>0, <1>1 DEF SchedInit, SchedTypeOK, TaskRows, RunRows
<1>3. PlansOK /\ DuesOK
  BY <1>1 DEF SchedInit, PlansOK, DuesOK, Claimed
<1>4. \A r \in Runs : RunOK(r)
  BY <1>1 DEF SchedInit, RunOK, PartOK
<1>5. OpenRunIsWorkedOn /\ panel # "down"
  BY <1>1 DEF SchedInit, OpenRunIsWorkedOn, Open
<1> QED
  BY <1>2, <1>3, <1>4, <1>5 DEF SchedInv

LEMMA SchedStepInv == SchedInv /\ [SchedNext]_schedVars => SchedInv'
<1> SUFFICES ASSUME SchedInv, [SchedNext]_schedVars PROVE SchedInv'
  OBVIOUS
<1>1. CASE \/ Tick
           \/ \E t \in Tasks, kind \in Kinds, enabled \in BOOLEAN : Prepare(t, kind, enabled)
           \/ Save
           \/ \E t \in Tasks : DeleteTask(t)
           \/ CycleBegins
           \/ \E c \in loop.todo : ClaimsNothing(c)
  BY <1>1, PlanInv
<1>2. CASE \E t \in Tasks, r \in Runs : RunNow(t, r)
  BY <1>2, RunNowInv
<1>3. CASE \E c \in loop.todo, r \in Runs : Claims(c, r)
  BY <1>3, ClaimsInv
<1>4. ASSUME NEW r \in Runs, RunStep(r) PROVE SchedInv'
  BY <1>4, StartRunInv, FinishRunInv, TargetInv DEF RunStep
<1>5. CASE Shutdown \/ Exit \/ Boot
  BY <1>5, PanelInv
<1>6. CASE UNCHANGED schedVars
  <2>1. UNCHANGED <<now, task, run, saving, loop, exec, part, panel, sent, faults, crashes>>
    BY <1>6 DEF schedVars
  <2>2. SchedTypeOK' /\ PlansOK' /\ DuesOK'
    BY <2>1 DEF SchedInv, SchedTypeOK, PlansOK, DuesOK, Claimed, IsPast, SameDue
  <2> QED
    BY <2>1, <2>2, RunsUntouched DEF SchedInv
<1> QED
  BY <1>1, <1>2, <1>3, <1>4, <1>5, <1>6 DEF SchedNext, LoopStep

LEMMA SchedSafe == ASSUME SchedInv PROVE CommandOnce /\ RunsAreTrue
<1>1. ASSUME NEW r \in Runs, NEW x \in Targets
      PROVE  /\ sent[<<r, x>>] \in 0 .. 2
             /\ PartOK(r, x)
             /\ run[r].status = "completed" => run[r].results[x] # "failed"
  BY DEF SchedInv, SchedTypeOK, RunOK
<1>2. CommandOnce
  <2>1. \A p \in Runs \X Targets : sent[p] <= 1
    BY <1>1 DEF PartOK
  <2>2. ASSUME NEW r \in Runs, NEW q \in Runs, NEW x \in Targets,
               r # q, sent[<<r, x>>] > 0, sent[<<q, x>>] > 0, run[r].due # Never
        PROVE  <<run[r].task, run[r].version, run[r].due>>
                 # <<run[q].task, run[q].version, run[q].due>>
    <3>1. run[r].status # "none" /\ run[q].status # "none"
      BY <1>1, <2>2 DEF PartOK
    <3>2. Claimed(q) => ~SameDue(r, q)
      BY <2>2, <3>1 DEF SchedInv, DuesOK, Claimed
    <3> QED
      BY <2>2, <3>1, <3>2 DEF Claimed, SameDue
  <2> QED
    BY <2>1, <2>2 DEF CommandOnce
<1>3. SentIsShown
  <2>1. ASSUME NEW r \in Runs, NEW x \in Targets
        PROVE  /\ sent[<<r, x>>] > 0 => run[r].status # "missed" /\ run[r].results[x] # "queued"
               /\ run[r].results[x] = "completed" => sent[<<r, x>>] > 0
    <3>1. sent[<<r, x>>] > 0 => sent[<<r, x>>] = 1
      BY <1>1 DEF PartOK
    <3> QED
      BY <1>1, <3>1 DEF PartOK
  <2> QED
    BY <2>1 DEF SentIsShown
<1>4. CompletedHasNoFailure
  BY <1>1 DEF CompletedHasNoFailure
<1> QED
  BY <1>2, <1>3, <1>4 DEF SchedInv, RunsAreTrue

\* A target gets the command of a due time at most once, however the loop, the users, failing
\* statements and starts of the panel interleave (ClaimScheduledTask, executeTarget).
THEOREM SchedCommandOnce == SchedSpec => []CommandOnce
<1>1. SchedInv /\ [SchedNext]_schedVars => SchedInv'
  BY SchedStepInv
<1>2. SchedInv => CommandOnce
  BY SchedSafe
<1> QED
  BY SchedInitInv, <1>1, <1>2, PTL DEF SchedSpec

\* What is recorded of a run is true: sent commands are shown as begun, a completed run has no
\* failure, and as long as no statement fails somebody works on every open run (execute,
\* FinishTaskRun, FailIncompleteTaskRuns).
THEOREM SchedRunsAreTrue == SchedSpec => []RunsAreTrue
<1>1. SchedInv /\ [SchedNext]_schedVars => SchedInv'
  BY SchedStepInv
<1>2. SchedInv => RunsAreTrue
  BY SchedSafe
<1> QED
  BY SchedInitInv, <1>1, <1>2, PTL DEF SchedSpec

==============================================================================
