----------------------------- MODULE PluginFiles -----------------------------
(***************************************************************************)
(* The plugin files of an instance (daemon plugins/): a plugin is deployed, *)
(* enabled, disabled or removed at once, or, while the server holds its     *)
(* file open, by an operation that is queued on disk and applied before the *)
(* next start.  A ticker compares the files with those the server started   *)
(* with.                                                                    *)
(*                                                                         *)
(* One instance and one plugin.  Requests and starts hold the reservation   *)
(* of the instance, so one thing is done at a time; the server may exit,    *)
(* take or free the file, and the daemon may crash, between any two steps.  *)
(***************************************************************************)
EXTENDS Integers, Sequences

CONSTANTS Builds, MaxRequests, MaxStarts, MaxDeaths, MaxDiskFaults \* builds of the plugin; bounds

VARIABLES
    jar,       \* what the plugins directory has for the plugin
    backup,    \* what a transaction of deployPluginToWorkspace has put aside
    pending,   \* pending.json
    bundles,   \* the builds of the bundle files of the queue
    server,    \* the process: running, the files it started with, whether it holds the file
    job,       \* what holds the reservation
    baseline,  \* Service.baselines, and what a scan has read: its baseline, then the hashes
    told,      \* the flags of the supervisor
    asked,     \* the state last asked for, whether the plugin was removed, its file left
               \* aside for good, or left aside under the queue, or an operation done at
               \* once while older ones were queued
    pfCount    \* what the bounds count

\* 0 is no build.
ASSUME PfConstants == 0 \notin Builds

pfVars == <<jar, backup, pending, bundles, server, job, baseline, told, asked, pfCount>>

NoJar     == [build |-> 0, on |-> FALSE]
Unknown   == [build |-> -1, on |-> FALSE]
Enabled(j) == IF j.on THEN j ELSE NoJar
NoJob     == [kind |-> "none", at |-> "idle", do |-> "none", build |-> 0]

PfInit ==
    /\ jar = [build |-> 0, on |-> FALSE]
    /\ backup = NoJar
    /\ pending = <<>>
    /\ bundles = {}
    /\ server = [running |-> FALSE, with |-> NoJar, holds |-> FALSE]
    /\ job = NoJob
    /\ baseline = [files |-> Unknown, base |-> Unknown, scan |-> Unknown]
    /\ told = [restart |-> FALSE, changed |-> FALSE]
    /\ asked = [jar |-> NoJar, gone |-> TRUE, hurt |-> FALSE, woken |-> FALSE, early |-> FALSE]
    /\ pfCount = [requests |-> 0, starts |-> 0, deaths |-> 0, faults |-> 0]

PfCounts(what, max) == pfCount[what] < max /\ pfCount' = [pfCount EXCEPT ![what] = @ + 1]

-----------------------------------------------------------------------------
(* What an operation makes of the files: deployPluginToWorkspace,          *)
(* setPluginEnabled and uninstallPlugin.                                   *)

Todo(do, build) == [do |-> do, build |-> build]

\* A deployed plugin takes the file name it finds, an enabled one or not.
Result(op, j) ==
    CASE op.do = "deploy"    -> [build |-> op.build, on |-> j.build = 0 \/ j.on]
      [] op.do = "enable"    -> [j EXCEPT !.on = TRUE]
      [] op.do = "disable"   -> [j EXCEPT !.on = FALSE]
      [] op.do = "uninstall" -> NoJar

Possible(op, j) == op.do \in {"enable", "disable"} => j.build # 0

\* The file of a running server cannot be replaced, renamed or removed.
Held(op) == server.holds /\ jar.build # 0 /\ Result(op, jar) # jar

\* Whether the plugin is gone because someone removed it.
Removes(op, gone) == op.do = "uninstall" \/ (gone /\ op.do # "deploy")

TheOp == Todo(job.do, job.build)

-----------------------------------------------------------------------------
(* Requests: Deploy, UploadInstance, SetEnabled, Uninstall.                 *)

Requests0 ==
    [do : {"deploy"}, build : Builds] \cup [do : {"enable", "disable", "uninstall"}, build : {0}]

Asks(op) ==
    /\ job = NoJob
    /\ PfCounts("requests", MaxRequests)
    /\ job' = [kind |-> IF server.running THEN "live" ELSE "still", at |-> "apply", do |-> op.do, build |-> op.build]
    /\ UNCHANGED <<jar, backup, pending, bundles, server, baseline, told, asked>>

\* applyOrQueue: done at once (a deployment goes on in Deploys) ...
AppliesNow ==
    /\ job.kind \in {"live", "still"}
    /\ job.at = "apply"
    /\ Possible(TheOp, jar)
    /\ ~Held(TheOp)
    /\ IF job.do = "deploy" /\ jar.build # 0
         THEN /\ backup' = jar
              /\ jar' = NoJar
              /\ job' = [job EXCEPT !.at = "swap"]
              /\ UNCHANGED asked
         ELSE /\ jar' = Result(TheOp, jar)
              /\ asked' = [asked EXCEPT !.jar = Result(TheOp, jar), !.gone = Removes(TheOp, @),
                                        !.early = @ \/ pending # <<>>]
              /\ job' = [job EXCEPT !.at = "flag"]
              /\ UNCHANGED backup
    /\ UNCHANGED <<pending, bundles, server, baseline, told, pfCount>>

\* Mutant: the queue is written with the new operation only.
EnqueuesAlone(woken) ==
    /\ pending' = <<TheOp>>
    /\ bundles' = IF job.do = "deploy" THEN bundles \cup {job.build} ELSE bundles
    /\ asked' = [asked EXCEPT !.jar = Result(TheOp, @), !.woken = woken]
    /\ job' = [job EXCEPT !.at = "queued"]

\* pendingStore.enqueue.
Enqueues(woken) ==
    /\ pending' = Append(pending, TheOp)
    /\ bundles' = IF job.do = "deploy" THEN bundles \cup {job.build} ELSE bundles
    /\ asked' = [asked EXCEPT !.jar = Result(TheOp, @), !.woken = woken]
    /\ job' = [job EXCEPT !.at = "queued"]

\* ... or, while the server runs, kept for the next start when it holds the file or
\* the attempt fails with another error that may pass (retryableFileError) ...
Queues ==
    /\ job.kind = "live"
    /\ job.at = "apply"
    /\ Possible(TheOp, jar)
    /\ IF Held(TheOp) THEN UNCHANGED pfCount ELSE PfCounts("faults", MaxDiskFaults)
    /\ Enqueues(asked.woken)
    /\ UNCHANGED <<jar, backup, server, baseline, told>>

\* ... or refused.
RefusesRequest ==
    /\ job.kind \in {"live", "still"}
    /\ job.at = "apply"
    /\ ~Possible(TheOp, jar)
    /\ job' = NoJob
    /\ UNCHANGED <<jar, backup, pending, bundles, server, baseline, told, asked, pfCount>>

\* SetPluginPendingRestart, with the state of the server the request found.
Flags ==
    /\ job.kind \in {"live", "still"}
    /\ job.at \in {"flag", "queued"}
    /\ told' = [told EXCEPT !.restart = job.at = "queued" \/ job.kind = "live"]
    /\ job' = NoJob
    /\ UNCHANGED <<jar, backup, pending, bundles, server, baseline, asked, pfCount>>

Swapped == IF job.kind = "start" THEN "drop" ELSE "flag"

\* The second rename of deployPluginToWorkspace.
Swaps ==
    /\ job.at = "swap"
    /\ jar' = [build |-> job.build, on |-> backup.on]
    /\ backup' = NoJar
    /\ job' = [job EXCEPT !.at = Swapped]
    /\ asked' = IF job.kind = "start" THEN asked
                ELSE [asked EXCEPT !.jar = jar', !.early = @ \/ pending # <<>>]
    /\ UNCHANGED <<pending, bundles, server, baseline, told, pfCount>>

\* It fails: the old file is put back.
SwapFails ==
    /\ job.at = "swap"
    /\ PfCounts("faults", MaxDiskFaults)
    /\ jar' = backup
    /\ backup' = NoJar
    /\ job' = NoJob
    /\ UNCHANGED <<pending, bundles, server, baseline, told, asked>>

TwoFaults ==
    /\ pfCount.faults + 1 < MaxDiskFaults
    /\ pfCount' = [pfCount EXCEPT !.faults = @ + 2]

\* What holds the reservation is gone.  A file it has put aside stays there, under a
\* name that neither a scan nor a deployment takes for a plugin.
BreaksOff ==
    /\ asked' = [asked EXCEPT !.hurt = @ \/ (job.kind # "start" /\ job.at = "swap"),
                              !.woken = @ \/ (job.kind = "start" /\ job.at = "swap" /\ ~backup.on)]
    /\ backup' = NoJar
    /\ job' = NoJob
    /\ UNCHANGED <<jar, pending, bundles, server>>

\* The rename that puts it back fails as well; nothing is made of that error.
RollbackFails ==
    /\ job.at = "swap"
    /\ TwoFaults
    /\ BreaksOff
    /\ UNCHANGED <<baseline, told>>

\* Either failure may be one for which a running server's deployment is queued.
SwapIsQueued ==
    /\ job.kind = "live"
    /\ job.at = "swap"
    /\ \/ /\ PfCounts("faults", MaxDiskFaults)
          /\ jar' = backup
          /\ Enqueues(asked.woken)
       \/ /\ TwoFaults
          /\ UNCHANGED jar
          /\ Enqueues(asked.woken \/ ~backup.on \/ pending # <<>>)
    /\ backup' = NoJar
    /\ UNCHANGED <<server, baseline, told>>

\* Any other error of a file operation ends the request or the start; so does a
\* process that cannot be created.  A queue that is empty is told before the files
\* are read.
JobFails ==
    /\ job.at \in {"apply", "load", "save", "exec"}
    /\ PfCounts("faults", MaxDiskFaults)
    /\ told' = [told EXCEPT !.restart = @ /\ ~(job.at = "load" /\ pending = <<>>)]
    /\ job' = NoJob
    /\ UNCHANGED <<jar, backup, pending, bundles, server, baseline, asked>>

-----------------------------------------------------------------------------
(* A start: beforeStart and what startLocked does after it.                *)

StartBegins ==
    /\ job = NoJob
    /\ ~server.running
    /\ PfCounts("starts", MaxStarts)
    /\ job' = [NoJob EXCEPT !.kind = "start", !.at = "load"]
    /\ UNCHANGED <<jar, backup, pending, bundles, server, baseline, told, asked>>

\* pendingStore.apply: the first operation of the queue.
LoadsPending ==
    /\ job.at = "load"
    /\ pending # <<>>
    /\ LET op == Head(pending)
       IN  /\ Possible(op, jar)
           /\ op.do = "deploy" => op.build \in bundles
           /\ asked' = [asked EXCEPT !.gone = Removes(op, @)]
           /\ IF op.do = "deploy" /\ jar.build # 0
                THEN /\ backup' = jar
                     /\ jar' = NoJar
                     /\ job' = [job EXCEPT !.at = "swap", !.do = op.do, !.build = op.build]
                ELSE /\ jar' = Result(op, jar)
                     /\ job' = [job EXCEPT !.at = "drop", !.do = op.do, !.build = op.build]
                     /\ UNCHANGED backup
    /\ UNCHANGED <<pending, bundles, server, baseline, told, pfCount>>

\* An operation that cannot be applied stops the start.
PendingFails ==
    /\ job.at = "load"
    /\ pending # <<>>
    /\ LET op == Head(pending) IN ~Possible(op, jar) \/ (op.do = "deploy" /\ op.build \notin bundles)
    /\ job' = NoJob
    /\ UNCHANGED <<jar, backup, pending, bundles, server, baseline, told, asked, pfCount>>

\* First the bundle is removed ...
DropsBundle ==
    /\ job.at = "drop"
    /\ bundles' = IF job.do = "deploy" /\ \A i \in 2 .. Len(pending) : pending[i] # TheOp
                    THEN bundles \ {job.build} ELSE bundles
    /\ job' = [job EXCEPT !.at = "save"]
    /\ UNCHANGED <<jar, backup, pending, server, baseline, told, asked, pfCount>>

\* ... then the queue is saved without the operation.
SavesPending ==
    /\ job.at = "save"
    /\ pending' = Tail(pending)
    /\ job' = [job EXCEPT !.at = "load"]
    /\ UNCHANGED <<jar, backup, bundles, server, baseline, told, asked, pfCount>>

\* Mutant: the old baseline is kept.
KeepsBaseline ==
    /\ job.at = "load"
    /\ pending = <<>>
    /\ told' = [told EXCEPT !.restart = FALSE]
    /\ baseline' = [baseline EXCEPT !.files = IF @ = Unknown THEN Enabled(jar) ELSE @]
    /\ job' = [job EXCEPT !.at = "exec"]
    /\ UNCHANGED <<jar, backup, pending, bundles, server, asked, pfCount>>

\* The queue is empty: the flag, the baseline and its flag, in this order.
TakesBaseline ==
    /\ job.at = "load"
    /\ pending = <<>>
    /\ told' = [told EXCEPT !.restart = FALSE]
    /\ baseline' = [baseline EXCEPT !.files = Enabled(jar)]
    /\ job' = [job EXCEPT !.at = "exec"]
    /\ UNCHANGED <<jar, backup, pending, bundles, server, asked, pfCount>>

\* The process is created and startLocked resets what is told of it.
ServerRuns ==
    /\ job.at = "exec"
    /\ server' = [running |-> TRUE, with |-> Enabled(jar), holds |-> jar.on]
    /\ told' = [restart |-> FALSE, changed |-> FALSE]
    /\ job' = NoJob
    /\ UNCHANGED <<jar, backup, pending, bundles, baseline, asked, pfCount>>

-----------------------------------------------------------------------------
(* The server, the ticker and the daemon.                                  *)

Stops ==
    /\ server.running
    /\ server' = [server EXCEPT !.running = FALSE, !.holds = FALSE]
    /\ UNCHANGED <<jar, backup, pending, bundles, job, baseline, told, asked, pfCount>>

\* The class loader closes the file, or somebody else does.
FreesFile ==
    /\ server.holds
    /\ server' = [server EXCEPT !.holds = FALSE]
    /\ UNCHANGED <<jar, backup, pending, bundles, job, baseline, told, asked, pfCount>>

\* scanRunningInstances: what the server started with, as last noted ...
ReadsBaseline ==
    /\ server.running
    /\ baseline.files # Unknown
    /\ baseline.base = Unknown
    /\ baseline' = [baseline EXCEPT !.base = baseline.files]
    /\ UNCHANGED <<jar, backup, pending, bundles, server, job, told, asked, pfCount>>

\* ... then the files are read ...
Scans ==
    /\ baseline.base # Unknown
    /\ baseline.scan = Unknown
    /\ baseline' = [baseline EXCEPT !.scan = Enabled(jar)]
    /\ UNCHANGED <<jar, backup, pending, bundles, server, job, told, asked, pfCount>>

\* ... unless one cannot be read: then the next tick looks again ...
ScanFails ==
    /\ baseline.base # Unknown
    /\ baseline.scan = Unknown
    /\ PfCounts("faults", MaxDiskFaults)
    /\ baseline' = [baseline EXCEPT !.base = Unknown]
    /\ UNCHANGED <<jar, backup, pending, bundles, server, job, told, asked>>

\* ... and the difference is told, of whatever runs now.
TellsChanges ==
    /\ baseline.scan # Unknown
    /\ told' = [told EXCEPT !.changed = baseline.scan # baseline.base]
    /\ baseline' = [baseline EXCEPT !.base = Unknown, !.scan = Unknown]
    /\ UNCHANGED <<jar, backup, pending, bundles, server, job, asked, pfCount>>

\* The daemon dies; the server goes on, and its baseline is forgotten.
PfDies ==
    /\ PfCounts("deaths", MaxDeaths)
    /\ BreaksOff
    /\ baseline' = [files |-> Unknown, base |-> Unknown, scan |-> Unknown]
    /\ told' = [restart |-> FALSE, changed |-> FALSE]

PfStep ==
    \/ AppliesNow \/ Queues \/ RefusesRequest \/ Flags \/ Swaps \/ LoadsPending \/ PendingFails
    \/ DropsBundle \/ SavesPending \/ TakesBaseline \/ ServerRuns \/ ReadsBaseline \/ Scans
    \/ TellsChanges

PfNext ==
    \/ PfStep
    \/ \E op \in Requests0 : Asks(op)
    \/ StartBegins \/ Stops \/ FreesFile \/ PfDies
    \/ SwapFails \/ RollbackFails \/ SwapIsQueued \/ JobFails \/ ScanFails

PfSpec == PfInit /\ [][PfNext]_pfVars

-----------------------------------------------------------------------------
(* Properties.                                                             *)

\* A plugin that is installed stays, in its old or its new build, until someone
\* asks to remove it: between requests and starts the file is there, or a deployment
\* that brings it back is queued.  A queued deployment that is cut by a crash, or
\* whose failed swap is not undone, is repaired by the next start; the exception is a
\* direct one, whose old file then stays aside (asked.hurt: a crash between the two
\* renames, or the error of the rollback that deployPluginToWorkspace ignores).
InstalledStays ==
    jar.build = 0 /\ job.at # "swap" =>
        asked.gone \/ asked.hurt \/ \E i \in DOMAIN pending : pending[i].do = "deploy"

\* A start brings the plugin to where it was last asked to be, through operations
\* that were queued, starts that failed and crashes between the steps of one,
\* unless an operation was done at once while older ones were queued: those come
\* after it (applyOrQueue, beforeStart).  Besides asked.hurt, the exception is a file
\* left aside while a deployment is queued: the next start takes the plugin for a new
\* one, which may change whether it is enabled (asked.woken), never its build.
LastRequestWins ==
    job.at = "exec" => \/ jar.build = asked.jar.build /\ (jar.on = asked.jar.on \/ asked.woken)
                       \/ asked.early \/ asked.hurt

\* What the user asked for is neither lost nor undone.
RequestsAreKept == InstalledStays /\ LastRequestWins

\* What is told of the plugin files of a running server comes to be true, unless
\* the daemon has restarted (scanRunningInstances, beforeStart).
FlagSettles ==
    []<>(\/ told.changed = (Enabled(jar) # server.with)
         \/ ~server.running \/ pfCount.deaths > 0 \/ job # NoJob)
=============================================================================
