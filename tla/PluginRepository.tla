-------------------------- MODULE PluginRepository --------------------------
(***************************************************************************)
(* The panel's repository of plugins (panel/internal/plugins) and the      *)
(* handlers that write it: a directory per plugin with one directory per   *)
(* release and an index, and a catalogue of them in the database.          *)
(*                                                                         *)
(* One plugin.  Every operation holds Repository.mu, so that what others   *)
(* see of it is the disk it leaves: the last of its states when it         *)
(* succeeds, an earlier one when a write fails or the panel stops in       *)
(* between.  An administrator may change the files by hand, which the      *)
(* scan is there for.                                                      *)
(***************************************************************************)
EXTENDS Naturals, Sequences, FiniteSets, FiniteSetsExt, SequencesExt

CONSTANTS
    Jars,          \* contents of a JAR
    Zips,          \* contents of a config directory
    NoJarFile, NoZip,
    PanelRequests, \* requests at work
    FirstScan,     \* the scan at the panel's start
    MaxReleases,   \* bound on the artifact ids
    MaxRepoOps,    \* bound on uploads, deletions and scans
    MaxRepoFaults, \* bound on failed writes
    MaxRepoStops,  \* bound on stops of the panel
    MaxByHand      \* bound on changes by hand

ASSUME RepositoryConstants ==
    /\ NoJarFile \notin Jars /\ NoZip \notin Zips /\ FirstScan \notin PanelRequests
    /\ {MaxReleases, MaxRepoOps, MaxRepoFaults, MaxRepoStops, MaxByHand} \subseteq Nat

VARIABLES
    repo,      \* the plugin's directory: [dirs, index]
    imports,   \* import/: JARs with their config
    catalogue, \* plugin_artifacts_v2
    repoTask,  \* what a request has to do yet: [step, files, list]
    serving,   \* the scan at the start is over
    sound,     \* no write was cut and nothing changed by hand since a scan without a warning
    repoCount  \* [ops, faults, stops, hands]

repoVars == <<repo, imports, catalogue, repoTask, serving, sound, repoCount>>

ReleaseIds == 1..MaxReleases
NoManifest == [jar |-> NoJarFile, zip |-> NoZip]
\* jar and zip are what lies in the directory, man is manifest.yaml.
NoRelease == [jar |-> NoJarFile, zip |-> NoZip, man |-> NoManifest, there |-> FALSE]
Release(jar, zip) ==
    [jar |-> jar, zip |-> zip, man |-> [jar |-> jar, zip |-> zip], there |-> TRUE]
NoIndex == [current |-> 0, next |-> 1, auto |-> FALSE, there |-> FALSE]

ReleaseDirs(r) == {i \in ReleaseIds : r.dirs[i].there}
\* loadArtifactsLocked: a directory without a manifest is passed over.
Artifacts(r) == {i \in ReleaseDirs(r) : r.dirs[i].man # NoManifest}
HighestOf(ids) == IF ids = {} THEN 0 ELSE Max(ids)

\* List: buildPlugin of a plugin that has an index and an artifact.
Listing(r) ==
    IF ~r.index.there THEN {}
    ELSE {[id |-> i, jar |-> r.dirs[i].man.jar, current |-> i = r.index.current] : i \in Artifacts(r)}

Quiet == [step |-> "idle", files |-> {}, list |-> {}]

RepoInit ==
    /\ repo = [dirs |-> [i \in ReleaseIds |-> NoRelease], index |-> NoIndex]
    /\ imports = {} /\ catalogue = {}
    /\ repoTask = [c \in PanelRequests \cup {FirstScan} |-> Quiet]
    /\ serving = TRUE /\ sound = TRUE
    /\ repoCount = [ops |-> 0, faults |-> 0, stops |-> 0, hands |-> 0]

-----------------------------------------------------------------------------
(* What an operation leaves on the disk, one state after the other.        *)

\* Upload: the config is the given one or the current release's; a JAR the repository has
\* only saves the index; otherwise the release is published, then the index saved.
UploadStates(r, jar, zip, auto) ==
    LET index    == [r.index EXCEPT !.auto = auto, !.there = TRUE]
        current  == IF index.current \in Artifacts(r) THEN r.dirs[index.current] ELSE NoRelease
        config   == IF zip # NoZip THEN zip
                    ELSE IF current.man.zip # NoZip THEN current.zip ELSE NoZip
        new      == Release(jar, config)
        id       == Max({index.next, HighestOf(Artifacts(r)) + 1})
        published == [r EXCEPT !.dirs[id] = new]
    IN  IF \E i \in Artifacts(r) : r.dirs[i].man = new.man
        THEN <<r, [r EXCEPT !.index = index]>>
        ELSE IF id \notin ReleaseIds \/ id \in ReleaseDirs(r) THEN <<r>>      \* the rename fails
        ELSE <<r, published,
               [published EXCEPT !.index = [index EXCEPT !.current = id, !.next = id + 1]]>>

\* One id of repairPluginLocked.  w: [repo, next, kept, warned]; a release whose recovery
\* fails, before or after its copy was published, is passed over with a warning.
RepairsRelease(w, i, fails) ==
    LET d     == w.repo.dirs[i]
        fresh == Min({n \in ReleaseIds : n >= w.next /\ n \notin ReleaseDirs(w.repo)} \cup {MaxReleases + 1})
        copy  == [w.repo EXCEPT !.dirs[fresh] = Release(d.jar, d.zip)]
    IN  IF d.jar = NoJarFile THEN [w EXCEPT !.warned = TRUE]
        ELSE IF d.man = NoManifest
             THEN [w EXCEPT !.repo.dirs[i] = Release(d.jar, d.zip), !.kept = @ \cup {i}]
        ELSE IF d.man = [jar |-> d.jar, zip |-> d.zip] THEN [w EXCEPT !.kept = @ \cup {i}]
        ELSE IF fresh \notin ReleaseIds \/ fails = "before" THEN [w EXCEPT !.warned = TRUE]
        ELSE IF fails = "after" THEN [w EXCEPT !.repo = copy, !.warned = TRUE]
        ELSE [w EXCEPT !.repo = [copy EXCEPT !.dirs[i] = NoRelease],
                       !.kept = @ \cup {fresh}, !.next = fresh + 1]

\* Mutant: the current release is kept although it was republished.
RepairsIndexOnly(w) == [w.repo.index EXCEPT !.next = w.next, !.there = TRUE]

RepairsIndex(w) ==
    LET current == IF w.repo.index.current \in w.kept THEN w.repo.index.current ELSE Max(w.kept)
    IN  [w.repo.index EXCEPT !.current = current, !.next = w.next, !.there = TRUE]

\* repairPluginLocked: what it has made once it has looked at the ids up to i, in their
\* order; release k fails in the given way (0: none does).
RepairRun(r, k, fails) ==
    LET w[i \in 0..MaxReleases] ==
          IF i = 0
          THEN [repo |-> r, next |-> HighestOf(ReleaseDirs(r)) + 1, kept |-> {}, warned |-> FALSE]
          ELSE IF i \in ReleaseDirs(r)
               THEN RepairsRelease(w[i-1], i, IF i = k THEN fails ELSE "no")
               ELSE w[i-1]
    IN  w

\* All of it, and the index is saved.
Repaired(r, k, fails) == RepairRun(r, k, fails)[MaxReleases]

Indexed(w) == IF w.kept = {} THEN w.repo ELSE [w.repo EXCEPT !.index = RepairsIndex(w)]

-----------------------------------------------------------------------------
(* The requests.                                                           *)

MayBegin(c) == repoTask[c].step = "idle" /\ serving /\ repoCount.ops < MaxRepoOps

Step(c, step) == repoTask' = [repoTask EXCEPT ![c].step = step]

\* The panel stops: what was at work is gone, and the next start begins with a scan.
Stopped ==
    /\ repoCount.stops < MaxRepoStops
    /\ serving' = FALSE
    /\ sound' = FALSE
    /\ repoTask' = [c \in DOMAIN repoTask |->
                      IF c = FirstScan THEN [Quiet EXCEPT !.step = "scan"] ELSE Quiet]

\* A write fails: the request ends with the error, an import with a warning.
Failed(c) ==
    /\ repoCount.faults < MaxRepoFaults
    /\ sound' = FALSE
    /\ Step(c, IF repoTask[c].step = "import" THEN "import" ELSE "idle")
    /\ UNCHANGED serving

Counts(o, f, s) ==
    repoCount' = [repoCount EXCEPT !.ops = @ + o, !.faults = @ + f, !.stops = @ + s]

\* The writes of one operation: all of them, or as many as the fault or the stop allows.
Cut(c, states, o) ==
    \E k \in 1..(Len(states) - 1) :
        /\ repo' = states[k]
        /\ \/ Failed(c) /\ Counts(o, 1, 0)
           \/ Stopped /\ Counts(o, 0, 1)

UploadsPlugin(c) ==
    /\ MayBegin(c)
    /\ \E jar \in Jars, auto \in BOOLEAN :
         LET states == UploadStates(repo, jar, NoZip, auto)
         IN  \/ /\ repo' = Last(states)
                /\ Step(c, IF Len(states) = 1 THEN "idle" ELSE "list")
                /\ Counts(1, 0, 0)
                /\ UNCHANGED <<serving, sound>>
             \/ Cut(c, states, 1)
    /\ UNCHANGED <<imports, catalogue>>

\* RemoveAll takes the files in no fixed order: what is left when it does not come to its end.
LeftOf(r, gone, half, index) ==
    [dirs |-> [i \in ReleaseIds |->
                 IF i \in gone THEN NoRelease
                 ELSE IF i = half THEN [r.dirs[i] EXCEPT !.jar = NoJarFile] ELSE r.dirs[i]],
     index |-> IF index THEN r.index ELSE NoIndex]

PartlyDeleted(r) ==
    {LeftOf(r, gone, half, index) :
       gone \in SUBSET ReleaseDirs(r), half \in {0} \cup ReleaseDirs(r), index \in BOOLEAN}

DeletesPlugin(c) ==
    /\ MayBegin(c)
    /\ repo.index.there
    /\ \/ /\ repo' = [dirs |-> [i \in ReleaseIds |-> NoRelease], index |-> NoIndex]
          /\ Step(c, "list")
          /\ Counts(1, 0, 0)
          /\ UNCHANGED <<serving, sound>>
       \/ \E r \in PartlyDeleted(repo) : Cut(c, <<r, repo>>, 1)
    /\ UNCHANGED <<imports, catalogue>>

\* Rescan, as far as repairLocked; at the start of the panel, or for a request.  A manifest
\* or an index that cannot be written ends the repair with a warning, a release that cannot
\* be recovered does not.
Repairs(c) ==
    LET begins == IF c = FirstScan THEN 0 ELSE 1
        scans  == [repoTask EXCEPT ![c] = [step |-> "import", files |-> imports, list |-> {}]]
        warns  == /\ repoCount.faults < MaxRepoFaults
                  /\ sound' = FALSE
                  /\ repoTask' = scans
                  /\ Counts(begins, 1, 0)
                  /\ UNCHANGED serving
        stops  == Stopped /\ Counts(begins, 0, 1)
    IN  /\ \/ c = FirstScan /\ repoTask[c].step = "scan"
           \/ c # FirstScan /\ MayBegin(c)
        /\ \/ LET w == Repaired(repo, 0, "no")
              IN  /\ repo' = Indexed(w)
                  /\ sound' = (~w.warned /\ (ReleaseDirs(repo) = {} => ~repo.index.there))
                  /\ repoTask' = scans
                  /\ Counts(begins, 0, 0)
                  /\ UNCHANGED serving
           \/ \E k \in ReleaseDirs(repo), fails \in {"before", "after"} :
                repo' = Indexed(Repaired(repo, k, fails)) /\ warns
           \/ \E k \in {0} \cup ReleaseDirs(repo) :
                repo' = RepairRun(repo, 0, "no")[k].repo /\ (warns \/ stops)
           \/ \E k \in ReleaseDirs(repo) : repo' = RepairRun(repo, k, "after")[k].repo /\ stops
        /\ UNCHANGED <<imports, catalogue>>

\* importFiles: one file, uploaded without auto_install and renamed afterwards.
ImportsFile(c) ==
    /\ repoTask[c].step = "import"
    /\ \E file \in repoTask[c].files :
         LET states == UploadStates(repo, file.jar, file.zip, FALSE)
         IN  \/ /\ repo' = Last(states)
                /\ imports' = IF Len(states) = 1 THEN imports ELSE imports \ {file}
                /\ repoTask' = [repoTask EXCEPT ![c].files = @ \ {file}]
                /\ UNCHANGED <<serving, sound, repoCount>>
             \/ Cut(c, states \o <<Last(states)>>, 0) /\ UNCHANGED imports
    /\ UNCHANGED catalogue

ImportsEnd(c) ==
    /\ repoTask[c].step = "import" /\ repoTask[c].files = {}
    /\ Step(c, "list")
    /\ UNCHANGED <<repo, imports, catalogue, serving, sound, repoCount>>

\* List under the read lock, and syncPluginCatalogAll afterwards with what it returned.
ListsPlugins(c) ==
    /\ repoTask[c].step = "list"
    /\ repoTask' = [repoTask EXCEPT ![c] = [step |-> "sync", files |-> {}, list |-> Listing(repo)]]
    /\ UNCHANGED <<repo, imports, catalogue, serving, sound, repoCount>>

Syncs(c) ==
    /\ repoTask[c].step = "sync"
    /\ catalogue' = repoTask[c].list
    /\ repoTask' = [repoTask EXCEPT ![c] = Quiet]
    /\ serving' = (serving \/ c = FirstScan)
    /\ UNCHANGED <<repo, imports, sound, repoCount>>

PanelStops ==
    /\ Stopped
    /\ Counts(0, 0, 1)
    /\ UNCHANGED <<repo, imports, catalogue>>

\* An administrator replaces a JAR, loses a manifest or puts a file into import/.
ChangesByHand ==
    /\ repoCount.hands < MaxByHand
    /\ repoCount' = [repoCount EXCEPT !.hands = @ + 1]
    /\ \/ /\ \E i \in ReleaseDirs(repo) :
               \/ \E jar \in Jars : repo' = [repo EXCEPT !.dirs[i].jar = jar]
               \/ repo' = [repo EXCEPT !.dirs[i].man = NoManifest]
          /\ sound' = FALSE
          /\ UNCHANGED imports
       \/ /\ \E jar \in Jars, zip \in Zips \cup {NoZip} :
               imports' = imports \cup {[jar |-> jar, zip |-> zip]}
          /\ UNCHANGED <<repo, sound>>
    /\ UNCHANGED <<catalogue, repoTask, serving>>

RepoNext ==
    \/ \E c \in PanelRequests : UploadsPlugin(c) \/ DeletesPlugin(c)
    \/ \E c \in PanelRequests \cup {FirstScan} :
         Repairs(c) \/ ImportsFile(c) \/ ImportsEnd(c) \/ ListsPlugins(c) \/ Syncs(c)
    \/ PanelStops \/ ChangesByHand

RepoSpec == RepoInit /\ [][RepoNext]_repoVars

-----------------------------------------------------------------------------
(* Properties.                                                             *)

\* After a scan that gave no warning, and through whatever uploads, imports, deletions and
\* scans follow it, every release is what its manifest says, the index names one of them as
\* the current one, and the next id is free.
RepositoryIsSound ==
    sound /\ ReleaseDirs(repo) # {} =>
        /\ \A i \in ReleaseDirs(repo) :
             repo.dirs[i].man = [jar |-> repo.dirs[i].jar, zip |-> repo.dirs[i].zip]
        /\ repo.index.there
        /\ repo.index.current \in ReleaseDirs(repo)
        /\ \A i \in ReleaseDirs(repo) : i < repo.index.next

=============================================================================
