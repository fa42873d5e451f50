------------------------------ MODULE FileSync -------------------------------
(***************************************************************************)
(* A task that copies files of one instance to others (panel               *)
(* api/file_sync.go): an item for each target and file.  Every start and    *)
(* every retry is a goroutine of its own that walks over the items; a       *)
(* retry may begin while a cancelled walk is still going.                   *)
(*                                                                         *)
(* The task lives in the panel's memory: there is no recovery.             *)
(***************************************************************************)
EXTENDS Naturals, Sequences, FiniteSets

CONSTANTS SyncItems, MaxRetries \* the number of items; bound

VARIABLES
    syncTask, \* snap.Status, whether the items have been made, whether a directory is listed
    item,     \* the status of each item
    walks,    \* the goroutines: where each is, its items, whether it was cancelled
    arrived,  \* the items whose target has the file
    early     \* whether a cancel came before the walk it was for had begun

fsyVars == <<syncTask, item, walks, arrived, early>>

AllItems == 1 .. SyncItems
Final    == {"completed", "completed_with_errors", "failed", "cancelled"}

\* A walk is at an item, or before the first or behind the last one.
Walk(only) == [at |-> "begin", n |-> 1, only |-> only, cancelled |-> FALSE]

FsyInit ==
    /\ syncTask = [status |-> "none", listed |-> FALSE, directory |-> FALSE]
    /\ item = [i \in AllItems |-> "queued"]
    /\ walks = <<>>
    /\ arrived = {}
    /\ early = FALSE

WalkGoes(w, at) == [walks EXCEPT ![w].at = at]

Cur(w) == walks[w].n

-----------------------------------------------------------------------------
(* handleFileSyncs, and of handleFileSync cancel and retry.                *)

CreatesTask ==
    /\ syncTask.status = "none"
    /\ \E directory \in BOOLEAN :
         syncTask' = [status |-> "queued", listed |-> FALSE, directory |-> directory]
    /\ walks' = <<Walk(AllItems)>>
    /\ UNCHANGED <<item, arrived, early>>

NewestWalk == Len(walks)

\* It cancels the context of the newest walk.
CancelsTask ==
    /\ syncTask.status \notin Final \cup {"none"}
    /\ syncTask' = [syncTask EXCEPT !.status = "cancel_requested"]
    /\ walks' = [walks EXCEPT ![NewestWalk].cancelled = TRUE]
    /\ early' = (early \/ walks[NewestWalk].at = "begin")
    /\ UNCHANGED <<item, arrived>>

FailedItems == {i \in AllItems : syncTask.listed /\ item[i] = "failed"}

\* Refused while the task runs, not while its cancelled walk is still going.
Retries ==
    /\ syncTask.status \notin {"running", "queued"}
    /\ FailedItems # {}
    /\ Len(walks) <= MaxRetries
    /\ syncTask' = [syncTask EXCEPT !.status = "queued"]
    /\ item' = [i \in AllItems |-> IF i \in FailedItems THEN "queued" ELSE item[i]]
    /\ walks' = Append(walks, Walk(FailedItems))
    /\ UNCHANGED <<arrived, early>>

-----------------------------------------------------------------------------
(* runFileSync.                                                            *)

WalkBegins(w) ==
    /\ walks[w].at = "begin"
    /\ syncTask' = [syncTask EXCEPT !.status = "running"]
    /\ walks' = WalkGoes(w, "list")
    /\ UNCHANGED <<item, arrived, early>>

\* The source is listed; the first walk makes the items.
ListsSource(w) ==
    /\ walks[w].at = "list"
    /\ walks[w].cancelled => ~syncTask.directory
    /\ syncTask' = [syncTask EXCEPT !.listed = TRUE]
    /\ walks' = WalkGoes(w, "next")
    /\ UNCHANGED <<item, arrived, early>>

\* The listing fails: the items keep their status, so those of a retry stay queued.
ListingFails(w) ==
    /\ walks[w].at = "list"
    /\ syncTask.directory
    /\ syncTask' = [syncTask EXCEPT !.status = "failed"]
    /\ walks' = WalkGoes(w, "end")
    /\ UNCHANGED <<item, arrived, early>>

Skips(w) ==
    /\ walks[w].at = "next"
    /\ walks[w].n <= SyncItems
    /\ Cur(w) \notin walks[w].only
    /\ walks' = [walks EXCEPT ![w].n = @ + 1]
    /\ UNCHANGED <<syncTask, item, arrived, early>>

ItemBegins(w) ==
    /\ walks[w].at = "next"
    /\ walks[w].n <= SyncItems
    /\ Cur(w) \in walks[w].only
    /\ ~walks[w].cancelled
    /\ item' = [item EXCEPT ![Cur(w)] = "running"]
    /\ walks' = WalkGoes(w, "download")
    /\ UNCHANGED <<syncTask, arrived, early>>

\* transferSyncEntry: the file is read into a temporary file ...
Downloads(w) ==
    /\ walks[w].at = "download"
    /\ ~walks[w].cancelled
    /\ walks' = WalkGoes(w, "upload")
    /\ UNCHANGED <<syncTask, item, arrived, early>>

\* ... and written to the target, which checks its sum.
UploadsItem(w) ==
    /\ walks[w].at = "upload"
    /\ arrived' = arrived \cup {Cur(w)}
    /\ walks' = WalkGoes(w, "uploaded")
    /\ UNCHANGED <<syncTask, item, early>>

\* Mutant: an item is done when its file has been read.
ItemEndsEarly(w) ==
    /\ walks[w].at \in {"upload", "uploaded"}
    /\ item' = [item EXCEPT ![Cur(w)] = "completed"]
    /\ walks' = [walks EXCEPT ![w].at = "next", ![w].n = @ + 1]
    /\ UNCHANGED <<syncTask, arrived, early>>

ItemEnds(w) ==
    /\ walks[w].at = "uploaded"
    /\ item' = [item EXCEPT ![Cur(w)] = "completed"]
    /\ walks' = [walks EXCEPT ![w].at = "next", ![w].n = @ + 1]
    /\ UNCHANGED <<syncTask, arrived, early>>

\* Any step of the transfer may fail, also after the target has the file.
ItemFails(w) ==
    /\ walks[w].at \in {"download", "upload", "uploaded"}
    /\ item' = [item EXCEPT ![Cur(w)] = "failed"]
    /\ walks' = [walks EXCEPT ![w].at = "next", ![w].n = @ + 1]
    /\ UNCHANGED <<syncTask, arrived, early>>

\* Mutant: the walk ends and leaves the status to the caller.
LeavesStatus(w) ==
    /\ walks[w].at = "next"
    /\ walks[w].n <= SyncItems
    /\ Cur(w) \in walks[w].only
    /\ walks[w].cancelled
    /\ walks' = WalkGoes(w, "end")
    /\ UNCHANGED <<syncTask, item, arrived, early>>

\* finishCancelled, before the next item.
FinishCancelled(w) ==
    /\ walks[w].at = "next"
    /\ walks[w].n <= SyncItems
    /\ Cur(w) \in walks[w].only
    /\ walks[w].cancelled
    /\ syncTask' = [syncTask EXCEPT !.status = IF @ = "cancel_requested" THEN "cancelled" ELSE @]
    /\ walks' = WalkGoes(w, "end")
    /\ UNCHANGED <<item, arrived, early>>

\* After the last item.
WalkEnds(w) ==
    /\ walks[w].at = "next"
    /\ walks[w].n > SyncItems
    /\ syncTask' = [syncTask EXCEPT !.status =
                  IF @ = "cancel_requested" \/ walks[w].cancelled THEN "cancelled"
                  ELSE IF FailedItems # {} THEN "completed_with_errors" ELSE "completed"]
    /\ walks' = WalkGoes(w, "end")
    /\ UNCHANGED <<item, arrived, early>>

FsyStep ==
    \E w \in DOMAIN walks :
        \/ WalkBegins(w)
        \/ ListsSource(w)
        \/ ListingFails(w)
        \/ Skips(w)
        \/ ItemBegins(w)
        \/ Downloads(w)
        \/ UploadsItem(w)
        \/ ItemEnds(w)
        \/ ItemFails(w)
        \/ FinishCancelled(w)
        \/ WalkEnds(w)

FsyNext ==
    \/ FsyStep
    \/ CreatesTask
    \/ CancelsTask
    \/ Retries

FsySpec == FsyInit /\ [][FsyNext]_fsyVars /\ WF_fsyVars(FsyStep)

-----------------------------------------------------------------------------
(* An item that is shown as completed has reached its target, also when a    *)
(* cancelled walk and the one of a retry are going at the same time.         *)
CompletedItemsArrived ==
    \A i \in AllItems : syncTask.listed /\ item[i] = "completed" => i \in arrived

(* A task ends, and a cancelled one is not shown as running for ever; the    *)
(* exception is a cancel that comes before its walk has begun, whose status  *)
(* the walk overwrites.                                                      *)
FileSyncEnds == <>[](syncTask.status \in Final \cup {"none"} \/ early)
=============================================================================
