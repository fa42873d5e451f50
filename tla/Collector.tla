------------------------------- MODULE Collector ------------------------------
(***************************************************************************)
(* The collector of network games (panel/internal/netgames): the account    *)
(* it signs in with, kept in a sealed file and in memory; the collection    *)
(* runs, of which one works at a time; and the details of the games, which  *)
(* are fetched afterwards, one game after the other, by one worker at a     *)
(* time.  Whoever finds a worker busy gives up and does not come back.      *)
(*                                                                         *)
(* The remote service answers or fails as it likes; the request a manual    *)
(* collection belongs to may end; the panel may stop anywhere.              *)
(***************************************************************************)
EXTENDS Naturals, Sequences, FiniteSets

CONSTANTS
    Games, NetAccounts, NoAccountSaved,
    Batch,                          \* games of one batch of details
    MaxRuns, MaxAccountSaves, MaxRemoteFaults, MaxPanelStops   \* bounds

VARIABLES
    savedAs,   \* the account in the file, and the one in memory
    saving,    \* a SaveAccount or DeleteAccount between its steps
    runs,      \* the status of each row of net_game_collection_runs
    detail,    \* details_status of each game that has a row
    collecting, \* the one collection at work
    delayed,   \* refreshes of details that wait their ten seconds
    refresh,   \* the one refresh at work
    ngCount    \* what the bounds count

ngVars == <<savedAs, saving, runs, detail, collecting, delayed, refresh, ngCount>>

NoCollection == [at |-> "idle", run |-> 0, account |-> NoAccountSaved, all |-> FALSE,
                 mine |-> FALSE, games |-> {}]
NoRefresh == [at |-> "idle", all |-> FALSE, todo |-> {}, done |-> 0, took |-> 0]
NotSaving == [at |-> "idle", account |-> NoAccountSaved]

NgInit ==
    /\ \E a \in NetAccounts \cup {NoAccountSaved} : savedAs = [file |-> a, memory |-> a]
    /\ saving = NotSaving
    /\ runs = <<>>
    /\ detail = [g \in Games |-> "none"]
    /\ collecting = NoCollection
    /\ delayed = {}
    /\ refresh = NoRefresh
    /\ ngCount = [saves |-> 0, faults |-> 0, stops |-> 0]

NgCounts(what, max) == ngCount[what] < max /\ ngCount' = [ngCount EXCEPT ![what] = @ + 1]

\* The remote service, the database or the disk fails.
RemoteFails == NgCounts("faults", MaxRemoteFaults)

NeedingDetails == {g \in Games : detail[g] \in {"pending", "failed"}}

Least(a, b) == IF a <= b THEN a ELSE b

-----------------------------------------------------------------------------
(* The account: signed in with first, then the file, then memory.           *)

AsksSave(a) ==
    /\ saving.at = "idle"
    /\ NgCounts("saves", MaxAccountSaves)
    /\ saving' = [at |-> "file", account |-> a]
    /\ UNCHANGED <<savedAs, runs, detail, collecting, delayed, refresh>>

SavesFile ==
    /\ saving.at = "file"
    /\ savedAs' = [savedAs EXCEPT !.file = saving.account]
    /\ saving' = [saving EXCEPT !.at = "memory"]
    /\ UNCHANGED <<runs, detail, collecting, delayed, refresh, ngCount>>

\* What was saved is collected with at once, unless a collection is at work.
SavesMemory ==
    /\ saving.at = "memory"
    /\ savedAs' = [savedAs EXCEPT !.memory = saving.account]
    /\ saving' = NotSaving
    /\ \/ /\ saving.account # NoAccountSaved
          /\ collecting = NoCollection
          /\ collecting' = [NoCollection EXCEPT !.at = "account", !.all = TRUE]
       \/ /\ saving.account = NoAccountSaved \/ collecting # NoCollection
          /\ UNCHANGED collecting
    /\ UNCHANGED <<runs, detail, delayed, refresh, ngCount>>

-----------------------------------------------------------------------------
(* A collection.                                                           *)

\* By the interval, or by a request that may end before it does.
CollectionBegins ==
    /\ collecting = NoCollection
    /\ Len(runs) < MaxRuns
    /\ \E requested \in BOOLEAN :
         collecting' = [NoCollection EXCEPT !.at = "account", !.mine = requested]
    /\ UNCHANGED <<savedAs, saving, runs, detail, delayed, refresh, ngCount>>

ReadsAccount ==
    /\ collecting.at = "account"
    /\ IF Len(runs) = MaxRuns
       THEN collecting' = NoCollection /\ UNCHANGED runs
       ELSE IF savedAs.memory = NoAccountSaved
       THEN /\ runs' = Append(runs, "failed")
            /\ collecting' = NoCollection
       ELSE /\ runs' = Append(runs, "running")
            /\ collecting' = [collecting EXCEPT !.at = "login", !.run = Len(runs) + 1,
                                                !.account = savedAs.memory]
    /\ UNCHANGED <<savedAs, saving, detail, delayed, refresh, ngCount>>

\* The device it signed in with is saved with the account it had read; no one looks
\* whether that is still the account.
SignsInRemote ==
    /\ collecting.at = "login"
    /\ savedAs' = [file |-> collecting.account, memory |-> collecting.account]
    /\ collecting' = [collecting EXCEPT !.at = "fetch"]
    /\ UNCHANGED <<saving, runs, detail, delayed, refresh, ngCount>>

\* Page after page; a failing page ends the collection.
FetchesGames(S) ==
    /\ collecting.at = "fetch"
    /\ collecting' = [collecting EXCEPT !.at = "complete", !.games = S]
    /\ UNCHANGED <<savedAs, saving, runs, detail, delayed, refresh, ngCount>>

\* The row is failed; it stays running when the request, and with it the context of the
\* statement, has ended.
CollectionFails ==
    /\ collecting.at \in {"login", "fetch"}
    /\ RemoteFails
    /\ runs' \in {[runs EXCEPT ![collecting.run] = "failed"]} \cup
                  (IF collecting.mine THEN {runs} ELSE {})
    /\ collecting' = NoCollection
    /\ UNCHANGED <<savedAs, saving, detail, delayed, refresh>>

Seen(S) == [g \in Games |-> IF g \in S /\ detail[g] = "none" THEN "pending" ELSE detail[g]]

\* CompleteNetGameCollectionRun: games, observations and status in one transaction.
DetailCompletes ==
    /\ collecting.at = "complete"
    /\ runs' = [runs EXCEPT ![collecting.run] = "success"]
    /\ detail' = Seen(collecting.games)
    /\ delayed' = delayed \cup {IF collecting.all THEN "all" ELSE "batch"}
    /\ collecting' = NoCollection
    /\ UNCHANGED <<savedAs, saving, refresh, ngCount>>

\* The transaction fails, as it does when a game was listed on two pages: the row of the
\* run is not failed.
CompletionFails ==
    /\ collecting.at = "complete"
    /\ RemoteFails
    /\ collecting' = NoCollection
    /\ UNCHANGED <<savedAs, saving, runs, detail, delayed, refresh>>

-----------------------------------------------------------------------------
(* Details.                                                                *)

\* detailLoop; it signs in anew.
DetailTick ==
    /\ "tick" \notin delayed
    /\ delayed' = delayed \cup {"tick"}
    /\ UNCHANGED <<savedAs, saving, runs, detail, collecting, refresh, ngCount>>

\* Mutant: what failed is tried again before what was never tried.
FailedFirst(S) ==
    \A g \in S, h \in NeedingDetails \ S : detail[h] = "failed" => detail[g] = "failed"

\* What was never tried comes before what failed.
PendingFirst(S) ==
    \A g \in S, h \in NeedingDetails \ S : detail[h] = "pending" => detail[g] = "pending"

PicksBatch(all) ==
    \E S \in SUBSET NeedingDetails :
       /\ Cardinality(S) = Least(Batch, Cardinality(NeedingDetails))
       /\ PendingFirst(S)
       /\ refresh' = [at |-> "work", all |-> all, todo |-> S, done |-> 0, took |-> Cardinality(S)]

\* A refresh that finds another at work, or has no account to sign in with, is dropped.
RefreshBegins(kind) ==
    /\ kind \in delayed
    /\ delayed' = delayed \ {kind}
    /\ IF refresh # NoRefresh \/ (kind = "tick" /\ savedAs.memory = NoAccountSaved)
       THEN UNCHANGED refresh
       ELSE PicksBatch(kind = "all")
    /\ UNCHANGED <<savedAs, saving, runs, detail, collecting, ngCount>>

FetchesDetails(g) ==
    /\ g \in refresh.todo
    /\ \/ /\ detail' = [detail EXCEPT ![g] = "ok"]
          /\ refresh' = [refresh EXCEPT !.todo = @ \ {g}, !.done = @ + 1]
       \/ /\ detail' = [detail EXCEPT ![g] = "failed"]
          /\ refresh' = [refresh EXCEPT !.todo = @ \ {g}]
    /\ UNCHANGED <<savedAs, saving, runs, collecting, delayed, ngCount>>

\* The details cannot be written: the batch ends, and with it the loop over batches.
RefreshFails ==
    /\ refresh.at = "work"
    /\ RemoteFails
    /\ refresh' = NoRefresh
    /\ UNCHANGED <<savedAs, saving, runs, detail, collecting, delayed>>

\* refreshAllDetailsWithClient takes the next batch unless the last was not full, or
\* brought nothing.
BatchEnds ==
    /\ refresh.at = "work"
    /\ refresh.todo = {}
    /\ IF refresh.all /\ refresh.took = Batch /\ refresh.done > 0
       THEN PicksBatch(TRUE)
       ELSE refresh' = NoRefresh
    /\ UNCHANGED <<savedAs, saving, runs, detail, collecting, delayed, ngCount>>

\* RefreshDetails: a single game, beside whatever is at work; a failure keeps a row that
\* is not there from appearing.
RefreshesOne(g) ==
    /\ savedAs.memory # NoAccountSaved
    /\ NgCounts("saves", MaxAccountSaves)
    /\ detail' \in {[detail EXCEPT ![g] = "ok"],
                    [detail EXCEPT ![g] = IF @ = "none" THEN @ ELSE "failed"]}
    /\ UNCHANGED <<savedAs, saving, runs, collecting, delayed, refresh>>

-----------------------------------------------------------------------------
\* The panel stops; started again it fails the runs left running and collects at once.
PanelStartsAgain ==
    /\ NgCounts("stops", MaxPanelStops)
    /\ savedAs' = [savedAs EXCEPT !.memory = savedAs.file]
    /\ saving' = NotSaving
    /\ runs' = [i \in DOMAIN runs |-> IF runs[i] = "running" THEN "failed" ELSE runs[i]]
    /\ collecting' = IF savedAs.file = NoAccountSaved \/ Len(runs) = MaxRuns THEN NoCollection
                     ELSE [NoCollection EXCEPT !.at = "account", !.all = TRUE]
    /\ delayed' = {}
    /\ refresh' = NoRefresh
    /\ UNCHANGED detail

AccountSteps == SavesFile \/ SavesMemory
CollectionSteps ==
    ReadsAccount \/ SignsInRemote \/ DetailCompletes \/ \E S \in SUBSET Games : FetchesGames(S)
RefreshSteps == BatchEnds \/ \E g \in Games : FetchesDetails(g)
Delays == {"tick", "batch", "all"}

NgStep ==
    \/ AccountSteps \/ CollectionSteps \/ RefreshSteps \/ DetailTick
    \/ \E kind \in Delays : RefreshBegins(kind)

NgEvent ==
    \/ \E a \in NetAccounts \cup {NoAccountSaved} : AsksSave(a)
    \/ CollectionBegins \/ CollectionFails \/ CompletionFails
    \/ RefreshFails \/ PanelStartsAgain
    \/ \E g \in Games : RefreshesOne(g)

NgNext == NgStep \/ NgEvent

\* Each goroutine runs, and the ticker of the details goes on for as long as the panel does.
NgSpec ==
    /\ NgInit /\ [][NgNext]_ngVars
    /\ WF_ngVars(CollectionSteps) /\ WF_ngVars(RefreshSteps) /\ WF_ngVars(DetailTick)
    /\ \A kind \in Delays : WF_ngVars(RefreshBegins(kind))

-----------------------------------------------------------------------------
(* Properties.                                                             *)

\* However many games keep failing, every listed game is tried in the end, as long as
\* there is an account (store/net_games.go:212-234, netgames/service.go:492-503).
EveryGameIsTried ==
    \A g \in Games : []<>(detail[g] # "pending" \/ savedAs.memory = NoAccountSaved)
=============================================================================
