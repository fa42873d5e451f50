------------------------------ MODULE RemoteCall ------------------------------
(***************************************************************************)
(* What Client.Call (panel/internal/daemon/client.go) promises its callers *)
(* about one command sent to a daemon: the command takes effect at most    *)
(* once, an answer comes from the daemon that executed it, and a call that *)
(* failed says nothing: the command may have been executed, and may even   *)
(* be executed after the caller was told that it failed.                   *)
(***************************************************************************)
EXTENDS Naturals

CONSTANT Calls

VARIABLES
    outcome, \* what the caller of a call knows
    effects  \* how often the daemon executed its command

remoteVars == <<outcome, effects>>

RemoteInit ==
    /\ outcome = [k \in Calls |-> "none"]
    /\ effects = [k \in Calls |-> 0]

Issue(k) ==
    /\ outcome[k] = "none"
    /\ outcome' = [outcome EXCEPT ![k] = "open"]
    /\ UNCHANGED effects

TakeEffect(k) ==
    /\ outcome[k] # "none"
    /\ effects[k] = 0
    /\ effects' = [effects EXCEPT ![k] = 1]
    /\ UNCHANGED outcome

Answer(k) ==
    /\ outcome[k] = "open"
    /\ effects[k] = 1
    /\ outcome' = [outcome EXCEPT ![k] = "answer"]
    /\ UNCHANGED effects

Fail(k) ==
    /\ outcome[k] = "open"
    /\ outcome' = [outcome EXCEPT ![k] = "error"]
    /\ UNCHANGED effects

RemoteNext ==
    \E k \in Calls : Issue(k) \/ TakeEffect(k) \/ Answer(k) \/ Fail(k)

RemoteSpec == RemoteInit /\ [][RemoteNext]_remoteVars
=============================================================================
