------------------------------ MODULE Lifecycle ------------------------------
(***************************************************************************)
(* What the instance supervisor promises of an instance to the operations, *)
(* the deployments and the panel that look at it: one operation at a time  *)
(* changes it, a process gets a second consumer never, what is shown says  *)
(* whether a process is attached, and only the end of the process, a       *)
(* recovery and a shutdown change anything outside an operation.           *)
(* Connections, goroutines and prism-sessiond are not seen from here.      *)
(***************************************************************************)
CONSTANTS Instances, Workers, Free

VARIABLES
    phase,   \* of the daemon: "down", "recovers", "serves" or "closes"
    holder,  \* who works on an instance, or Free
    shown,   \* the state of an instance
    link     \* to its process: "none", "open", or "ended" and not yet noted

lifeVars == <<phase, holder, shown, link>>

LifeInit ==
    /\ phase = "down"
    /\ holder = [i \in Instances |-> Free]
    /\ shown = [i \in Instances |-> "stopped"]
    /\ link = [i \in Instances |-> "none"]

Held(i)     == holder[i] # Free
Closed(i)   == link[i] # "open"
Shows(i, s) == shown' = [shown EXCEPT ![i] = s]
Links(i, l) == link' = [link EXCEPT ![i] = l]
Frees(i)    == holder' = [holder EXCEPT ![i] = Free]

\* Where a start is: what it shows itself, or what the end of the last process left.
Startable == {"starting", "stopped", "failed"}
Applied   == {"deploying", "stopped", "failed"}
Passing   == {"starting", "deploying"}

\* An operation begins and ends.  Nobody leaves an instance behind that is starting or
\* deploying.
Take(i, t) ==
    /\ phase \in {"serves", "closes"}
    /\ holder[i] = Free
    /\ \A k \in Instances : holder[k] # t
    /\ holder' = [holder EXCEPT ![i] = t]
    /\ UNCHANGED <<phase, shown, link>>

Release(i) ==
    /\ Held(i)
    /\ shown[i] \notin Passing
    /\ Frees(i)
    /\ UNCHANGED <<phase, shown, link>>

\* A start: only of what has no open process.
Begin(i) ==
    /\ Held(i)
    /\ Closed(i)
    /\ shown[i] \in {"stopped", "failed"}
    /\ Shows(i, "starting")
    /\ UNCHANGED <<phase, holder, link>>

Run(i) ==
    /\ Held(i)
    /\ Closed(i)
    /\ shown[i] \in Startable
    /\ Shows(i, "running")
    /\ Links(i, "open")
    /\ Frees(i)
    /\ UNCHANGED phase

Fail(i) ==
    /\ Held(i)
    /\ Closed(i)
    /\ shown[i] \in Startable
    /\ Shows(i, "failed")
    /\ Frees(i)
    /\ UNCHANGED <<phase, link>>

\* A stop: of what has a process, or of what has none to stop.
Stop(i) ==
    /\ Held(i)
    /\ link[i] # "none"
    /\ shown[i] \notin Passing
    /\ Shows(i, "stopping")
    /\ UNCHANGED <<phase, holder, link>>

FindNothing(i) ==
    /\ Held(i)
    /\ link[i] = "none"
    /\ shown[i] \notin Passing
    /\ Shows(i, "stopped")
    /\ Frees(i) \/ UNCHANGED holder
    /\ UNCHANGED <<phase, link>>

\* The files of an instance are replaced: only without an open process.
Deploy(i) ==
    /\ Held(i)
    /\ Closed(i)
    /\ shown[i] \notin Passing
    /\ Shows(i, "deploying")
    /\ UNCHANGED <<phase, holder, link>>

Deployed(i) ==
    /\ Held(i)
    /\ Closed(i)
    /\ shown[i] \in Applied
    /\ Shows(i, "stopped") \/ Shows(i, "failed")
    /\ Frees(i) \/ UNCHANGED holder
    /\ UNCHANGED <<phase, link>>

\* Without an operation: the process ends, the end is noted, which takes no stop back.
End(i) ==
    /\ link[i] = "open"
    /\ Links(i, "ended")
    /\ UNCHANGED <<phase, holder, shown>>

Note(i) ==
    /\ link[i] = "ended"
    /\ Links(i, "none")
    /\ \E s \in {"stopped", "failed"} : (shown[i] = "stopping" => s = "stopped") /\ Shows(i, s)
    /\ UNCHANGED <<phase, holder>>

\* The daemon comes up, takes over what still runs, serves, lets go and goes down.
Boot ==
    /\ phase = "down"
    /\ phase' = "recovers"
    /\ UNCHANGED <<holder, shown, link>>

Recover(i) ==
    /\ phase = "recovers"
    /\ ~Held(i)
    /\ link[i] = "none"
    /\ shown[i] \in {"stopped", "failed"}
    /\ Shows(i, "running")
    /\ Links(i, "open")
    /\ UNCHANGED <<phase, holder>>

Serve ==
    /\ phase = "recovers"
    /\ phase' = "serves"
    /\ UNCHANGED <<holder, shown, link>>

Close ==
    /\ phase = "serves"
    /\ phase' = "closes"
    /\ UNCHANGED <<holder, shown, link>>

LetGo(i) ==
    /\ phase = "closes"
    /\ link[i] # "none"
    /\ Links(i, "none")
    /\ UNCHANGED <<phase, holder, shown>>

Exit ==
    /\ phase # "down"
    /\ LifeInit'

LifeNext ==
    \/ \E i \in Instances, t \in Workers : Take(i, t)
    \/ \E i \in Instances :
        \/ Release(i) \/ Begin(i) \/ Run(i) \/ Fail(i) \/ Stop(i) \/ FindNothing(i)
        \/ Deploy(i) \/ Deployed(i) \/ End(i) \/ Note(i) \/ Recover(i) \/ LetGo(i)
    \/ Boot \/ Serve \/ Close \/ Exit

LifeSpec == LifeInit /\ [][LifeNext]_lifeVars
=============================================================================
