----------------------------- MODULE MCDeployment -----------------------------
(* Two tasks; without liveness they are interchangeable.                   *)
(*                                                                         *)
(* Trouble comes once, a failing file operation or a daemon that stops; a  *)
(* second one is a swap whose rollback fails as well, while the daemon     *)
(* does not stop.  The link that breaks is the last slot's, when a task    *)
(* comes to stop or to restore it: nobody looks at it before.  A process   *)
(* does not end by itself while a task waits to stop it.                   *)
EXTENDS Deployment, TLC

CONSTANTS a, b, image

MCTasks == {a, b}
TaskSymmetry == Permutations(MCTasks)

OneTrouble == faults' + crashes' <= 1 \/ (crashes' = 0 /\ rolledBack' # {})

LostInTime ==
    \A i \in adrift' \ adrift :
        i = InstanceCount /\ \E t \in Tasks : cur[t] = i /\ pc[t] \in {"stop", "restore"}

EndedByTask ==
    \A i \in running \ running' : i \in adrift \/ reserved[i] = NoTask \/ pc' # pc

MCSpec == DepInit /\ [][DepNext /\ OneTrouble /\ LostInTime /\ EndedByTask]_depVars
=============================================================================
