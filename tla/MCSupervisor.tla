---------------------------- MODULE MCSupervisor ----------------------------
(* Model values for the runs of Supervisor: one instance (instances only   *)
(* share the reservation), main and one or two API goroutines.             *)
EXTENDS Supervisor, TLC

CONSTANTS h1, h2, h3, k1, k2, k3, main, t1, t2, i1

MCInstances == {i1}
MCHosts2    == {h1, h2}
MCHosts3    == {h1, h2, h3}
MCConns2    == {k1, k2}
MCConns3    == {k1, k2, k3}
MCCallers1  == {main, t1}
MCCallers2  == {main, t1, t2}

KillRestart   == {"kill", "restart"}
RestartOnly   == {"restart"}
EveryJob      == AllJobs
NoInstances   == {}

Identities == Permutations(MCHosts3) \cup Permutations(MCConns3)
              \cup Permutations({t1, t2})

\* Bounds of a step, for runs of safety.  The third connection is made by a caller
\* that is alone (SupervisorSafety); nothing goes down after a loss, nor before
\* one, save the daemon before a list of sessions that fails (SupervisorCrash).
ThirdAlone ==
    Cardinality({k \in Conns : connHost'[k] # NoHost}) > 2 =>
        Cardinality({t \in Callers : pc'[t] # "idle"}) <= 1
LossAlone ==
    /\ losses > 0 => UNCHANGED <<crashes, svcCrashes>>
    /\ losses' > losses => svcCrashes = 0 /\ (crashes = 0 \/ pc[Main] = "recoverList")
=============================================================================
