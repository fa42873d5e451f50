-------------------------- MODULE MCSessionManager --------------------------
(* Model values and symmetry for the runs of SessionManager.               *)
EXTENDS SessionManager, TLC

CONSTANTS h1, h2, h3, c1, c2, i1

MCHosts2     == {h1, h2}
MCHosts3     == {h1, h2, h3}
MCCallers    == {c1, c2}
MCInstances1 == {i1}

SafetySymmetry == Permutations(MCHosts3) \cup Permutations(MCCallers)
=============================================================================
