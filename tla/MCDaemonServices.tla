--------------------------- MODULE MCDaemonServices ---------------------------
(* Four services of a node that share no variable: the operators of a server *)
(* with the plugin's connection, files, plugin files, and the console.  A    *)
(* behaviour chooses the part that moves, as in MCLiveness, and, for the     *)
(* operators, the trouble it may have: requests that expire, or everything   *)
(* MaxTrouble counts.                                                        *)
EXTENDS OperatorSync, FileService, PluginFiles, Console

CONSTANTS p1, h1, w1, w2, a, b, c1, c2, u, t1

VARIABLE moves

opsVars == <<osVars, plVars>>
allVars == <<osVars, plVars, fsVars, pfVars, conVars, moves>>

MCInit ==
    /\ moves \in {"operators", "files", "plugins", "console"}
    /\ OsInit /\ FsInit /\ PfInit /\ ConInit
    /\ IF moves = "operators" THEN (expired = 0) # (osCount.all = 0)
                              ELSE expired = 0 /\ osCount.all = 0
    /\ upload.at # "none" <=> moves = "files"
    /\ \A t \in Terminals : term[t].page <=> moves = "console"

\* Bound of a step that is not fair: trouble comes once to the plugin files, a crash or
\* a failure, and the failure of a rollback on top.
OneTrouble ==
    \/ pfCount'.faults + pfCount'.deaths <= 1
    \/ pfCount'.deaths = 0 /\ pfCount.faults \in {0, 2}

\* Bound of a step that is not fair: three requests and two starts, or two and three,
\* one more start after trouble, and with a third request no trouble but in a start.
FewRequests ==
    LET trouble == pfCount'.faults + pfCount'.deaths
    IN  /\ pfCount'.requests + pfCount'.starts <= (IF trouble = 0 THEN 5 ELSE 6)
        /\ \/ pfCount'.requests <= 2 \/ pfCount' = pfCount \/ trouble = 0
           \/ /\ pfCount'.requests = pfCount.requests
              /\ job.kind = "start" \/ pfCount'.starts > pfCount.starts

\* Bound of a step that is not fair: of three mishaps all are losses, cleanups and
\* crashes, or all are operations, writes of the server and failures of the disk.
FewMishaps ==
    \/ FoldFunction(+, 0, fsCount') < MaxMishaps
    \/ fsCount'.lost + fsCount'.expired + fsCount'.crashes \in {0, MaxMishaps}

\* Bound of a step that is not fair: a connection is lost or the daemon restarted, once.
OneLoss == dconsole'.boot + conDrops' <= 1

MCNext ==
    \/ /\ moves = "operators" /\ OsNext
       /\ UNCHANGED <<fsVars, pfVars, conVars, moves>>
    \/ /\ moves = "files" /\ FsNext /\ FewMishaps
       /\ UNCHANGED <<osVars, plVars, pfVars, conVars, moves>>
    \/ /\ moves = "plugins" /\ PfNext /\ OneTrouble /\ FewRequests
       /\ UNCHANGED <<osVars, plVars, fsVars, conVars, moves>>
    \/ /\ moves = "console" /\ ConNext /\ OneLoss
       /\ UNCHANGED <<osVars, plVars, fsVars, pfVars, moves>>

\* Each part goes on with what it has begun; nobody has to ask for anything.
MCFairness ==
    /\ WF_opsVars(moves = "operators" /\ OsStep)
    /\ WF_fsVars(moves = "files" /\ FsSteps)
    /\ WF_pfVars(moves = "plugins" /\ PfStep)
    /\ WF_conVars(moves = "console" /\ ConSteps)

MCSpec == MCInit /\ [][MCNext]_allVars /\ MCFairness
=============================================================================
