--------------------------- MODULE FileOperations ----------------------------
(***************************************************************************)
(* A change of files that a user asks for, from the browser to the audit    *)
(* log.  The panel notes the operation as pending (store/file_operations),  *)
(* has the daemon issue a ticket and gives it, or a proxy grant that stands *)
(* for it, to the browser; the browser uses it once with the daemon; the    *)
(* daemon tells every connected panel how it ended, and the panel closes    *)
(* the operation and writes the audit.  A job closes what is overdue.       *)
(*                                                                         *)
(* The answer may be late, lost, or meet the job; the browser may leave;    *)
(* panel and daemon may stop between any two steps.                         *)
(***************************************************************************)
EXTENDS Naturals, Sequences

CONSTANTS FileOps, MaxStops, MaxDbFaults  \* operations; bounds

VARIABLES
    opRow,     \* the row of file_operations: its status, and whether it is overdue
    audits,    \* what the audit log says of the operation: succeeded or not
    browser,   \* how far the browser's request got
    granted,   \* the ticket of the daemon, and the grant of the panel's proxy
    daemonWork,      \* what the daemon does for it
    message,      \* the daemon's message that is under way
    noted,     \* closed operations whose audit is still to be written, by whom
    foLink,    \* whether panel and daemon are connected
    foCount    \* what the bounds count

foVars == <<opRow, audits, browser, granted, daemonWork, message, noted, foLink, foCount>>

FoInit ==
    /\ opRow = [o \in FileOps |-> [status |-> "none", overdue |-> FALSE]]
    /\ audits = [o \in FileOps |-> <<>>]
    /\ browser = [o \in FileOps |-> "idle"]
    /\ granted = [o \in FileOps |-> [ticket |-> FALSE, proxy |-> FALSE]]
    /\ daemonWork = [o \in FileOps |-> "none"]
    /\ message = [o \in FileOps |-> "none"]
    /\ noted = {}
    /\ foLink = TRUE
    /\ foCount = [stops |-> 0, faults |-> 0, lost |-> {}]

FoCounts(what, max) == foCount[what] < max /\ foCount' = [foCount EXCEPT ![what] = @ + 1]

Status(o, s) == [opRow EXCEPT ![o].status = s]

Audited(o, success) == [audits EXCEPT ![o] = Append(@, success)]

Lost(ops) == [foCount EXCEPT !.lost = @ \cup ops]

\* An audit that cannot be written is logged, and nobody writes it again.
WritesAudit(o, success) ==
    \/ audits' = Audited(o, success) /\ UNCHANGED foCount
    \/ /\ foCount.faults < MaxDbFaults
       /\ foCount' = [Lost({o}) EXCEPT !.faults = @ + 1]
       /\ UNCHANGED audits

-----------------------------------------------------------------------------
(* handleFileAuthorize.                                                    *)

AuthorizesFile(o) ==
    /\ browser[o] = "idle"
    /\ opRow' = Status(o, "pending")
    /\ browser' = [browser EXCEPT ![o] = "asking"]
    /\ UNCHANGED <<audits, granted, daemonWork, message, noted, foLink, foCount>>

\* ticket.create; the answer may not come in time, and the ticket then serves nobody.
IssuesTicket(o) ==
    /\ browser[o] = "asking"
    /\ foLink
    /\ ~granted[o].ticket
    /\ granted' = [granted EXCEPT ![o].ticket = TRUE]
    /\ UNCHANGED <<opRow, audits, browser, daemonWork, message, noted, foLink, foCount>>

\* The browser gets the ticket itself, or a grant for the proxy.
GivesGrant(o) ==
    /\ browser[o] = "asking"
    /\ granted[o].ticket
    /\ browser' = [browser EXCEPT ![o] = "granted"]
    /\ \E direct \in BOOLEAN : granted' = [granted EXCEPT ![o].proxy = ~direct]
    /\ UNCHANGED <<opRow, audits, daemonWork, message, noted, foLink, foCount>>

\* A refusal closes the operation; not so when the browser has left, for the statement
\* runs in the request's context.
RefusesGrant(o) ==
    /\ browser[o] = "asking"
    /\ \E left \in BOOLEAN :
         /\ opRow' = IF left \/ opRow[o].status # "pending" THEN opRow ELSE Status(o, "failed")
         /\ WritesAudit(o, FALSE)
    /\ browser' = [browser EXCEPT ![o] = "left"]
    /\ UNCHANGED <<granted, daemonWork, message, noted, foLink>>

-----------------------------------------------------------------------------
(* The browser uses its grant: handleFileProxy or the daemon's own address, *)
(* and the daemon's handler, which consumes the ticket.                     *)

UsesGrant(o) ==
    /\ browser[o] = "granted"
    /\ browser' = [browser EXCEPT ![o] = "sent"]
    /\ granted' = [granted EXCEPT ![o].proxy = FALSE]
    /\ UNCHANGED <<opRow, audits, daemonWork, message, noted, foLink, foCount>>

WorkBegins(o) ==
    /\ browser[o] = "sent"
    /\ granted[o].ticket
    /\ daemonWork[o] = "none"
    /\ granted' = [granted EXCEPT ![o].ticket = FALSE]
    /\ daemonWork' = [daemonWork EXCEPT ![o] = "doing"]
    /\ UNCHANGED <<opRow, audits, browser, message, noted, foLink, foCount>>

\* publishFileResult: a broadcast to the panels that are connected at the moment.
WorkEnds(o) ==
    /\ daemonWork[o] = "doing"
    /\ \E end \in {"done", "failed"} :
         /\ daemonWork' = [daemonWork EXCEPT ![o] = end]
         /\ message' = IF foLink THEN [message EXCEPT ![o] = end] ELSE message
    /\ UNCHANGED <<opRow, audits, browser, granted, noted, foLink, foCount>>

-----------------------------------------------------------------------------
(* The end of an operation: CompleteFileOperation closes a pending one and  *)
(* nothing else; its caller writes the audit afterwards.                    *)

\* Mutant: what was closed is closed again.
ClosesAgain(o, success, by) ==
    /\ opRow' = Status(o, IF success THEN "succeeded" ELSE "failed")
    /\ noted' = noted \cup {[op |-> o, success |-> success, by |-> by]}

ClosesRow(o, success, by) ==
    IF opRow[o].status = "pending"
      THEN /\ opRow' = Status(o, IF success THEN "succeeded" ELSE "failed")
           /\ noted' = noted \cup {[op |-> o, success |-> success, by |-> by]}
      ELSE UNCHANGED <<opRow, noted>>

\* The handler of the daemon's message; a database that fails loses it.
HearsResult(o) ==
    /\ message[o] # "none"
    /\ message' = [message EXCEPT ![o] = "none"]
    /\ \/ ClosesRow(o, message[o] = "done", "event") /\ UNCHANGED foCount
       \/ FoCounts("faults", MaxDbFaults) /\ UNCHANGED <<opRow, noted>>
    /\ UNCHANGED <<audits, browser, granted, daemonWork, foLink>>

\* Mutant: the job only looks at operations whose ticket was used.
ClosesUsed(o) ==
    /\ opRow[o].status = "pending"
    /\ opRow[o].overdue
    /\ browser[o] = "sent"
    /\ ClosesRow(o, FALSE, "job")
    /\ UNCHANGED <<audits, browser, granted, daemonWork, message, foLink, foCount>>

\* ExpireFileOperations, every minute.
ClosesOverdue(o) ==
    /\ opRow[o].status = "pending"
    /\ opRow[o].overdue
    /\ ClosesRow(o, FALSE, "job")
    /\ UNCHANGED <<audits, browser, granted, daemonWork, message, foLink, foCount>>

\* writeFileOperationAudit.
Audits(n) ==
    /\ n \in noted
    /\ WritesAudit(n.op, n.success)
    /\ noted' = noted \ {n}
    /\ UNCHANGED <<opRow, browser, granted, daemonWork, message, foLink>>

\* The job gives up at an operation it cannot close, with those it has closed before.
JobFails ==
    LET closed == {n \in noted : n.by = "job"}
    IN  /\ closed # {}
        /\ foCount.faults < MaxDbFaults
        /\ noted' = noted \ closed
        /\ foCount' = [Lost({n.op : n \in closed}) EXCEPT !.faults = @ + 1]
        /\ UNCHANGED <<opRow, audits, browser, granted, daemonWork, message, foLink>>

-----------------------------------------------------------------------------
(* The outside.                                                            *)

GetsOverdue(o) ==
    /\ opRow[o].status = "pending"
    /\ ~opRow[o].overdue
    /\ opRow' = [opRow EXCEPT ![o].overdue = TRUE]
    /\ UNCHANGED <<audits, browser, granted, daemonWork, message, noted, foLink, foCount>>

EventLinkBreaks ==
    /\ foLink
    /\ FoCounts("stops", MaxStops)
    /\ foLink' = FALSE
    /\ message' = [o \in FileOps |-> "none"]
    /\ UNCHANGED <<opRow, audits, browser, granted, daemonWork, noted>>

LinkReturns ==
    /\ ~foLink
    /\ foLink' = TRUE
    /\ UNCHANGED <<opRow, audits, browser, granted, daemonWork, message, noted, foCount>>

\* The panel loses its requests, its grants and the audits it has not written.
PanelIsBack ==
    /\ foCount.stops < MaxStops
    /\ foCount' = [Lost({n.op : n \in noted}) EXCEPT !.stops = @ + 1]
    /\ noted' = {}
    /\ message' = [o \in FileOps |-> "none"]
    /\ browser' = [o \in FileOps |->
                     IF browser[o] = "asking" \/ (browser[o] = "granted" /\ granted[o].proxy)
                       THEN "left" ELSE browser[o]]
    /\ foLink' = FALSE
    /\ UNCHANGED <<opRow, audits, granted, daemonWork>>

\* The daemon loses its tickets and what it was doing.
FoDaemonRestarts ==
    /\ FoCounts("stops", MaxStops)
    /\ granted' = [o \in FileOps |-> [granted[o] EXCEPT !.ticket = FALSE]]
    /\ daemonWork' = [o \in FileOps |-> IF daemonWork[o] = "doing" THEN "failed" ELSE daemonWork[o]]
    /\ foLink' = FALSE
    /\ message' = [o \in FileOps |-> "none"]
    /\ UNCHANGED <<opRow, audits, browser, noted>>

\* What panel and daemon go on doing by themselves.
FoStep ==
    \/ \E o \in FileOps :
         \/ IssuesTicket(o)
         \/ GivesGrant(o)
         \/ RefusesGrant(o)
         \/ WorkBegins(o)
         \/ WorkEnds(o)
         \/ HearsResult(o)
         \/ GetsOverdue(o)
         \/ ClosesOverdue(o)
    \/ \E n \in noted : Audits(n)
    \/ LinkReturns

FoNext ==
    \/ FoStep
    \/ \E o \in FileOps : AuthorizesFile(o) \/ UsesGrant(o)
    \/ JobFails
    \/ EventLinkBreaks
    \/ PanelIsBack
    \/ FoDaemonRestarts

FoSpec == FoInit /\ [][FoNext]_foVars /\ WF_foVars(FoStep)

-----------------------------------------------------------------------------
Said(seq) == {seq[i] : i \in DOMAIN seq}

(* The audit log never contradicts itself and never praises what did not     *)
(* happen: of the daemon's message, the overdue job and the panel's refusal  *)
(* one closes the operation, and only daemonWork that was done is a success.       *)
AuditIsTrue ==
    \A o \in FileOps :
        /\ Said(audits[o]) # BOOLEAN
        /\ TRUE \in Said(audits[o]) => daemonWork[o] = "done"

(* Every operation that was noted is in the audit log in the end, whatever   *)
(* became of its ticket, its message and the browser; except those that the  *)
(* panel had closed, but not yet audited, when it stopped or its job failed,  *)
(* and those whose audit the database refused.                               *)
EveryOperationIsAudited ==
    \A o \in FileOps :
        []<>(opRow[o].status = "none" \/ audits[o] # <<>> \/ o \in foCount.lost)
=============================================================================
