------------------------------ MODULE Firewall -------------------------------
(***************************************************************************)
(* The network whitelist of a node (daemon firewall/) and the tickets a     *)
(* browser shows when it speaks to the daemon itself (daemon ticket/).      *)
(* The service's state, in memory and in a file that are written together,  *)
(* has to agree with the nftables table of the kernel, which outlives the   *)
(* daemon and which others may change.  A ticket opens the daemon's port    *)
(* for its source for a while: by a grant in memory and an element with a   *)
(* timeout in the kernel.                                                   *)
(*                                                                         *)
(* Every operation holds the service's mutex, so it is one step; a ticket   *)
(* request is several, and the end of a user's session may come in between. *)
(***************************************************************************)
EXTENDS Integers, FiniteSets, FiniteSetsExt

CONSTANTS FwRules, Addresses, NoAddress, Logins,   \* enabled rules; sources; sessions of users
          Ttls, TicketTtl,              \* lifetimes, in ticks of the time
          MaxTroubles                   \* faults, changes by others and restarts

\* ConfigureSystem and validateState admit no lifetime below a minute.
ASSUME FwTtlAssumption == Ttls \subseteq Nat \ {0}

VARIABLES
    fw,       \* Service.state and its file: rules, system.enabled, TTL, the applied hash;
              \* and whether its script met a table the service did not know of
    kernel,   \* the table of the kernel, and how long it lets each source in
    seen,     \* tablePresent and drift, as of the last inspection
    grants,   \* Service.grants
    tickets,  \* the tickets of the requests under way; one that was given changes nothing here
    ask,      \* the ticket request of each session
    login,    \* how far the end of each session got
    fwUp,     \* whether the daemon serves
    troubles  \* what the bound counts

fwVars == <<fw, kernel, seen, grants, tickets, ask, login, fwUp, troubles>>

\* A table is named by what it enforces and by who wrote it: the service, a
\* stranger who changed it, or the service on top of a table it had not seen.
NoTable == [rules |-> {}, on |-> FALSE, by |-> "service"]
Table(s) == [rules |-> s.rules, on |-> s.on, by |-> "service"]

Active(s) == s.on \/ s.rules # {}

NoAsk == [at |-> "none", source |-> NoAddress, restricted |-> FALSE]

Closed == [a \in Addresses |-> 0]

FwInit ==
    /\ \E ttl \in Ttls :
         fw = [rules |-> {}, on |-> FALSE, ttl |-> ttl, hash |-> NoTable, blind |-> FALSE]
    /\ kernel = [table |-> NoTable, open |-> Closed]
    /\ seen = [present |-> FALSE, drift |-> FALSE]
    /\ grants = {}
    /\ tickets = {}
    /\ ask = [l \in Logins |-> NoAsk]
    /\ login = [l \in Logins |-> "active"]
    /\ fwUp = TRUE
    /\ troubles = 0

\* The troubles of a step: commands that fail, and what comes from outside.
Troubled(n) == troubles + n <= MaxTroubles /\ troubles' = troubles + n

Cost(works) == IF works THEN 0 ELSE 1

-----------------------------------------------------------------------------
(* Looking at the kernel: refreshObservedLocked.                           *)

Observed ==
    [present |-> kernel.table # NoTable,
     drift   |-> IF kernel.table = NoTable THEN Active(fw) ELSE fw.hash # kernel.table]

\* An inspection that fails leaves the two flags as they were.
Looks(works) == IF works THEN Observed ELSE seen

-----------------------------------------------------------------------------
(* applyCandidateLocked, renderScript and Apply.                           *)

\* activeGrantElements: each source until its last grant ends.
Granted(a) == Max({g.left : g \in {h \in grants : h.source = a}} \cup {0})

\* The kernel after the script: the table is deleted if the service believes there is
\* one, then made new; made on top of an unseen one, the two are enforced together.
Applied(s, present) ==
    CASE present \/ kernel.table = NoTable ->
           [table |-> Table(s), open |-> [a \in Addresses |-> IF s.on THEN Granted(a) ELSE 0]]
      [] ~present /\ kernel.table # NoTable /\ Active(s) ->
           [table |-> [rules |-> s.rules \cup kernel.table.rules, on |-> s.on \/ kernel.table.on,
                       by |-> "both"],
            open  |-> [a \in Addresses |-> IF kernel.open[a] > 0 \/ ~s.on
                                             THEN kernel.open[a] ELSE Granted(a)]]
      [] OTHER -> kernel

Hows == {"done", "refused", "unsaved"}

\* Mutant: the state is kept before the script is run.
ApplyBelieves(s, flags, how) ==
    LET runs  == how # "refused" /\ (flags.present => kernel.table # NoTable)
    IN  /\ kernel' = IF runs THEN Applied(s, flags.present) ELSE kernel
        /\ fw' = [s EXCEPT !.hash = kernel'.table]
        /\ seen' = flags

\* A script is refused as a whole when it deletes a table that is not there.  It may be
\* in the kernel while the inspection that follows or the write of the file fails.
ApplyCandidate(s, flags, how) ==
    LET runs  == how # "refused" /\ (flags.present => kernel.table # NoTable)
        after == IF runs THEN Applied(s, flags.present) ELSE kernel
        blind == ~flags.present /\ kernel.table # NoTable
        saved == IF runs /\ how = "done" THEN [s EXCEPT !.hash = after.table, !.blind = blind]
                                        ELSE fw
    IN  /\ kernel' = after
        /\ fw' = saved
        /\ seen' = IF saved = fw THEN flags ELSE [present |-> after.table # NoTable, drift |-> FALSE]

-----------------------------------------------------------------------------
(* CreateRule, UpdateRule, DeleteRule and ConfigureSystem, for a request    *)
(* with the revision of the moment: all others are refused.                 *)

Candidates ==
    {[fw EXCEPT !.rules = r] : r \in SUBSET FwRules}
    \cup UNION {{[fw EXCEPT !.on = o, !.ttl = t] : o \in BOOLEAN} : t \in Ttls}

\* prepareMutationLocked: it asks for the drift, not whether the inspection worked.
EditsRules ==
    /\ fwUp
    /\ \E looks \in BOOLEAN, how \in Hows, s \in Candidates :
         LET flags == Looks(looks)
         IN  /\ ~flags.drift
             /\ Troubled(Cost(looks) + Cost(how = "done"))
             /\ ApplyCandidate(s, flags, how)
             /\ grants' = IF fw' = fw \/ s.on THEN grants ELSE {}
    /\ UNCHANGED <<tickets, ask, login, fwUp>>

\* A refused one, Status and View only look.
LooksOnly ==
    /\ fwUp
    /\ seen' = Observed
    /\ UNCHANGED <<fw, kernel, grants, tickets, ask, login, fwUp, troubles>>

-----------------------------------------------------------------------------
(* A ticket for a session of a user: createTicket.                          *)

AsksTicket(l) ==
    /\ ask[l] = NoAsk
    /\ login[l] = "active"
    /\ \E a \in Addresses, r \in BOOLEAN :
         ask' = [ask EXCEPT ![l] = [at |-> "create", source |-> a, restricted |-> r]]
    /\ UNCHANGED <<fw, kernel, seen, grants, tickets, login, fwUp, troubles>>

\* CreateWithOptions, which forgets the tickets that ended.
CreatesTicket(l) ==
    /\ fwUp
    /\ ask[l].at = "create"
    /\ tickets' = {t \in tickets : t.left > 0} \cup {[login |-> l, left |-> TicketTtl]}
    /\ ask' = [ask EXCEPT ![l].at = IF ask[l].restricted THEN "fill" ELSE "grant"]
    /\ UNCHANGED <<fw, kernel, seen, grants, login, fwUp, troubles>>

HasTicket(l) == \E t \in tickets : t.login = l

NotOf(l) == {t \in tickets : t.login # l}

\* The rest of CreateRestricted takes the lock again and writes to what it finds.
FillsTicket(l) ==
    /\ fwUp
    /\ ask[l].at = "fill"
    /\ HasTicket(l)
    /\ ask' = [ask EXCEPT ![l].at = "grant"]
    /\ UNCHANGED <<fw, kernel, seen, grants, tickets, login, fwUp, troubles>>

DaemonDies ==
    /\ fwUp' = FALSE
    /\ grants' = {}
    /\ tickets' = {}
    /\ ask' = [l \in Logins |-> NoAsk]

\* A ticket removed in between is a nil pointer: nothing recovers the panic.
FillPanics(l) ==
    /\ fwUp
    /\ ask[l].at = "fill"
    /\ ~HasTicket(l)
    /\ DaemonDies
    /\ UNCHANGED <<fw, kernel, seen, login, troubles>>

\* GrantDirectAccess and AddGrant: an element that is there gets the new timeout.
GrantsAccess(l) ==
    /\ fwUp
    /\ ask[l].at = "grant"
    /\ IF fw.on
         THEN /\ ~Observed.drift
              /\ seen' = Observed
              /\ grants' = grants \cup {[source |-> ask[l].source, login |-> l, left |-> fw.ttl]}
              /\ kernel' = [kernel EXCEPT !.open[ask[l].source] = fw.ttl]
         ELSE UNCHANGED <<seen, grants, kernel>>
    /\ tickets' = NotOf(l)
    /\ ask' = [ask EXCEPT ![l] = NoAsk]
    /\ UNCHANGED <<fw, login, fwUp, troubles>>

\* No grant, no ticket: prepareDirectTicket revokes it.
GrantFails(l) ==
    /\ fwUp
    /\ ask[l].at = "grant"
    /\ fw.on
    /\ \E looks, adds \in BOOLEAN :
         /\ ~looks \/ ~adds \/ Observed.drift
         /\ Observed.drift /\ looks => adds
         /\ ~looks => adds
         /\ Troubled(Cost(looks) + Cost(adds))
         /\ seen' = Looks(looks)
    /\ tickets' = NotOf(l)
    /\ ask' = [ask EXCEPT ![l] = NoAsk]
    /\ UNCHANGED <<fw, kernel, grants, login, fwUp>>

-----------------------------------------------------------------------------
(* The end of a session: the panel tells every node that is connected, once. *)

LogsOut(l) ==
    /\ login[l] = "active"
    /\ login' = [login EXCEPT ![l] = "told"]
    /\ UNCHANGED <<fw, kernel, seen, grants, tickets, ask, fwUp, troubles>>

\* tickets.RevokeSession ...
RevokesTickets(l) ==
    /\ fwUp
    /\ login[l] = "told"
    /\ tickets' = NotOf(l)
    /\ login' = [login EXCEPT ![l] = "tickets"]
    /\ UNCHANGED <<fw, kernel, seen, grants, ask, fwUp, troubles>>

Others(l) == {g \in grants : g.login # l}

\* Mutant: every source of the session is closed.
UnneededByIt(l) == {g.source : g \in (grants \ Others(l))}

\* Sources that no other session's grant needs.
Unneeded(l) == {g.source : g \in (grants \ Others(l))} \ {g.source : g \in Others(l)}

\* ... then RevokeSessionGrants; when one source cannot be removed the others may be.
RevokesGrants(l) ==
    /\ fwUp
    /\ login[l] = "tickets"
    /\ login' = [login EXCEPT ![l] = "over"]
    /\ IF ~fw.on
         THEN /\ grants' = Others(l)
              /\ UNCHANGED <<kernel, seen, troubles>>
         ELSE \E looks, removes \in BOOLEAN, closed \in SUBSET Unneeded(l) :
                /\ Troubled(Cost(looks) + Cost(removes))
                /\ seen' = Looks(looks)
                /\ IF looks /\ ~Observed.drift
                     THEN /\ removes = (closed = Unneeded(l))
                          /\ kernel' = [kernel EXCEPT !.open =
                                         [a \in Addresses |-> IF a \in closed THEN 0 ELSE @[a]]]
                          /\ grants' = IF removes THEN Others(l) ELSE grants
                     ELSE /\ removes
                          /\ closed = {}
                          /\ UNCHANGED kernel
                          /\ UNCHANGED grants
    /\ UNCHANGED <<fw, tickets, ask, fwUp>>

-----------------------------------------------------------------------------
(* The outside: time, other users of nftables, the daemon's and the         *)
(* machine's restarts.                                                      *)

TickOff(n) == IF n = 0 THEN 0 ELSE n - 1

\* A grant that ended counts nowhere (expireGrantsLocked); a ticket that ended is
\* removed by the next one that is made.
Ticks ==
    /\ grants' = {[g EXCEPT !.left = @ - 1] : g \in {h \in grants : h.left > 1}}
    /\ kernel' = [kernel EXCEPT !.open = [a \in Addresses |-> TickOff(@[a])]]
    /\ tickets' = {[t EXCEPT !.left = TickOff(@)] : t \in tickets}
    /\ UNCHANGED <<fw, seen, ask, login, fwUp, troubles>>

Strangers ==
    /\ kernel.table # NoTable
    /\ Troubled(1)
    /\ kernel' \in {[kernel EXCEPT !.table.by = "stranger"],
                    [table |-> NoTable, open |-> Closed]}
    /\ UNCHANGED <<fw, seen, grants, tickets, ask, login, fwUp>>

\* The daemon ends, alone or with the machine.
DaemonEnds ==
    /\ fwUp
    /\ Troubled(1)
    /\ DaemonDies
    /\ kernel' \in {kernel, [table |-> NoTable, open |-> Closed]}
    /\ UNCHANGED <<fw, seen, login>>

\* load and Initialize, before anything is served.
FirewallStarts ==
    /\ ~fwUp
    /\ fwUp' = TRUE
    /\ \E looks \in BOOLEAN, how \in Hows :
         LET flags == IF looks THEN Observed ELSE [present |-> FALSE, drift |-> FALSE]
         IN  /\ Troubled(Cost(looks) + Cost(how = "done"))
             /\ IF looks /\ Active(fw) /\ ~flags.present
                  THEN ApplyCandidate(fw, flags, how)
                  ELSE /\ how = "done"
                       /\ seen' = flags
                       /\ UNCHANGED <<fw, kernel>>
    /\ UNCHANGED <<grants, tickets, ask, login>>

FwNext ==
    \/ EditsRules
    \/ LooksOnly
    \/ \E l \in Logins :
         \/ AsksTicket(l)
         \/ CreatesTicket(l)
         \/ FillsTicket(l)
         \/ FillPanics(l)
         \/ GrantsAccess(l)
         \/ GrantFails(l)
         \/ LogsOut(l)
         \/ RevokesTickets(l)
         \/ RevokesGrants(l)
    \/ Ticks
    \/ Strangers
    \/ DaemonEnds
    \/ FirewallStarts

FwSpec == FwInit /\ [][FwNext]_fwVars

-----------------------------------------------------------------------------
(* A table the service takes for its own enforces exactly the rules it       *)
(* shows, whatever failed between the script, the inspection and the write   *)
(* of the file, and whoever changed the table meanwhile; except after a      *)
(* change whose first inspection failed, which prepareMutationLocked lets    *)
(* pass: its script may meet a table the service does not know of.           *)
KernelFollowsState ==
    fwUp /\ ~Observed.drift =>
        fw.blind \/ kernel.table = IF Active(fw) THEN Table(fw) ELSE NoTable

\* Whether a grant of a session that goes on covers the source.
Covered(a) == \E g \in grants : g.source = a /\ login[g.login] \in {"active", "told"}

(* A source that a session that goes on may use stays open as long as time   *)
(* permits: the service never closes it by changing rules, by a new ticket   *)
(* nor by the end of another session.                                        *)
GrantsSurvive ==
    [][\A a \in Addresses :
         (/\ kernel.open[a] > 1
          /\ Covered(a)
          /\ fwUp'
          /\ kernel'.table.on
          /\ kernel'.table.by = kernel.table.by)
            => kernel'.open[a] > 0]_fwVars
=============================================================================
