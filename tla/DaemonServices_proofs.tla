------------------------ MODULE DaemonServices_proofs ------------------------
(***************************************************************************)
(* Theorems about services of the daemon: Firewall, Console, FileService,  *)
(* OperatorSync and PluginFiles.                                           *)
(***************************************************************************)
EXTENDS Firewall, Console, FileService, OperatorSync, PluginFiles,
        WellFoundedInduction, TLAPS

-----------------------------------------------------------------------------
(***************************************************************************)
(* Firewall: for any rules, addresses and sessions, and any number of failed*)
(* commands, failed writes, restarts and strangers.                        *)
(***************************************************************************)

Tables == [rules : SUBSET FwRules, on : BOOLEAN, by : {"service", "stranger", "both"}]

States == [rules : SUBSET FwRules, on : BOOLEAN, ttl : Ttls, hash : Tables, blind : BOOLEAN]

\* How long the kernel lets a source in does not matter here.
FwTypeOK ==
    /\ fw \in States
    /\ kernel = [table |-> kernel.table, open |-> kernel.open]
    /\ kernel.table \in Tables

\* The hash in the file is that of the table of the state in the file, and a state
\* that asks for no table has none.
HashMeansState ==
    fw.hash # NoTable => fw.blind \/ (fw.hash = Table(fw) /\ Active(fw))

FwInv == FwTypeOK /\ HashMeansState

-----------------------------------------------------------------------------
LEMMA NoTableIsTable == NoTable \in Tables
BY DEF NoTable, Tables

\* What a script leaves is a table.
LEMMA AppliedIsTable ==
    ASSUME FwTypeOK, NEW s \in States, NEW present
    PROVE  /\ Applied(s, present) = [table |-> Applied(s, present).table,
                                     open  |-> Applied(s, present).open]
           /\ Applied(s, present).table \in Tables
BY DEF FwTypeOK, Applied, Tables, States, Table

\* A script that knows of the table that is there leaves the table of the new state.
LEMMA AppliedIsExact ==
    ASSUME NEW s, NEW present, present \/ kernel.table = NoTable
    PROVE  Applied(s, present).table = Table(s)
BY DEF Applied

\* The table of a state that asks for none is none.
LEMMA InactiveIsNoTable ==
    ASSUME NEW s \in States, Table(s) # NoTable
    PROVE  Active(s)
BY DEF States, Table, NoTable, Active

\* applyCandidateLocked: the hash is that of the state it is saved with.
LEMMA ApplyKeepsInv ==
    ASSUME FwInv, NEW s \in States, NEW flags, NEW how, ApplyCandidate(s, flags, how)
    PROVE  FwInv'
<1> DEFINE runs  == how # "refused" /\ (flags.present => kernel.table # NoTable)
           after == IF runs THEN Applied(s, flags.present) ELSE kernel
           blind == ~flags.present /\ kernel.table # NoTable
<1>1. /\ kernel' = after
      /\ fw' \in {fw, [s EXCEPT !.hash = after.table, !.blind = blind]}
      /\ fw' # fw => runs
  BY DEF ApplyCandidate
<1>2. after = [table |-> after.table, open |-> after.open] /\ after.table \in Tables
  BY AppliedIsTable DEF FwInv, FwTypeOK
<1>3. CASE fw' = fw
  BY <1>1, <1>2, <1>3 DEF FwInv, FwTypeOK, HashMeansState, Table, Active
<1>4. CASE fw' # fw
  <2>1. fw' = [s EXCEPT !.hash = after.table, !.blind = blind] /\ runs
    BY <1>1, <1>4
  <2>2. blind \in BOOLEAN
    OBVIOUS
  <2>3. /\ fw' \in States
        /\ fw'.hash = after.table /\ fw'.blind = blind
        /\ Table(fw') = Table(s) /\ Active(fw') = Active(s)
    BY <2>1, <2>2, <1>2 DEF States, Table, Active
  <2>4. ~blind => after.table = Table(s)
    BY <2>1, AppliedIsExact
  <2>5. HashMeansState'
    BY <2>3, <2>4, InactiveIsNoTable DEF HashMeansState
  <2> QED
    BY <1>1, <1>2, <2>3, <2>5 DEF FwInv, FwTypeOK
<1> QED
  BY <1>3, <1>4

\* Every other step leaves the state of the service alone.
LEMMA OthersKeepInv ==
    ASSUME FwInv, fw' = fw, kernel'.table \in Tables,
           kernel' = [table |-> kernel'.table, open |-> kernel'.open]
    PROVE  FwInv'
BY DEF FwInv, FwTypeOK, HashMeansState, Table, Active

LEMMA FwInitInv == FwInit => FwInv
BY DEF FwInit, FwInv, FwTypeOK, HashMeansState, States, Tables, NoTable, Table, Active

LEMMA FwStepInv == FwInv /\ [FwNext]_fwVars => FwInv'
<1> SUFFICES ASSUME FwInv, [FwNext]_fwVars PROVE FwInv'
  OBVIOUS
<1> USE DEF FwInv, FwTypeOK
<1>1. CASE EditsRules
  <2>1. PICK looks \in BOOLEAN, how \in Hows, s \in Candidates :
               ApplyCandidate(s, Looks(looks), how)
    BY <1>1 DEF EditsRules
  <2>2. s \in States
    <3>1. \A r \in SUBSET FwRules : [fw EXCEPT !.rules = r] \in States
      BY DEF States
    <3>2. \A t \in Ttls : {[fw EXCEPT !.on = o, !.ttl = t] : o \in BOOLEAN} \subseteq States
      BY DEF States
    <3> QED
      BY <3>1, <3>2 DEF Candidates
  <2> QED
    BY <2>1, <2>2, ApplyKeepsInv
<1>2. CASE FirewallStarts
  <2>1. CASE \E how \in Hows : \E flags : ApplyCandidate(fw, flags, how)
    BY <2>1, ApplyKeepsInv
  <2>2. CASE UNCHANGED <<fw, kernel>>
    BY <2>2, OthersKeepInv
  <2> QED
    BY <1>2, <2>1, <2>2 DEF FirewallStarts
<1>3. CASE LooksOnly
  BY <1>3, OthersKeepInv DEF LooksOnly
<1>4. CASE \E l \in Logins : AsksTicket(l) \/ CreatesTicket(l) \/ FillsTicket(l) \/ FillPanics(l)
                               \/ GrantFails(l) \/ LogsOut(l) \/ RevokesTickets(l)
  BY <1>4, OthersKeepInv
     DEF AsksTicket, CreatesTicket, FillsTicket, FillPanics, GrantFails, LogsOut, RevokesTickets
<1>5. ASSUME NEW l \in Logins, GrantsAccess(l) PROVE FwInv'
  BY <1>5, OthersKeepInv DEF GrantsAccess
<1>6. ASSUME NEW l \in Logins, RevokesGrants(l) PROVE FwInv'
  BY <1>6, OthersKeepInv DEF RevokesGrants
<1>7. CASE Ticks
  BY <1>7, OthersKeepInv DEF Ticks
<1>8. CASE Strangers
  <2>1. fw' = fw /\ \/ kernel' = [kernel EXCEPT !.table.by = "stranger"]
                    \/ kernel' = [table |-> NoTable, open |-> Closed]
    BY <1>8 DEF Strangers
  <2>2. CASE kernel' = [kernel EXCEPT !.table.by = "stranger"]
    <3>1. kernel' = [table |-> [kernel.table EXCEPT !.by = "stranger"], open |-> kernel.open]
      BY <2>2
    <3>2. [kernel.table EXCEPT !.by = "stranger"] \in Tables
      BY DEF Tables
    <3> QED
      BY <2>1, <3>1, <3>2, OthersKeepInv
  <2>3. CASE kernel' = [table |-> NoTable, open |-> Closed]
    BY <2>1, <2>3, NoTableIsTable, OthersKeepInv
  <2> QED
    BY <2>1, <2>2, <2>3
<1>9. CASE DaemonEnds
  <2>1. fw' = fw /\ (kernel' = kernel \/ kernel' = [table |-> NoTable, open |-> Closed])
    BY <1>9 DEF DaemonEnds
  <2> QED
    BY <2>1, NoTableIsTable, OthersKeepInv
<1>10. CASE UNCHANGED fwVars
  BY <1>10, OthersKeepInv DEF fwVars
<1> QED
  BY <1>1, <1>2, <1>3, <1>4, <1>5, <1>6, <1>7, <1>8, <1>9, <1>10 DEF FwNext

-----------------------------------------------------------------------------
(* A table that does not show as drifted enforces the rules of the service,  *)
(* for any number of troubles, as long as no change went on after its first   *)
(* inspection failed (prepareMutationLocked, applyCandidateLocked).           *)
THEOREM FwKernelFollowsState == FwSpec => []KernelFollowsState
<1>1. FwInv => KernelFollowsState
  BY DEF FwInv, FwTypeOK, States, HashMeansState, KernelFollowsState, Observed
<1> QED
  BY <1>1, FwInitInv, FwStepInv, PTL DEF FwSpec

-----------------------------------------------------------------------------
(* Least elements and maxima.                                              *)

LEMMA LeastBy ==
    ASSUME NEW R, IsWellFoundedOn(R, Nat), \A x, y \in Nat : y < x => <<y, x>> \in R,
           NEW T \in SUBSET Nat, T # {}
    PROVE \E n \in T : \A m \in T : n <= m
<1>2. \E x \in T : \A y \in T : ~ (<<y, x>> \in R)
  BY WFMin
<1>3. PICK x \in T : \A y \in T : ~ (<<y, x>> \in R)
  BY <1>2
<1>4. ASSUME NEW y \in T PROVE x <= y
  <2>1. ~ (y < x)
    BY <1>3, Zenon
  <2> QED
    BY <2>1
<1> QED
  BY <1>4

LEMMA LeastNatural ==
    ASSUME NEW T \in SUBSET Nat, T # {} PROVE \E n \in T : \A m \in T : n <= m
<1> DEFINE R == OpToRel(<, Nat)
<1>1. IsWellFoundedOn(R, Nat)
  BY NatLessThanWellFounded
<1>3. \A x, y \in Nat : y < x => <<y, x>> \in R
  BY DEF R, OpToRel
<1> HIDE DEF R
<1> QED
  BY <1>1, <1>3, LeastBy, Zenon

LEMMA MaxOfBounded ==
    ASSUME NEW S \in SUBSET Nat, S # {}, NEW b \in Nat, \A y \in S : y <= b
    PROVE  Max(S) \in S /\ \A y \in S : Max(S) >= y
<1> DEFINE Above == {n \in Nat : \A y \in S : y <= n}
<1>1. PICK m \in Above : \A n \in Above : m <= n
  <2>1. b \in Above
    OBVIOUS
  <2>2. Above \in SUBSET Nat /\ Above # {}
    BY <2>1
  <2> HIDE DEF Above
  <2> QED
    BY <2>2, LeastNatural, Zenon
<1>2. m \in Nat /\ \A y \in S : y \in Nat /\ m >= y
  BY <1>1
<1>3. m \in S
  <2> SUFFICES ASSUME m \notin S PROVE FALSE
    OBVIOUS
  <2>1. PICK z \in S : TRUE
    OBVIOUS
  <2>2. \A y \in S : y < m
    BY <1>2
  <2>3. m - 1 \in Nat /\ \A y \in S : y <= m - 1
    BY <1>2, <2>1, <2>2
  <2>4. m - 1 \in Above
    BY <2>3
  <2>5. m <= m - 1
    BY <1>1, <2>4
  <2> QED
    BY <1>2, <2>5
<1> QED
  BY <1>2, <1>3 DEF Max

-----------------------------------------------------------------------------
(* Who may use the port of the daemon.                                     *)

\* No grant is for ever, and none outlives the daemon.
GrantsOK ==
    /\ \E b \in Nat : \A g \in grants : g.left \in 1 .. b
    /\ ~fwUp => grants = {}

OpenOK == kernel.open \in [Addresses -> Nat]

AccessInv == FwInv /\ GrantsOK /\ OpenOK

\* activeGrantElements lets a source in as long as one of its grants lasts.
LEMMA GrantedLasts ==
    ASSUME GrantsOK, NEW a
    PROVE  Granted(a) \in Nat /\ \A g \in grants : g.source = a => Granted(a) > 0
<1> DEFINE S == {g.left : g \in {h \in grants : h.source = a}} \cup {0}
<1>1. PICK b \in Nat : \A g \in grants : g.left \in 1 .. b
  BY DEF GrantsOK
<1>2. S \in SUBSET Nat /\ S # {} /\ \A y \in S : y <= b
  BY <1>1
<1>3. Max(S) \in S /\ \A y \in S : Max(S) >= y
  <2> HIDE DEF S
  <2> QED
    BY <1>1, <1>2, MaxOfBounded
<1>4. Granted(a) = Max(S)
  BY DEF Granted
<1>5. \A g \in grants : g.source = a => g.left \in S /\ g.left > 0
  BY <1>1
<1>6. Granted(a) \in Nat /\ \A y \in S : y \in Nat /\ Granted(a) >= y
  <2> HIDE DEF S
  <2> QED
    BY <1>2, <1>3, <1>4
<1>7. ASSUME NEW g \in grants, g.source = a PROVE Granted(a) > 0
  <2>1. g.left \in S /\ g.left > 0
    BY <1>5, <1>7
  <2> HIDE DEF S
  <2> QED
    BY <1>6, <2>1
<1> QED
  BY <1>6, <1>7

\* A script closes no source that a grant covers, as long as the table lets anyone in.
Spared(open, on) ==
    \A a \in Addresses :
        kernel.open[a] > 0 /\ (\E g \in grants : g.source = a) /\ on => open[a] > 0

LEMMA AppliedSpares ==
    ASSUME GrantsOK, OpenOK, NEW s, NEW present
    PROVE  /\ Applied(s, present).open \in [Addresses -> Nat]
           /\ Spared(Applied(s, present).open, Applied(s, present).table.on)
<1>1. \A a \in Addresses :
        Granted(a) \in Nat /\ ((\E g \in grants : g.source = a) => Granted(a) > 0)
  BY GrantedLasts
<1>2. CASE present \/ kernel.table = NoTable
  BY <1>1, <1>2 DEF Applied, Table, Spared
<1>3. CASE ~present /\ kernel.table # NoTable /\ Active(s)
  BY <1>1, <1>3 DEF Applied, Spared, OpenOK
<1>4. CASE ~(present \/ kernel.table = NoTable) /\ ~(~present /\ kernel.table # NoTable /\ Active(s))
  BY <1>4 DEF Applied, Spared, OpenOK
<1> QED
  BY <1>2, <1>3, <1>4

LEMMA ApplySpares ==
    ASSUME GrantsOK, OpenOK, NEW s, NEW flags, NEW how, ApplyCandidate(s, flags, how)
    PROVE  OpenOK' /\ Spared(kernel'.open, kernel'.table.on)
<1>1. kernel' = Applied(s, flags.present) \/ kernel' = kernel
  BY DEF ApplyCandidate
<1>2. Spared(kernel.open, kernel.table.on)
  BY DEF Spared
<1> QED
  BY <1>1, <1>2, AppliedSpares DEF OpenOK

\* What a step has to keep, and what the property asks of it.
KeepsAccess ==
    \A a \in Addresses :
        (/\ kernel.open[a] > 1
         /\ Covered(a)
         /\ fwUp'
         /\ kernel'.table.on
         /\ kernel'.table.by = kernel.table.by)
           => kernel'.open[a] > 0

LEMMA SparedIsKept ==
    ASSUME OpenOK, Spared(kernel'.open, kernel'.table.on) PROVE KeepsAccess
BY DEF KeepsAccess, Spared, Covered, OpenOK

LEMMA SameIsKept ==
    ASSUME OpenOK, kernel' = kernel PROVE OpenOK' /\ KeepsAccess
BY DEF OpenOK, KeepsAccess

LEMMA GrantsSubset ==
    ASSUME GrantsOK, grants' \subseteq grants, ~fwUp' => ~fwUp PROVE GrantsOK'
BY DEF GrantsOK

LEMMA GrantsGone == ASSUME grants' = {} PROVE GrantsOK'
BY DEF GrantsOK

LEMMA AccessInit == FwInit => AccessInv
<1> SUFFICES ASSUME FwInit PROVE AccessInv
  OBVIOUS
<1>1. GrantsOK
  <2>1. grants = {} /\ 0 \in Nat
    BY DEF FwInit
  <2> QED
    BY <2>1, Zenon DEF GrantsOK
<1>2. OpenOK
  BY DEF FwInit, OpenOK, Closed
<1> QED
  BY <1>1, <1>2, FwInitInv DEF AccessInv

\* GrantDirectAccess: the source of the new grant is open, the others stay as they are.
LEMMA GrantsAccessKeeps ==
    ASSUME AccessInv, NEW l \in Logins, GrantsAccess(l)
    PROVE  GrantsOK' /\ OpenOK' /\ KeepsAccess
<1>1. fwUp /\ fwUp' = fwUp
  BY DEF GrantsAccess
<1>2. fw.ttl \in Nat \ {0}
  BY FwTtlAssumption DEF AccessInv, FwInv, FwTypeOK, States
<1>3. CASE fw.on
  <2>1. /\ kernel'.open = [kernel.open EXCEPT ![ask[l].source] = fw.ttl]
        /\ grants' = grants \cup {[source |-> ask[l].source, login |-> l, left |-> fw.ttl]}
    BY <1>3 DEF GrantsAccess, AccessInv, FwInv, FwTypeOK
  <2>2. \A a \in Addresses : kernel'.open[a] = kernel.open[a] \/ kernel'.open[a] = fw.ttl
    BY <2>1 DEF AccessInv, OpenOK
  <2>8. OpenOK'
    <3>1. DOMAIN kernel'.open = Addresses /\ kernel'.open = [a \in Addresses |-> kernel'.open[a]]
      BY <2>1 DEF AccessInv, OpenOK
    <3>2. \A a \in Addresses : kernel'.open[a] \in Nat
      BY <1>2, <2>2 DEF AccessInv, OpenOK
    <3> QED
      BY <3>1, <3>2 DEF OpenOK
  <2>9. KeepsAccess
    BY <1>2, <2>2 DEF AccessInv, OpenOK, KeepsAccess
  <2>3. PICK b \in Nat : \A g \in grants : g.left \in 1 .. b
    BY DEF AccessInv, GrantsOK
  <2>4. PICK c \in Nat : b <= c /\ fw.ttl <= c
    BY <1>2, <2>3
  <2>5. \A g \in grants' : g.left \in 1 .. c
    BY <1>2, <2>1, <2>3, <2>4
  <2> QED
    BY <1>1, <2>8, <2>9, <2>4, <2>5 DEF GrantsOK
<1>4. CASE ~fw.on
  <2>1. kernel' = kernel /\ grants' = grants
    BY <1>4 DEF GrantsAccess
  <2> QED
    BY <1>1, <2>1, SameIsKept, GrantsSubset DEF AccessInv
<1> QED
  BY <1>3, <1>4

\* RevokeSessionGrants: what it closes is covered by no session that goes on.
LEMMA RevokesGrantsKeeps ==
    ASSUME AccessInv, NEW l \in Logins, RevokesGrants(l)
    PROVE  GrantsOK' /\ OpenOK' /\ KeepsAccess
<1>1. fwUp' = fwUp /\ grants' \subseteq grants /\ login[l] = "tickets"
  BY DEF RevokesGrants, Others
<1>2. GrantsOK'
  BY <1>1, GrantsSubset DEF AccessInv
<1>3. CASE kernel' = kernel
  BY <1>2, <1>3, SameIsKept DEF AccessInv
<1>4. CASE kernel' # kernel
  <2>1. PICK closed \in SUBSET Unneeded(l) :
          kernel' = [kernel EXCEPT !.open = [a \in Addresses |-> IF a \in closed THEN 0 ELSE @[a]]]
    BY <1>4 DEF RevokesGrants
  <2>2. kernel'.open = [a \in Addresses |-> IF a \in closed THEN 0 ELSE kernel.open[a]]
    BY <2>1 DEF AccessInv, FwInv, FwTypeOK
  <2>3. OpenOK'
    BY <2>2 DEF AccessInv, OpenOK
  <2>4. ASSUME NEW a \in Addresses, Covered(a) PROVE a \notin closed
    <3>1. PICK g \in grants : g.source = a /\ login[g.login] \in {"active", "told"}
      BY <2>4 DEF Covered
    <3>2. g \in Others(l)
      BY <1>1, <3>1 DEF Others
    <3> QED
      BY <2>1, <3>1, <3>2 DEF Unneeded
  <2>5. KeepsAccess
    BY <2>2, <2>4 DEF KeepsAccess, AccessInv, OpenOK
  <2> QED
    BY <1>2, <2>3, <2>5
<1> QED
  BY <1>3, <1>4

LEMMA TicksKeeps ==
    ASSUME AccessInv, Ticks
    PROVE  GrantsOK' /\ OpenOK' /\ KeepsAccess
<1>1. /\ kernel'.open = [a \in Addresses |-> TickOff(kernel.open[a])]
      /\ grants' = {[g EXCEPT !.left = @ - 1] : g \in {h \in grants : h.left > 1}}
      /\ fwUp' = fwUp
  BY DEF Ticks, AccessInv, FwInv, FwTypeOK
<1>2. OpenOK' /\ KeepsAccess
  BY <1>1 DEF AccessInv, OpenOK, KeepsAccess, TickOff
<1>3. PICK b \in Nat : \A g \in grants : g.left \in 1 .. b
  BY DEF AccessInv, GrantsOK
<1>4. ASSUME NEW g \in grants, g.left > 1 PROVE [g EXCEPT !.left = @ - 1].left \in 1 .. b
  <2>1. CASE [g EXCEPT !.left = @ - 1].left = g.left - 1
    BY <1>3, <1>4, <2>1
  <2> QED
    BY <2>1
<1>5. \A g \in grants' : g.left \in 1 .. b
  BY <1>1, <1>4
<1>6. ~fwUp' => grants' = {}
  BY <1>1 DEF AccessInv, GrantsOK
<1> QED
  BY <1>2, <1>3, <1>5, <1>6 DEF GrantsOK

LEMMA OutsideKeeps ==
    ASSUME AccessInv, Strangers \/ DaemonEnds
    PROVE  GrantsOK' /\ OpenOK' /\ KeepsAccess
<1>1. CASE Strangers
  <2>1. grants' = grants /\ fwUp' = fwUp
    BY <1>1 DEF Strangers
  <2>2. CASE kernel' = [kernel EXCEPT !.table.by = "stranger"]
    <3>1. kernel'.open = kernel.open
      BY <2>2 DEF AccessInv, FwInv, FwTypeOK
    <3> QED
      BY <2>1, <3>1, GrantsSubset DEF AccessInv, OpenOK, KeepsAccess
  <2>3. CASE kernel' = [table |-> NoTable, open |-> Closed]
    <3>1. kernel'.open = Closed /\ ~kernel'.table.on
      BY <2>3 DEF NoTable
    <3> QED
      BY <2>1, <3>1, GrantsSubset DEF AccessInv, OpenOK, KeepsAccess, Closed
  <2> QED
    BY <1>1, <2>2, <2>3 DEF Strangers
<1>2. CASE DaemonEnds
  <2>1. /\ grants' = {} /\ ~fwUp'
        /\ kernel'.open \in {kernel.open, Closed}
    BY <1>2 DEF DaemonEnds, DaemonDies
  <2> QED
    BY <2>1, GrantsGone DEF AccessInv, OpenOK, KeepsAccess, Closed
<1> QED
  BY <1>1, <1>2

LEMMA AccessStep ==
    ASSUME AccessInv, [FwNext]_fwVars
    PROVE  GrantsOK' /\ OpenOK' /\ KeepsAccess
<1>1. CASE EditsRules
  <2>1. PICK looks \in BOOLEAN, how \in Hows, s \in Candidates :
               ApplyCandidate(s, Looks(looks), how)
    BY <1>1 DEF EditsRules
  <2>2. grants' \subseteq grants /\ fwUp' = fwUp
    BY <1>1 DEF EditsRules
  <2> QED
    BY <2>1, <2>2, ApplySpares, SparedIsKept, GrantsSubset DEF AccessInv
<1>2. CASE FirewallStarts
  <2>1. ~fwUp /\ fwUp' /\ grants' = grants /\ grants = {}
    BY <1>2 DEF FirewallStarts, AccessInv, GrantsOK
  <2>2. KeepsAccess
    BY <2>1 DEF KeepsAccess, Covered
  <2>3. CASE \E how \in Hows : \E flags : ApplyCandidate(fw, flags, how)
    BY <2>1, <2>2, <2>3, ApplySpares, GrantsGone DEF AccessInv
  <2>4. CASE kernel' = kernel
    BY <2>1, <2>2, <2>4, SameIsKept, GrantsGone DEF AccessInv
  <2> QED
    BY <1>2, <2>3, <2>4 DEF FirewallStarts
<1>3. CASE LooksOnly
  BY <1>3, SameIsKept, GrantsSubset DEF LooksOnly, AccessInv
<1>4. CASE \E l \in Logins : AsksTicket(l) \/ CreatesTicket(l) \/ FillsTicket(l)
                               \/ GrantFails(l) \/ LogsOut(l) \/ RevokesTickets(l)
  <2>1. kernel' = kernel /\ grants' = grants /\ fwUp' = fwUp
    BY <1>4 DEF AsksTicket, CreatesTicket, FillsTicket, GrantFails, LogsOut, RevokesTickets
  <2> QED
    BY <2>1, SameIsKept, GrantsSubset DEF AccessInv
<1>5. ASSUME NEW l \in Logins, FillPanics(l) PROVE GrantsOK' /\ OpenOK' /\ KeepsAccess
  BY <1>5, SameIsKept, GrantsGone DEF FillPanics, DaemonDies, AccessInv
<1>6. ASSUME NEW l \in Logins, GrantsAccess(l) PROVE GrantsOK' /\ OpenOK' /\ KeepsAccess
  BY <1>6, GrantsAccessKeeps
<1>7. ASSUME NEW l \in Logins, RevokesGrants(l) PROVE GrantsOK' /\ OpenOK' /\ KeepsAccess
  BY <1>7, RevokesGrantsKeeps
<1>8. CASE Ticks
  BY <1>8, TicksKeeps
<1>9. CASE Strangers \/ DaemonEnds
  BY <1>9, OutsideKeeps
<1>10. CASE UNCHANGED fwVars
  BY <1>10, SameIsKept, GrantsSubset DEF fwVars, AccessInv
<1> QED
  BY <1>1, <1>2, <1>3, <1>4, <1>5, <1>6, <1>7, <1>8, <1>9, <1>10 DEF FwNext

(* A source that a session that goes on may use is closed by no change of    *)
(* rules, no new ticket, no end of another session and no start of the       *)
(* daemon, for any number of each (ApplyCandidate, GrantDirectAccess,         *)
(* RevokeSessionGrants): only time, a stranger or a table that lets everyone  *)
(* in may do so.                                                             *)
THEOREM FwGrantsSurvive == FwSpec => GrantsSurvive
<1>1. AccessInv /\ [FwNext]_fwVars => AccessInv'
  BY AccessStep, FwStepInv DEF AccessInv
<1>2. AccessInv /\ [FwNext]_fwVars =>
        [\A a \in Addresses :
           (/\ kernel.open[a] > 1
            /\ Covered(a)
            /\ fwUp'
            /\ kernel'.table.on
            /\ kernel'.table.by = kernel.table.by)
              => kernel'.open[a] > 0]_fwVars
  BY AccessStep DEF KeepsAccess
<1> QED
  BY <1>1, <1>2, AccessInit, PTL DEF FwSpec, GrantsSurvive

-----------------------------------------------------------------------------
(***************************************************************************)
(* Console: for any terminals, sizes of the buffers, lines, sessions,      *)
(* attachments, restarts and lost connections, the console has no holes.   *)
(***************************************************************************)

ConEntry == [sequence : Nat, session : Nat, line : Nat, attach : Nat, reset : BOOLEAN]
Feed(S)  == [queue : Seq(S), live : BOOLEAN, closed : BOOLEAN]

ConTypeOK ==
    /\ host \in [session : Nat, printed : Nat, exited : BOOLEAN, open : BOOLEAN, stuck : BOOLEAN]
    /\ feed \in Feed(Nat)
    /\ link \in {"none", "created", "on"}
    /\ dconsole \in [boot : Nat, sequence : Nat, session : Nat, ring : Seq(ConEntry), attach : Nat]
    /\ watch \in [Terminals -> Feed(ConEntry)]
    /\ term \in [Terminals -> [page : BOOLEAN, on : BOOLEAN, last : Nat, session : Nat,
                               shown : Seq(ConEntry)]]

\* The line n would continue what the ring has of the current attachment.
Follows(n, ring, attach) ==
    \A i \in DOMAIN ring :
        ring[i].attach = attach /\ ring[i].line > 0 /\ (\A k \in (i + 1) .. Len(ring) : ring[k].line = 0)
            => n = ring[i].line + 1

\* The numbers the daemon has still to read have no hole, up to the last one of the host.
FeedShape(sub, printed) ==
    LET q == sub.queue
    IN  /\ \A i \in 1 .. (Len(q) - 1) : q[i] # ExitFrame /\ q[i + 1] # ExitFrame => q[i + 1] = q[i] + 1
        /\ sub.live /\ q # <<>> /\ q[Len(q)] # ExitFrame => q[Len(q)] = printed

\* They continue what it has read, and new lines of the host continue that.
FeedFollows(sub, printed, ring, attach) ==
    LET q == sub.queue
    IN  /\ q # <<>> /\ q[1] # ExitFrame => Follows(q[1], ring, attach)
        /\ sub.live /\ q = <<>> => Follows(printed + 1, ring, attach)

FeedOK ==
    /\ link # "on" => feed = NoFeed
    /\ link = "on" => FeedFollows(feed, host.printed, dconsole.ring, dconsole.attach)
    /\ FeedShape(feed, host.printed)

\* The ring holds the last numbers; only its first entry can be the reset of a session.
RingShape(ring, sequence, life, attach) ==
    /\ ring = <<>> => sequence = 0
    /\ \A i \in DOMAIN ring :
         /\ ring[i].sequence + Len(ring) = sequence + i
         /\ ring[i].attach <= attach
         /\ ring[i].session <= life
         /\ i > 1 => ~ring[i].reset
    /\ ring # <<>> => ring[Len(ring)].session = life

RingOK ==
    /\ RingShape(dconsole.ring, dconsole.sequence, dconsole.session, dconsole.attach)
    /\ dconsole.session <= host.session
    /\ link = "created" => dconsole.session < host.session

\* A queue continues the numbers its terminal has seen, up to the last one while it is live.
QueueOK(sub, last, sequence) ==
    /\ \A i \in DOMAIN sub.queue : sub.queue[i].sequence = last + i
    /\ last + Len(sub.queue) <= sequence
    /\ sub.live => last + Len(sub.queue) = sequence

\* The entries are numbered up to n.
Numbered(q, n) == \A i \in DOMAIN q : q[i].sequence + Len(q) = n + i

\* What is older than the reset of a session is of an older session.
OlderThanReset(number, life, ring) ==
    ring # <<>> /\ ring[1].reset /\ number < ring[1].sequence => life < ring[1].session

\* The screen holds the last numbers the terminal has seen, and its queue the next ones.
TermIs(sub, x, ring, sequence, life) ==
    /\ QueueOK(sub, x.last, sequence)
    /\ ~x.on => sub = NoFeed
    /\ Numbered(x.shown, x.last)
    /\ OlderThanReset(x.last, x.session, ring)
    /\ x.session <= life
    /\ \A i \in DOMAIN sub.queue :
         /\ sub.queue[i].session <= life
         /\ OlderThanReset(sub.queue[i].sequence, sub.queue[i].session, ring)

TermOK(t) == TermIs(watch[t], term[t], dconsole.ring, dconsole.sequence, dconsole.session)

ConInv ==
    /\ ConTypeOK
    /\ StreamInOrder
    /\ FeedOK
    /\ RingOK
    /\ dconsole.boot = 0 => \A t \in Terminals : TermOK(t)

-----------------------------------------------------------------------------
(* Sequences.                                                              *)

LEMMA PickedSuffix ==
    ASSUME NEW S, NEW s \in Seq(S), NEW W, NEW k \in 1 .. Len(s) + 1,
           \A i \in 1 .. Len(s) : s[i] \in W <=> i >= k
    PROVE  Picked(s, W) = SubSeq(s, k, Len(s))
<1> DEFINE
      Body(f) == [i \in 0 .. Len(s) |-> IF i = 0 THEN <<>> ELSE IF s[i] \in W THEN Append(f[i-1], s[i]) ELSE f[i-1]]
      F == CHOOSE f : f = Body(f)
      G == [i \in 0 .. Len(s) |-> SubSeq(s, k, i)]
<1>1. Picked(s, W) = F[Len(s)]
  BY Zenon DEF Picked
<1>2. G = Body(G)
  <2>1. \A i \in 1 .. Len(s) : G[i-1] = SubSeq(s, k, i-1)
    OBVIOUS
  <2>2. G[0] = <<>>
    OBVIOUS
  <2>3. ASSUME NEW i \in 1 .. Len(s), s[i] \in W PROVE SubSeq(s, k, i) = Append(SubSeq(s, k, i-1), s[i])
    BY <2>3
  <2>4. ASSUME NEW i \in 1 .. Len(s), s[i] \notin W PROVE SubSeq(s, k, i) = SubSeq(s, k, i-1)
    BY <2>4
  <2>5. ASSUME NEW i \in 0 .. Len(s)
        PROVE  G[i] = IF i = 0 THEN <<>> ELSE IF s[i] \in W THEN Append(G[i-1], s[i]) ELSE G[i-1]
    <3>1. CASE i = 0
      BY <2>2, <3>1
    <3>2. CASE i # 0
      <4>1. i \in 1 .. Len(s) /\ G[i] = SubSeq(s, k, i)
        BY <3>2
      <4> HIDE DEF G
      <4> QED
        BY <2>1, <2>3, <2>4, <4>1, <3>2
    <3> QED
      BY <3>1, <3>2
  <2> QED
    BY <2>5, Zenon
<1>3. F = Body(F)
  BY <1>2, Zenon
<1> HIDE DEF F, G
<1>4. \A i \in 0 .. Len(s) : F[i] = G[i]
  <2> DEFINE T == {i \in 0 .. Len(s) : F[i] # G[i]}
  <2>1. SUFFICES ASSUME T # {} PROVE FALSE
    OBVIOUS
  <2>2. PICK n \in T : \A m \in T : n <= m
    <3>1. T \in SUBSET Nat
      OBVIOUS
    <3> QED
      BY <2>1, <3>1, LeastNatural, Zenon
  <2>3. n # 0
    BY <1>2, <1>3, <2>2
  <2>4. F[n-1] = G[n-1]
    BY <2>2, <2>3
  <2>5. n \in 0 .. Len(s) /\ F[n] # G[n]
    BY <2>2
  <2>6. \A i \in 0 .. Len(s) : i # 0 => F[i] = IF s[i] \in W THEN Append(F[i-1], s[i]) ELSE F[i-1]
    BY <1>3
  <2>7. \A i \in 0 .. Len(s) : i # 0 => G[i] = IF s[i] \in W THEN Append(G[i-1], s[i]) ELSE G[i-1]
    BY <1>2
  <2> HIDE DEF T
  <2> QED
    BY <2>3, <2>4, <2>5, <2>6, <2>7, Zenon
<1> QED
  BY <1>1, <1>4 DEF G

\* r is q without its first d entries.
IsTail(r, q, d) ==
    /\ d \in 0 .. Len(q)
    /\ Len(r) = Len(q) - d
    /\ \A i \in 1 .. Len(r) : r[i] = q[i + d]

LEMMA WithoutFirst ==
    ASSUME NEW S, NEW q \in Seq(S), NEW d \in Nat, d <= Len(q), NEW r, r = SubSeq(q, d + 1, Len(q))
    PROVE  r \in Seq(S) /\ IsTail(r, q, d)
<1>1. d + 1 \in Nat /\ Len(q) \in Nat /\ d \in 0 .. Len(q)
  OBVIOUS
<1>2. r \in Seq(S)
  BY <1>1
<1>3. Len(r) = Len(q) - d
  BY <1>1
<1>4. \A i \in 1 .. Len(r) : r[i] = q[i + d]
  <2> TAKE i \in 1 .. Len(r)
  <2>1. i \in 1 .. (Len(q) - (d + 1)) + 1
    BY <1>1, <1>3
  <2>2. r[i] = q[(d + 1) + i - 1]
    BY <1>1, <2>1
  <2> QED
    BY <1>1, <2>1, <2>2
<1> QED
  BY <1>1, <1>2, <1>3, <1>4 DEF IsTail

LEMMA KeepDoes ==
    ASSUME NEW S, NEW q \in Seq(S), NEW n \in Nat \ {0}
    PROVE  /\ Keep(q, n) \in Seq(S)
           /\ \E d \in Nat : IsTail(Keep(q, n), q, d) /\ (Len(q) <= n => d = 0) /\ (q # <<>> => d < Len(q))
<1>1. CASE Len(q) > n
  <2> DEFINE d == Len(q) - n
  <2>1. d \in Nat /\ d + 1 \in Nat /\ d < Len(q) /\ Keep(q, n) = SubSeq(q, d + 1, Len(q))
    BY <1>1 DEF Keep
  <2>2. SubSeq(q, d + 1, Len(q)) \in Seq(S) /\ Len(SubSeq(q, d + 1, Len(q))) = Len(q) - d
        /\ \A i \in 1 .. Len(q) - d : SubSeq(q, d + 1, Len(q))[i] = q[i + d]
    BY <2>1
  <2> QED
    BY <1>1, <2>1, <2>2 DEF IsTail
<1>2. CASE ~(Len(q) > n)
  <2>1. Keep(q, n) = SubSeq(q, 1, Len(q)) /\ SubSeq(q, 1, Len(q)) = q
    BY <1>2 DEF Keep
  <2>2. IsTail(q, q, 0) /\ (q # <<>> => 0 < Len(q)) /\ 0 \in Nat
    BY DEF IsTail
  <2>3. Keep(q, n) = q
    BY <2>1
  <2> QED
    BY <2>2, <2>3, Zenon
<1> QED
  BY <1>1, <1>2

LEMMA AppendDoes ==
    ASSUME NEW S, NEW q \in Seq(S), NEW e \in S
    PROVE  /\ Append(q, e) \in Seq(S) /\ Len(Append(q, e)) = Len(q) + 1
           /\ \A i \in 1 .. Len(q) : Append(q, e)[i] = q[i]
           /\ Append(q, e)[Len(q) + 1] = e
           /\ DOMAIN Append(q, e) = 1 .. Len(q) + 1
OBVIOUS

\* r is a ring with the entry e at its end, and without its first d entries.
IsKept(r, q, e, d) ==
    /\ IsTail(r, Append(q, e), d)
    /\ d \in Nat /\ d <= Len(q) /\ Len(r) + d = Len(q) + 1
    /\ r[Len(r)] = e
    /\ \A i \in 1 .. Len(r) : i # Len(r) => i + d \in 1 .. Len(q) /\ r[i] = q[i + d]

LEMMA KeptAppend ==
    ASSUME NEW q \in Seq(ConEntry), NEW e \in ConEntry, NEW r, r = Keep(Append(q, e), ConsoleLines)
    PROVE  /\ r \in Seq(ConEntry) /\ Len(r) \in Nat \ {0} /\ DOMAIN r = 1 .. Len(r)
           /\ \E d \in Nat : IsKept(r, q, e, d)
<1>0. ConsoleLines \in Nat \ {0}
  BY ConsoleConstants
<1>1. /\ Append(q, e) \in Seq(ConEntry) /\ Len(Append(q, e)) = Len(q) + 1
      /\ \A i \in 1 .. Len(q) : Append(q, e)[i] = q[i]
      /\ Append(q, e)[Len(q) + 1] = e /\ Len(q) \in Nat /\ Append(q, e) # <<>>
  OBVIOUS
<1>2. r \in Seq(ConEntry)
  BY <1>0, <1>1, KeepDoes
<1>3. PICK d \in Nat : IsTail(r, Append(q, e), d) /\ d < Len(Append(q, e))
  BY <1>0, <1>1, KeepDoes
<1>4. Len(r) \in Nat /\ DOMAIN r = 1 .. Len(r)
  BY <1>2
<1>5. Len(r) + d = Len(q) + 1 /\ d \in 0 .. Len(q) /\ Len(r) \in Nat \ {0}
  BY <1>1, <1>3, <1>4 DEF IsTail
<1>6. \A i \in 1 .. Len(r) : r[i] = Append(q, e)[i + d]
  BY <1>3 DEF IsTail
<1>7. r[Len(r)] = e
  BY <1>1, <1>5, <1>6
<1>8. ASSUME NEW i \in 1 .. Len(r), i # Len(r) PROVE i + d \in 1 .. Len(q) /\ r[i] = q[i + d]
  <2>1. i + d \in 1 .. Len(q)
    BY <1>1, <1>5, <1>8
  <2> QED
    BY <1>1, <1>6, <2>1
<1>9. IsKept(r, q, e, d)
  BY <1>3, <1>5, <1>7, <1>8 DEF IsKept
<1> QED
  BY <1>2, <1>4, <1>5, <1>9

-----------------------------------------------------------------------------
(* The lines of a ring.                                                    *)

\* StreamInOrder of any ring.
Ordered(ring) ==
    \A i, j \in DOMAIN ring :
        /\ i < j /\ ring[i].attach = ring[j].attach /\ ring[i].line > 0 /\ ring[j].line > 0
        /\ \A k \in (i + 1) .. (j - 1) : ring[k].line = 0
        => ring[j].line = ring[i].line + 1

LEMMA OrderedTail ==
    ASSUME NEW q \in Seq(ConEntry), NEW r \in Seq(ConEntry), NEW d \in Nat, IsTail(r, q, d), Ordered(q)
    PROVE  Ordered(r)
<1> SUFFICES ASSUME NEW i \in DOMAIN r, NEW j \in DOMAIN r,
                    i < j, r[i].attach = r[j].attach, r[i].line > 0, r[j].line > 0,
                    \A k \in (i + 1) .. (j - 1) : r[k].line = 0
             PROVE  r[j].line = r[i].line + 1
  BY DEF Ordered
<1>1. /\ i + d \in DOMAIN q /\ j + d \in DOMAIN q /\ i + d < j + d
      /\ r[i] = q[i + d] /\ r[j] = q[j + d] /\ i \in 1 .. Len(r) /\ j \in 1 .. Len(r)
  BY DEF IsTail
<1>2. ASSUME NEW k \in (i + d + 1) .. (j + d - 1) PROVE q[k].line = 0
  <2>1. k - d \in (i + 1) .. (j - 1) /\ k - d \in 1 .. Len(r) /\ k = (k - d) + d
    BY <1>1, SMTT(30)
  <2>2. q[k] = r[k - d]
    BY <2>1 DEF IsTail
  <2> QED
    BY <2>1, <2>2
<1>3. /\ q[i + d].attach = q[j + d].attach /\ q[i + d].line > 0 /\ q[j + d].line > 0
      /\ \A k \in ((i + d) + 1) .. ((j + d) - 1) : q[k].line = 0
  BY <1>1, <1>2
<1>4. q[j + d].line = q[i + d].line + 1
  BY <1>1, <1>3, Zenon DEF Ordered
<1> QED
  BY <1>1, <1>4

LEMMA OrderedAppend ==
    ASSUME NEW q \in Seq(ConEntry), NEW e \in ConEntry, Ordered(q),
           e.line = 0 \/ Follows(e.line, q, e.attach)
    PROVE  Ordered(Append(q, e))
<1> DEFINE r == Append(q, e)
<1>1. /\ r \in Seq(ConEntry) /\ Len(r) = Len(q) + 1 /\ \A i \in 1 .. Len(q) : r[i] = q[i]
      /\ r[Len(q) + 1] = e /\ DOMAIN r = 1 .. Len(q) + 1 /\ DOMAIN q = 1 .. Len(q) /\ Len(q) \in Nat
  BY AppendDoes
<1> HIDE DEF r
<1> SUFFICES ASSUME NEW i \in DOMAIN r, NEW j \in DOMAIN r,
                    i < j, r[i].attach = r[j].attach, r[i].line > 0, r[j].line > 0,
                    \A k \in (i + 1) .. (j - 1) : r[k].line = 0
             PROVE  r[j].line = r[i].line + 1
  BY DEF Ordered, r
<1>2. i \in 1 .. Len(q) /\ r[i] = q[i]
  BY <1>1
<1>3. CASE j = Len(q) + 1
  <2>0. e.line \in Nat
    BY DEF ConEntry
  <2>1. r[j] = e /\ e.line # 0
    BY <1>1, <1>3, <2>0
  <2>2. \A k \in (i + 1) .. Len(q) : q[k].line = 0
    BY <1>1, <1>2, <1>3
  <2> QED
    BY <1>1, <1>2, <2>1, <2>2 DEF Follows
<1>4. CASE j # Len(q) + 1
  <2>1. j \in 1 .. Len(q) /\ r[j] = q[j]
    BY <1>1, <1>4
  <2>2. \A k \in (i + 1) .. (j - 1) : q[k].line = 0
    BY <1>1, <1>2, <2>1
  <2> QED
    BY <1>1, <1>2, <2>1, <2>2 DEF Ordered
<1> QED
  BY <1>3, <1>4

LEMMA FollowsTail ==
    ASSUME NEW q \in Seq(ConEntry), NEW r \in Seq(ConEntry), NEW d \in Nat, IsTail(r, q, d),
           NEW n, NEW a, Follows(n, q, a)
    PROVE  Follows(n, r, a)
<1> SUFFICES ASSUME NEW i \in DOMAIN r, r[i].attach = a, r[i].line > 0,
                    \A k \in (i + 1) .. Len(r) : r[k].line = 0
             PROVE  n = r[i].line + 1
  BY DEF Follows
<1>1. /\ i + d \in DOMAIN q /\ r[i] = q[i + d] /\ i \in 1 .. Len(r) /\ Len(q) = Len(r) + d /\ Len(r) \in Nat
  BY DEF IsTail
<1>2. ASSUME NEW k \in (i + d + 1) .. Len(q) PROVE q[k].line = 0
  <2>1. k - d \in (i + 1) .. Len(r) /\ k - d \in 1 .. Len(r) /\ k = (k - d) + d
    BY <1>1
  <2>2. q[k] = r[k - d]
    BY <2>1 DEF IsTail
  <2> QED
    BY <2>1, <2>2
<1> QED
  BY <1>1, <1>2 DEF Follows

\* A line of the daemon's own changes nothing of what may follow; a line of the process is
\* followed by the next one.
LEMMA FollowsAppend ==
    ASSUME NEW q \in Seq(ConEntry), NEW e \in ConEntry
    PROVE  /\ \A n, a : e.line = 0 /\ Follows(n, q, a) => Follows(n, Append(q, e), a)
           /\ e.line > 0 => Follows(e.line + 1, Append(q, e), e.attach)
<1> DEFINE r == Append(q, e)
<1>1. /\ r \in Seq(ConEntry) /\ Len(r) = Len(q) + 1 /\ \A i \in 1 .. Len(q) : r[i] = q[i]
      /\ r[Len(q) + 1] = e /\ DOMAIN r = 1 .. Len(q) + 1 /\ DOMAIN q = 1 .. Len(q) /\ Len(q) \in Nat
  BY AppendDoes
<1> HIDE DEF r
<1>2. ASSUME NEW n, NEW a, e.line = 0, Follows(n, q, a) PROVE Follows(n, r, a)
  <2> SUFFICES ASSUME NEW i \in DOMAIN r, r[i].attach = a, r[i].line > 0,
                      \A k \in (i + 1) .. Len(r) : r[k].line = 0
               PROVE  n = r[i].line + 1
    BY DEF Follows
  <2>1. i \in 1 .. Len(q) /\ r[i] = q[i] /\ \A k \in (i + 1) .. Len(q) : q[k].line = 0
    BY <1>1, <1>2
  <2> QED
    BY <1>1, <1>2, <2>1 DEF Follows
<1>3. ASSUME e.line > 0 PROVE Follows(e.line + 1, r, e.attach)
  <2> SUFFICES ASSUME NEW i \in DOMAIN r, r[i].attach = e.attach, r[i].line > 0,
                      \A k \in (i + 1) .. Len(r) : r[k].line = 0
               PROVE  e.line + 1 = r[i].line + 1
    BY DEF Follows
  <2>1. e.line \in Nat /\ e.line # 0
    BY <1>3 DEF ConEntry
  <2>2. i = Len(q) + 1
    <3>1. CASE i \in 1 .. Len(q)
      <4>1. Len(q) + 1 \in (i + 1) .. Len(r)
        BY <1>1, <3>1
      <4> QED
        BY <1>1, <2>1, <4>1
    <3> QED
      BY <1>1, <3>1
  <2> QED
    BY <1>1, <2>2
<1> QED
  BY <1>2, <1>3 DEF r

-----------------------------------------------------------------------------
(* Numbers.                                                                *)

ConsoleType == [boot : Nat, sequence : Nat, session : Nat, ring : Seq(ConEntry), attach : Nat]
TermType    == [page : BOOLEAN, on : BOOLEAN, last : Nat, session : Nat, shown : Seq(ConEntry)]

LEMMA OfferType ==
    ASSUME NEW S, NEW sub \in Feed(S), NEW x \in S
    PROVE  /\ Offer(sub, x) \in Feed(S)
           /\ ~sub.live => Offer(sub, x) = sub
           /\ sub.live /\ Offer(sub, x).live =>
                 Offer(sub, x).queue = Append(sub.queue, x)
           /\ Offer(sub, x).queue = sub.queue \/ Offer(sub, x).queue = Append(sub.queue, x)
           /\ ~Offer(sub, x).live => Offer(sub, x).queue = sub.queue
<1>1. Append(sub.queue, x) \in Seq(S) /\ sub.live \in BOOLEAN
  BY DEF Feed
<1>2. CASE ~sub.live
  <2>1. Offer(sub, x) = sub
    BY <1>2 DEF Offer
  <2> QED
    BY <1>2, <2>1
<1>3. CASE sub.live /\ Len(sub.queue) < LineBuffer
  <2>1. Offer(sub, x) = [sub EXCEPT !.queue = Append(@, x)]
    BY <1>3 DEF Offer
  <2> QED
    BY <1>1, <1>3, <2>1 DEF Feed
<1>4. CASE sub.live /\ ~(Len(sub.queue) < LineBuffer)
  <2>1. Offer(sub, x) = [sub EXCEPT !.live = FALSE, !.closed = TRUE]
    BY <1>4 DEF Offer
  <2> QED
    BY <1>1, <1>4, <2>1 DEF Feed
<1> QED
  BY <1>1, <1>2, <1>3, <1>4

LEMMA OfferNumbers ==
    ASSUME NEW sub \in Feed(ConEntry), NEW last \in Nat, NEW n \in Nat, QueueOK(sub, last, n),
           NEW e \in ConEntry, e.sequence = n + 1
    PROVE  /\ Offer(sub, e) \in Feed(ConEntry)
           /\ QueueOK(Offer(sub, e), last, n + 1)
           /\ \A i \in DOMAIN Offer(sub, e).queue :
                 \/ i \in DOMAIN sub.queue /\ Offer(sub, e).queue[i] = sub.queue[i]
                 \/ Offer(sub, e).queue[i] = e
<1> DEFINE o == Offer(sub, e)
<1>1. /\ o \in Feed(ConEntry) /\ (~sub.live => o = sub)
      /\ sub.live /\ o.live => o.queue = Append(sub.queue, e)
      /\ o.queue = sub.queue \/ o.queue = Append(sub.queue, e)
      /\ ~o.live => o.queue = sub.queue
  BY OfferType
<1>2. sub.queue \in Seq(ConEntry) /\ sub.live \in BOOLEAN /\ o.live \in BOOLEAN /\ Len(sub.queue) \in Nat
  BY <1>1 DEF Feed
<1>3. /\ Append(sub.queue, e) \in Seq(ConEntry) /\ Len(Append(sub.queue, e)) = Len(sub.queue) + 1
      /\ \A i \in 1 .. Len(sub.queue) : Append(sub.queue, e)[i] = sub.queue[i]
      /\ Append(sub.queue, e)[Len(sub.queue) + 1] = e
      /\ DOMAIN Append(sub.queue, e) = 1 .. Len(sub.queue) + 1
      /\ DOMAIN sub.queue = 1 .. Len(sub.queue)
  BY <1>2, AppendDoes
<1> HIDE DEF o
<1>4. CASE o.live /\ sub.live
  <2>1. o.queue = Append(sub.queue, e) /\ last + Len(sub.queue) = n
    BY <1>1, <1>2, <1>4 DEF QueueOK
  <2>2. QueueOK(o, last, n + 1)
    <3>1. \A i \in DOMAIN o.queue : o.queue[i].sequence = last + i
      <4> TAKE i \in DOMAIN o.queue
      <4>1. CASE i = Len(sub.queue) + 1
        <5>1. o.queue[i] = e
          BY <1>3, <2>1, <4>1
        <5> QED
          BY <1>2, <2>1, <4>1, <5>1
      <4>2. CASE i # Len(sub.queue) + 1
        <5>1. i \in DOMAIN sub.queue /\ o.queue[i] = sub.queue[i]
          BY <1>2, <1>3, <2>1, <4>2
        <5> QED
          BY <5>1 DEF QueueOK
      <4> QED
        BY <4>1, <4>2
    <3>2. last + Len(o.queue) = n + 1
      <4>1. Len(o.queue) = Len(sub.queue) + 1 /\ last + Len(sub.queue) = n
        BY <1>3, <2>1
      <4> QED
        BY <1>2, <4>1
    <3> QED
      BY <1>2, <3>1, <3>2 DEF QueueOK
  <2> QED
    BY <1>1, <1>2, <1>3, <2>1, <2>2 DEF o
<1>5. CASE ~(o.live /\ sub.live)
  <2>1. o.queue = sub.queue /\ ~o.live
    BY <1>1, <1>2, <1>5
  <2>2. QueueOK(o, last, n + 1)
    BY <1>2, <2>1 DEF QueueOK
  <2> QED
    BY <1>1, <1>2, <1>3, <2>1, <2>2 DEF o
<1> QED
  BY <1>4, <1>5

LEMMA Shifted ==
    ASSUME NEW x \in Nat, NEW long \in Nat, NEW short \in Nat, NEW n \in Nat, NEW i \in Nat, NEW d \in Nat,
           x + long = n + (i + d), short + d = long + 1
    PROVE  x + short = n + 1 + i
OBVIOUS

\* What a ring keeps with an entry more, cut to its length.
Grows(r, ring, e) ==
    /\ \A m, s : OlderThanReset(m, s, ring) => OlderThanReset(m, s, r)
    /\ OlderThanReset(e.sequence, e.session, r)
    /\ \A m : e.line = 0 /\ Follows(m, ring, e.attach) => Follows(m, r, e.attach)
    /\ e.line > 0 => Follows(e.line + 1, r, e.attach)

LEMMA RingGrows ==
    ASSUME NEW ring \in Seq(ConEntry), NEW e \in ConEntry, NEW n \in Nat, NEW life \in Nat,
           NEW attach \in Nat, RingShape(ring, n, life, attach), Ordered(ring),
           e.sequence = n + 1, ~e.reset, e.session >= life, e.attach >= attach,
           e.line = 0 \/ Follows(e.line, ring, e.attach),
           NEW r, r = Keep(Append(ring, e), ConsoleLines)
    PROVE  /\ r \in Seq(ConEntry) /\ Ordered(r)
           /\ RingShape(r, e.sequence, e.session, e.attach)
           /\ Grows(r, ring, e)
<1>0. ConsoleLines \in Nat \ {0}
  BY ConsoleConstants
<1>1. e.session \in Nat /\ e.attach \in Nat /\ e.line \in Nat /\ e.sequence \in Nat
  BY DEF ConEntry
<1>2. r \in Seq(ConEntry) /\ Len(r) \in Nat \ {0} /\ DOMAIN r = 1 .. Len(r)
  BY KeptAppend
<1>a. PICK d \in Nat : IsKept(r, ring, e, d)
  BY KeptAppend
<1>3. /\ IsTail(r, Append(ring, e), d)
      /\ d \in Nat /\ d <= Len(ring) /\ Len(r) + d = Len(ring) + 1
      /\ r[Len(r)] = e
      /\ \A i \in 1 .. Len(r) : i # Len(r) => i + d \in 1 .. Len(ring) /\ r[i] = ring[i + d]
  BY <1>a DEF IsKept
<1>4. Append(ring, e) \in Seq(ConEntry) /\ Len(ring) \in Nat /\ DOMAIN ring = 1 .. Len(ring) /\ d \in Nat
  BY AppendDoes
<1>5. Ordered(r)
  <2>1. Ordered(Append(ring, e))
    BY OrderedAppend
  <2> QED
    BY <1>2, <1>3, <1>4, <2>1, OrderedTail
<1>6. RingShape(r, n + 1, e.session, e.attach)
  <2>1. ASSUME NEW i \in DOMAIN r
        PROVE  /\ r[i].sequence + Len(r) = n + 1 + i
               /\ r[i].attach <= e.attach
               /\ r[i].session <= e.session
               /\ i > 1 => ~r[i].reset
    <3>0. i \in 1 .. Len(r) /\ i \in Nat /\ d \in Nat
      BY <1>2, <1>4
    <3>a. Len(r) + d = Len(ring) + 1 /\ r[Len(r)] = e
      BY <1>3
    <3>1. CASE i = Len(r)
      <4>1. r[i] = e
        BY <3>a, <3>1
      <4> QED
        BY <1>1, <1>2, <3>0, <3>1, <4>1
    <3>2. CASE i # Len(r)
      <4>1. i + d \in DOMAIN ring /\ r[i] = ring[i + d]
        BY <1>3, <1>4, <3>0, <3>2
      <4>2. /\ ring[i + d].sequence + Len(ring) = n + (i + d)
            /\ ring[i + d].attach <= attach
            /\ ring[i + d].session <= life
            /\ i + d > 1 => ~ring[i + d].reset
        BY <4>1 DEF RingShape
      <4>3. ring[i + d] \in ConEntry
        BY <4>1
      <4>4. ring[i + d].sequence \in Nat /\ ring[i + d].attach \in Nat /\ ring[i + d].session \in Nat
        BY <4>3 DEF ConEntry
      <4>5. r[i].sequence + Len(r) = n + 1 + i
        <5>1. r[i].sequence = ring[i + d].sequence /\ ring[i + d].sequence + Len(ring) = n + (i + d)
          BY <4>1, <4>2
        <5>2. Len(r) \in Nat /\ Len(ring) \in Nat
          BY <1>2, <1>4
        <5>3. Len(r) + d = Len(ring) + 1
          BY <3>a
        <5>4. PICK x \in Nat : x = ring[i + d].sequence
          BY <4>4
        <5>5. x + Len(ring) = n + (i + d) /\ r[i].sequence = x
          BY <5>1, <5>4
        <5>6. x + Len(r) = n + 1 + i
          BY <3>0, <5>2, <5>3, <5>5, Shifted, SMTT(30)
        <5> QED
          BY <5>5, <5>6
      <4>6. r[i].attach <= e.attach /\ r[i].session <= e.session
        <5>1. PICK x \in Nat, y \in Nat : x = ring[i + d].attach /\ y = ring[i + d].session
          BY <4>4
        <5>2. r[i].attach = x /\ r[i].session = y /\ x <= attach /\ y <= life
          BY <4>1, <4>2, <5>1
        <5>3. e.attach \in Nat /\ e.session \in Nat
          BY <1>1
        <5>4. x <= e.attach /\ y <= e.session
          BY <5>1, <5>2, <5>3
        <5> QED
          BY <5>2, <5>4
      <4>7. i > 1 => ~r[i].reset
        BY <3>0, <4>1, <4>2
      <4> QED
        BY <4>5, <4>6, <4>7
    <3> QED
      BY <3>1, <3>2
  <2>2. r # <<>> /\ r[Len(r)].session = e.session
    BY <1>2, <1>3
  <2> QED
    BY <2>1, <2>2 DEF RingShape
<1>7. \A m, s : OlderThanReset(m, s, ring) => OlderThanReset(m, s, r)
  <2>1. ASSUME r[1].reset PROVE ring # <<>> /\ r[1] = ring[1]
    <3>0. r[Len(r)] = e
      BY <1>3
    <3>1. 1 \in 1 .. Len(r) /\ 1 # Len(r)
      BY <1>2, <2>1, <3>0
    <3>2. 1 + d \in 1 .. Len(ring) /\ r[1] = ring[1 + d]
      BY <1>3, <3>1
    <3>3. ~(1 + d > 1)
      BY <1>4, <2>1, <3>2 DEF RingShape
    <3>4. d = 0
      BY <1>4, <3>3
    <3> QED
      BY <1>4, <3>2, <3>4
  <2> QED
    BY <2>1 DEF OlderThanReset
<1>8. OlderThanReset(e.sequence, e.session, r)
  <2>1. 1 \in DOMAIN r /\ r[1] \in ConEntry
    BY <1>2
  <2>2. r[1].sequence + Len(r) = n + 1 + 1 /\ r[1].sequence \in Nat
    BY <1>6, <2>1 DEF RingShape, ConEntry
  <2>3. ~(e.sequence < r[1].sequence)
    BY <1>2, <2>2
  <2> QED
    BY <2>3 DEF OlderThanReset
<1>9. ASSUME NEW m, e.line = 0, Follows(m, ring, e.attach) PROVE Follows(m, r, e.attach)
  <2>1. Follows(m, Append(ring, e), e.attach)
    BY <1>9, FollowsAppend
  <2> QED
    BY <1>2, <1>3, <1>4, <2>1, FollowsTail
<1>10. ASSUME e.line > 0 PROVE Follows(e.line + 1, r, e.attach)
  <2>1. Follows(e.line + 1, Append(ring, e), e.attach)
    BY <1>10, FollowsAppend
  <2> QED
    BY <1>2, <1>3, <1>4, <2>1, FollowsTail
<1> QED
  BY <1>2, <1>5, <1>6, <1>7, <1>8, <1>9, <1>10 DEF Grows

\* An entry is published: the ring, the queues of the terminals, and what may follow.
LEMMA PublishInv ==
    ASSUME ConInv, NEW e \in ConEntry, e.sequence = dconsole.sequence + 1, ~e.reset,
           e.session >= dconsole.session, e.session <= host.session, e.attach >= dconsole.attach,
           host'.session = host.session, link' = "created" => link = "created" /\ e.session = dconsole.session,
           e.line = 0 \/ Follows(e.line, dconsole.ring, e.attach),
           dconsole' = [boot |-> dconsole.boot, sequence |-> e.sequence, session |-> e.session,
                        ring |-> Keep(Append(dconsole.ring, e), ConsoleLines), attach |-> e.attach],
           watch' = [t \in Terminals |-> Offer(watch[t], e)], UNCHANGED term
    PROVE  /\ dconsole' \in ConsoleType
           /\ watch' \in [Terminals -> Feed(ConEntry)]
           /\ StreamInOrder' /\ RingOK'
           /\ dconsole'.boot = 0 => \A t \in Terminals : TermOK(t)'
           /\ \A m : e.line = 0 /\ Follows(m, dconsole.ring, e.attach) => Follows(m, dconsole'.ring, dconsole'.attach)
           /\ e.line > 0 => Follows(e.line + 1, dconsole'.ring, dconsole'.attach)
<1>0. /\ dconsole \in ConsoleType /\ host.session \in Nat
      /\ watch \in [Terminals -> Feed(ConEntry)] /\ term \in [Terminals -> TermType]
  BY DEF ConInv, ConTypeOK, ConsoleType, TermType
<1>1. /\ dconsole.ring \in Seq(ConEntry) /\ dconsole.sequence \in Nat /\ dconsole.session \in Nat
      /\ dconsole.attach \in Nat /\ dconsole.boot \in Nat
      /\ e.session \in Nat /\ e.attach \in Nat /\ e.line \in Nat /\ e.sequence \in Nat
  BY <1>0 DEF ConsoleType, ConEntry
<1>2. /\ Ordered(dconsole.ring) /\ RingOK
      /\ RingShape(dconsole.ring, dconsole.sequence, dconsole.session, dconsole.attach)
  BY DEF ConInv, StreamInOrder, Ordered, RingOK
<1>3. /\ dconsole'.ring = Keep(Append(dconsole.ring, e), ConsoleLines)
      /\ dconsole'.sequence = dconsole.sequence + 1 /\ dconsole'.session = e.session /\ dconsole'.attach = e.attach
      /\ dconsole'.boot = dconsole.boot
  OBVIOUS
<1>4. PICK r : r = dconsole'.ring
  OBVIOUS
<1>a. /\ r \in Seq(ConEntry) /\ Ordered(r)
      /\ RingShape(r, e.sequence, e.session, e.attach)
      /\ Grows(r, dconsole.ring, e)
  <2>1. r = Keep(Append(dconsole.ring, e), ConsoleLines)
    BY <1>3, <1>4
  <2> QED
    BY <1>1, <1>2, <2>1, RingGrows
<1>5. /\ r \in Seq(ConEntry) /\ Ordered(r)
      /\ RingShape(r, dconsole.sequence + 1, e.session, e.attach)
      /\ \A m, s : OlderThanReset(m, s, dconsole.ring) => OlderThanReset(m, s, r)
      /\ OlderThanReset(e.sequence, e.session, r)
      /\ \A m : e.line = 0 /\ Follows(m, dconsole.ring, e.attach) => Follows(m, r, e.attach)
      /\ e.line > 0 => Follows(e.line + 1, r, e.attach)
  BY <1>a DEF Grows
<1>6. dconsole' \in ConsoleType
  BY <1>1, <1>3, <1>4, <1>5 DEF ConsoleType
<1>7. StreamInOrder' /\ RingOK'
  BY <1>1, <1>2, <1>3, <1>4, <1>5 DEF StreamInOrder, Ordered, RingOK
<1>8. watch' \in [Terminals -> Feed(ConEntry)]
  BY <1>0, OfferType
<1>9. ASSUME dconsole'.boot = 0, NEW t \in Terminals PROVE TermOK(t)'
  <2>1. TermOK(t) /\ watch[t] \in Feed(ConEntry) /\ term[t] \in TermType /\ watch'[t] = Offer(watch[t], e)
    BY <1>0, <1>3, <1>9 DEF ConInv
  <2>2. /\ QueueOK(watch'[t], term[t].last, dconsole.sequence + 1)
        /\ \A i \in DOMAIN watch'[t].queue :
                 \/ i \in DOMAIN watch[t].queue /\ watch'[t].queue[i] = watch[t].queue[i]
                 \/ watch'[t].queue[i] = e
    BY <1>1, <2>1, OfferNumbers DEF TermOK, TermIs, TermType
  <2>3. ~term[t].on => watch'[t] = NoFeed
    <3>1. ~NoFeed.live
      BY DEF NoFeed
    <3> QED
      BY <2>1, <3>1, OfferType DEF TermOK, TermIs
  <2>4. ASSUME NEW i \in DOMAIN watch'[t].queue
        PROVE  /\ watch'[t].queue[i].session <= e.session
               /\ OlderThanReset(watch'[t].queue[i].sequence, watch'[t].queue[i].session, r)
    <3>1. CASE watch'[t].queue[i] = e
      BY <1>1, <1>5, <3>1
    <3>2. CASE i \in DOMAIN watch[t].queue /\ watch'[t].queue[i] = watch[t].queue[i]
      <4>1. /\ watch[t].queue[i].session <= dconsole.session
            /\ OlderThanReset(watch[t].queue[i].sequence, watch[t].queue[i].session, dconsole.ring)
        BY <2>1, <3>2 DEF TermOK, TermIs
      <4>2. watch[t].queue[i].session \in Nat
        <5>1. watch[t].queue[i] \in ConEntry
          BY <2>1, <3>2 DEF Feed
        <5> QED
          BY <5>1 DEF ConEntry
      <4> QED
        BY <1>1, <1>5, <3>2, <4>1, <4>2
    <3> QED
      BY <2>2, <3>1, <3>2
  <2>5. OlderThanReset(term[t].last, term[t].session, r) /\ term[t].session <= e.session
    <3>1. OlderThanReset(term[t].last, term[t].session, dconsole.ring) /\ term[t].session <= dconsole.session
      BY <2>1 DEF TermOK, TermIs
    <3>2. term[t].session \in Nat
      BY <2>1 DEF TermType
    <3> QED
      BY <1>1, <1>5, <3>1, <3>2
  <2> QED
    BY <1>3, <1>4, <2>1, <2>2, <2>3, <2>4, <2>5 DEF TermOK, TermIs
<1> QED
  BY <1>3, <1>4, <1>5, <1>6, <1>7, <1>8, <1>9

-----------------------------------------------------------------------------
(* The host and what the daemon has still to read of it.                   *)

HostType == [session : Nat, printed : Nat, exited : BOOLEAN, open : BOOLEAN, stuck : BOOLEAN]

\* The next line of the host, or its exit frame, is offered to the daemon.
LEMMA OfferFeed ==
    ASSUME NEW sub \in Feed(Nat), NEW printed \in Nat, FeedShape(sub, printed),
           NEW ring, NEW attach, FeedFollows(sub, printed, ring, attach)
    PROVE  /\ Offer(sub, printed + 1) \in Feed(Nat)
           /\ FeedShape(Offer(sub, printed + 1), printed + 1)
           /\ FeedFollows(Offer(sub, printed + 1), printed + 1, ring, attach)
<1> DEFINE o == Offer(sub, printed + 1)
           x == printed + 1
<1>0. x \in Nat /\ x # ExitFrame
  BY DEF ExitFrame
<1>1. /\ o \in Feed(Nat) /\ (~sub.live => o = sub)
      /\ sub.live /\ o.live => o.queue = Append(sub.queue, x)
      /\ o.queue = sub.queue \/ o.queue = Append(sub.queue, x)
      /\ ~o.live => o.queue = sub.queue
  BY OfferType
<1>2. sub.queue \in Seq(Nat) /\ sub.live \in BOOLEAN /\ o.live \in BOOLEAN /\ Len(sub.queue) \in Nat
  BY <1>1 DEF Feed
<1> HIDE DEF o
<1>3. CASE ~o.live
  <2>1. o.queue = sub.queue
    BY <1>1, <1>3
  <2> QED
    BY <1>1, <1>2, <1>3, <2>1 DEF FeedShape, FeedFollows, o
<1>4. CASE o.live
  <2>1. sub.live /\ o.queue = Append(sub.queue, x)
    BY <1>1, <1>2, <1>4
  <2>2. /\ Len(o.queue) = Len(sub.queue) + 1 /\ o.queue[Len(sub.queue) + 1] = x
        /\ \A i \in 1 .. Len(sub.queue) : o.queue[i] = sub.queue[i]
        /\ o.queue # <<>>
    BY <1>0, <1>2, <2>1, AppendDoes
  <2>3. ASSUME NEW i \in 1 .. (Len(o.queue) - 1), o.queue[i] # ExitFrame, o.queue[i + 1] # ExitFrame
        PROVE  o.queue[i + 1] = o.queue[i] + 1
    <3>1. i \in 1 .. Len(sub.queue) /\ o.queue[i] = sub.queue[i]
      BY <1>2, <2>2
    <3>2. CASE i = Len(sub.queue)
      <4>1. sub.queue # <<>> /\ sub.queue[Len(sub.queue)] # ExitFrame
        BY <1>2, <2>3, <3>1, <3>2
      <4>2. sub.queue[Len(sub.queue)] = printed
        BY <2>1, <4>1 DEF FeedShape
      <4> QED
        BY <2>2, <3>1, <3>2, <4>2
    <3>3. CASE i # Len(sub.queue)
      <4>1. i + 1 \in 1 .. Len(sub.queue) /\ o.queue[i + 1] = sub.queue[i + 1] /\ i \in 1 .. (Len(sub.queue) - 1)
        <5>1. PICK n \in Nat : n = Len(sub.queue)
          BY <1>2
        <5>2. i \in 1 .. n /\ i # n
          BY <3>1, <3>3, <5>1
        <5>3. i + 1 \in 1 .. n /\ i \in 1 .. (n - 1)
          BY <5>1, <5>2
        <5>4. \A k \in 1 .. n : o.queue[k] = sub.queue[k]
          BY <2>2, <5>1
        <5> QED
          BY <5>1, <5>3, <5>4
      <4>2. sub.queue[i] # ExitFrame /\ sub.queue[i + 1] # ExitFrame => sub.queue[i + 1] = sub.queue[i] + 1
        BY <4>1 DEF FeedShape
      <4> QED
        BY <2>3, <3>1, <4>1, <4>2
    <3> QED
      BY <3>2, <3>3
  <2>4. FeedShape(o, printed + 1)
    <3>1. o.queue[Len(o.queue)] = x
      BY <2>2
    <3> QED
      BY <2>3, <3>1 DEF FeedShape
  <2>5. FeedFollows(o, printed + 1, ring, attach)
    <3>1. CASE sub.queue = <<>>
      <4>1. o.queue[1] = x
        BY <2>2, <3>1
      <4>2. Follows(printed + 1, ring, attach)
        BY <2>1, <3>1 DEF FeedFollows
      <4> QED
        BY <2>2, <4>1, <4>2 DEF FeedFollows
    <3>2. CASE sub.queue # <<>>
      <4>1. o.queue[1] = sub.queue[1]
        BY <1>2, <2>2, <3>2
      <4>2. sub.queue[1] # ExitFrame => Follows(sub.queue[1], ring, attach)
        BY <3>2 DEF FeedFollows
      <4> QED
        BY <2>2, <4>1, <4>2 DEF FeedFollows
    <3> QED
      BY <3>1, <3>2
  <2> QED
    BY <1>1, <2>4, <2>5 DEF o
<1> QED
  BY <1>3, <1>4

LEMMA EndFeed ==
    ASSUME NEW sub \in Feed(Nat), NEW printed \in Nat, FeedShape(sub, printed), sub.live,
           NEW ring, NEW attach, FeedFollows(sub, printed, ring, attach),
           NEW f, f = [Offer(sub, ExitFrame) EXCEPT !.live = FALSE, !.closed = TRUE]
    PROVE  /\ f \in Feed(Nat) /\ FeedShape(f, printed)
           /\ FeedFollows(f, printed, ring, attach)
<1> DEFINE o == Offer(sub, ExitFrame)
<1>0. ExitFrame \in Nat
  BY DEF ExitFrame
<1>1. o \in Feed(Nat) /\ (o.queue = sub.queue \/ o.queue = Append(sub.queue, ExitFrame))
  BY <1>0, OfferType
<1> HIDE DEF o
<1>2. f \in Feed(Nat) /\ f.queue = o.queue /\ ~f.live
  BY <1>1 DEF Feed, o
<1>3. sub.queue \in Seq(Nat) /\ Len(sub.queue) \in Nat
  BY DEF Feed
<1>4. CASE f.queue = sub.queue
  BY <1>2, <1>4 DEF FeedShape, FeedFollows
<1>5. CASE f.queue = Append(sub.queue, ExitFrame)
  <2>1. /\ Len(f.queue) = Len(sub.queue) + 1 /\ f.queue[Len(sub.queue) + 1] = ExitFrame
        /\ \A i \in 1 .. Len(sub.queue) : f.queue[i] = sub.queue[i]
    BY <1>0, <1>3, <1>5, AppendDoes
  <2>2. FeedShape(f, printed)
    <3>1. ASSUME NEW i \in 1 .. (Len(f.queue) - 1), f.queue[i] # ExitFrame, f.queue[i + 1] # ExitFrame
          PROVE  f.queue[i + 1] = f.queue[i] + 1
      <4>1. i \in 1 .. (Len(sub.queue) - 1) /\ f.queue[i] = sub.queue[i] /\ f.queue[i + 1] = sub.queue[i + 1]
        <5>1. PICK n \in Nat : n = Len(sub.queue)
          BY <1>3
        <5>2. i \in 1 .. n /\ i + 1 \in 1 .. n + 1
          BY <2>1, <5>1
        <5>3. i # n
          BY <2>1, <3>1, <5>1
        <5>4. i + 1 \in 1 .. n /\ i \in 1 .. (n - 1)
          BY <5>1, <5>2, <5>3
        <5>5. \A k \in 1 .. n : f.queue[k] = sub.queue[k]
          BY <2>1, <5>1
        <5> QED
          BY <5>1, <5>4, <5>5
      <4>2. sub.queue[i] # ExitFrame /\ sub.queue[i + 1] # ExitFrame => sub.queue[i + 1] = sub.queue[i] + 1
        BY <4>1 DEF FeedShape
      <4> QED
        BY <3>1, <4>1, <4>2
    <3> QED
      BY <1>2, <3>1 DEF FeedShape
  <2>3. FeedFollows(f, printed, ring, attach)
    <3>1. CASE sub.queue = <<>>
      <4>1. f.queue[1] = ExitFrame
        BY <2>1, <3>1
      <4> QED
        BY <1>2, <4>1 DEF FeedFollows
    <3>2. CASE sub.queue # <<>>
      <4>1. f.queue[1] = sub.queue[1]
        BY <1>3, <2>1, <3>2
      <4>2. sub.queue[1] # ExitFrame => Follows(sub.queue[1], ring, attach)
        BY <3>2 DEF FeedFollows
      <4> QED
        BY <1>2, <4>1, <4>2 DEF FeedFollows
    <3> QED
      BY <3>1, <3>2
  <2> QED
    BY <1>2, <2>2, <2>3
<1> QED
  BY <1>1, <1>2, <1>4, <1>5

\* What is read from a queue: the rest continues it.
LEMMA ReadFeed ==
    ASSUME NEW sub \in Feed(Nat), NEW printed \in Nat, FeedShape(sub, printed), sub.queue # <<>>,
           NEW x, x = sub.queue[1], x # ExitFrame,
           NEW ring, NEW attach, Follows(x + 1, ring, attach),
           NEW f, f = [sub EXCEPT !.queue = Tail(@)]
    PROVE  /\ f \in Feed(Nat) /\ FeedShape(f, printed) /\ FeedFollows(f, printed, ring, attach)
<1>1. sub.queue \in Seq(Nat) /\ Len(sub.queue) \in Nat \ {0}
  BY DEF Feed
<1>2. /\ Tail(sub.queue) \in Seq(Nat) /\ Len(Tail(sub.queue)) = Len(sub.queue) - 1
      /\ \A i \in 1 .. (Len(sub.queue) - 1) : Tail(sub.queue)[i] = sub.queue[i + 1]
  BY <1>1
<1>3. f \in Feed(Nat) /\ f.queue = Tail(sub.queue) /\ f.live = sub.live
  BY <1>2 DEF Feed
<1>a. PICK n \in Nat : Len(sub.queue) = n + 1
  <2>1. PICK m \in Nat \ {0} : m = Len(sub.queue)
    BY <1>1
  <2>2. m - 1 \in Nat /\ m = (m - 1) + 1
    OBVIOUS
  <2> QED
    BY <2>1, <2>2
<1>b. Len(f.queue) = n /\ \A k \in 1 .. n : f.queue[k] = sub.queue[k + 1]
  <2>1. Len(sub.queue) - 1 = n
    BY <1>a
  <2> QED
    BY <1>2, <1>3, <2>1
<1>4. ASSUME NEW i \in 1 .. (Len(f.queue) - 1), f.queue[i] # ExitFrame, f.queue[i + 1] # ExitFrame
      PROVE  f.queue[i + 1] = f.queue[i] + 1
  <2>1. /\ i + 1 \in 1 .. (Len(sub.queue) - 1) /\ f.queue[i] = sub.queue[i + 1]
        /\ f.queue[i + 1] = sub.queue[(i + 1) + 1]
    <3>2. i \in 1 .. n /\ i + 1 \in 1 .. n
      BY <1>b
    <3>3. i + 1 \in 1 .. (Len(sub.queue) - 1)
      BY <1>a, <3>2
    <3> QED
      BY <1>b, <3>2, <3>3
  <2>2. sub.queue[i + 1] # ExitFrame /\ sub.queue[(i + 1) + 1] # ExitFrame
          => sub.queue[(i + 1) + 1] = sub.queue[i + 1] + 1
    BY <2>1 DEF FeedShape
  <2> QED
    BY <1>4, <2>1, <2>2
<1>5. ASSUME f.live, f.queue # <<>>, f.queue[Len(f.queue)] # ExitFrame PROVE f.queue[Len(f.queue)] = printed
  <2>1. Len(f.queue) \in Nat /\ Len(f.queue) # 0
    BY <1>3, <1>5 DEF Feed
  <2>2. f.queue[Len(f.queue)] = sub.queue[Len(sub.queue)]
    <3>2. n \in 1 .. n
      <4>1. n # 0
        BY <1>b, <2>1
      <4> QED
        BY <4>1
    <3> QED
      BY <1>a, <1>b, <3>2
  <2> QED
    BY <1>1, <1>3, <1>5, <2>2 DEF FeedShape
<1>6. ASSUME f.queue # <<>>, f.queue[1] # ExitFrame PROVE f.queue[1] = x + 1
  <2>1. Len(f.queue) \in Nat /\ Len(f.queue) # 0
    <3>1. f.queue \in Seq(Nat)
      BY <1>2, <1>3
    <3>2. PICK q \in Seq(Nat) : q = f.queue
      BY <3>1
    <3>3. q # <<>>
      BY <1>6, <3>2
    <3>4. Len(q) \in Nat /\ Len(q) # 0
      BY <3>3
    <3> QED
      BY <3>2, <3>4
  <2>2. 1 \in 1 .. (Len(sub.queue) - 1) /\ f.queue[1] = sub.queue[1 + 1]
    <3>2. 1 \in 1 .. n
      <4>1. n # 0
        BY <1>b, <2>1
      <4> QED
        BY <4>1
    <3>3. 1 \in 1 .. (Len(sub.queue) - 1)
      BY <1>a, <3>2
    <3> QED
      BY <1>b, <3>2, <3>3
  <2>3. sub.queue[1] # ExitFrame /\ sub.queue[1 + 1] # ExitFrame => sub.queue[1 + 1] = sub.queue[1] + 1
    BY <2>2 DEF FeedShape
  <2> QED
    BY <1>6, <2>2, <2>3
<1>7. ASSUME f.live, f.queue = <<>> PROVE x = printed
  <2>1. Len(sub.queue) = 1
    <3>1. Len(f.queue) = 0 /\ Len(f.queue) = Len(sub.queue) - 1
      BY <1>2, <1>3, <1>7
    <3> QED
      BY <1>1, <3>1
  <2> QED
    BY <1>1, <1>3, <1>7, <2>1 DEF FeedShape
<1>8. FeedShape(f, printed)
  BY <1>4, <1>5 DEF FeedShape
<1>9. FeedFollows(f, printed, ring, attach)
  <2>1. CASE f.queue = <<>>
    BY <1>7, <2>1 DEF FeedFollows
  <2>2. CASE f.queue # <<>>
    BY <1>6, <2>2 DEF FeedFollows
  <2> QED
    BY <2>1, <2>2
<1> QED
  BY <1>3, <1>8, <1>9

LEMMA NoFeedOK ==
    /\ NoFeed \in Feed(Nat) /\ NoFeed \in Feed(ConEntry)
    /\ \A n : FeedShape(NoFeed, n)
BY DEF NoFeed, Feed, FeedShape

\* The daemon changes nothing it shows, and no terminal does.
LEMMA FeedInv ==
    ASSUME ConInv, UNCHANGED <<dconsole, watch, term>>,
           host' \in HostType, host'.session >= host.session,
           link' \in {"none", "created", "on"},
           link' = "created" => link = "created" \/ host'.session > host.session,
           feed' \in Feed(Nat), FeedOK'
    PROVE  ConInv'
<1>1. ConTypeOK' /\ StreamInOrder'
  BY DEF ConInv, ConTypeOK, HostType, StreamInOrder
<1>2. RingOK'
  <2>1. /\ RingShape(dconsole.ring, dconsole.sequence, dconsole.session, dconsole.attach)'
        /\ dconsole.session <= host.session /\ (link = "created" => dconsole.session < host.session)
    BY DEF ConInv, RingOK
  <2>2. dconsole.session \in Nat /\ host.session \in Nat /\ host'.session \in Nat /\ dconsole' = dconsole
    BY DEF ConInv, ConTypeOK, HostType
  <2> QED
    BY <2>1, <2>2 DEF RingOK
<1>3. ASSUME dconsole'.boot = 0, NEW t \in Terminals PROVE TermOK(t)'
  BY <1>3 DEF ConInv, TermOK
<1> QED
  BY <1>1, <1>2, <1>3 DEF ConInv

LEMMA HostInv ==
    ASSUME ConInv, Prints \/ Finishes \/ ListenerCloses PROVE ConInv'
<1>0. /\ host \in HostType /\ feed \in Feed(Nat) /\ FeedShape(feed, host.printed)
      /\ FeedOK /\ link \in {"none", "created", "on"}
      /\ link = "on" => FeedFollows(feed, host.printed, dconsole.ring, dconsole.attach)
  BY DEF ConInv, ConTypeOK, FeedOK, HostType
<1>a. host.session \in Nat /\ host.printed \in Nat /\ feed.live \in BOOLEAN
  BY <1>0 DEF HostType, Feed
<1>b. feed = NoFeed => ~feed.live
  BY DEF NoFeed
<1>1. CASE Prints
  <2>1. /\ host' = [host EXCEPT !.printed = @ + 1] /\ feed' = Offer(feed, host'.printed)
        /\ UNCHANGED <<link, dconsole, watch, term>>
    BY <1>1 DEF Prints
  <2>2. host' \in HostType /\ host'.session = host.session /\ host'.printed = host.printed + 1
    BY <1>0, <2>1 DEF HostType
  <2>3. CASE link = "on"
    <3>1. feed' \in Feed(Nat) /\ FeedShape(feed', host'.printed)
          /\ FeedFollows(feed', host'.printed, dconsole.ring, dconsole.attach)
      BY <1>0, <1>a, <2>1, <2>2, <2>3, OfferFeed
    <3>2. FeedOK'
      BY <2>1, <2>3, <3>1 DEF FeedOK
    <3> QED
      BY <1>0, <1>a, <2>1, <2>2, <2>3, <3>1, <3>2, FeedInv
  <2>4. CASE link # "on"
    <3>1. feed = NoFeed
      BY <1>0, <2>4 DEF FeedOK
    <3>2. feed' = NoFeed
      BY <1>0, <1>a, <1>b, <2>1, <2>2, <3>1, OfferType
    <3>3. FeedOK'
      BY <2>1, <2>4, <3>2, NoFeedOK DEF FeedOK
    <3> QED
      BY <1>0, <1>a, <2>1, <2>2, <2>4, <3>2, <3>3, FeedInv, NoFeedOK
  <2> QED
    BY <2>3, <2>4
<1>2. CASE Finishes
  <2>1. /\ host' = [host EXCEPT !.exited = TRUE]
        /\ feed' = IF feed.live THEN [Offer(feed, ExitFrame) EXCEPT !.live = FALSE, !.closed = TRUE]
                   ELSE feed
        /\ UNCHANGED <<link, dconsole, watch, term>>
    BY <1>2 DEF Finishes
  <2>2. host' \in HostType /\ host'.session = host.session /\ host'.printed = host.printed
    BY <1>0, <2>1 DEF HostType
  <2>3. CASE feed.live
    <3>1. link = "on"
      BY <1>0, <1>b, <2>3 DEF FeedOK
    <3>2. feed' = [Offer(feed, ExitFrame) EXCEPT !.live = FALSE, !.closed = TRUE]
      BY <2>1, <2>3
    <3>3. feed' \in Feed(Nat) /\ FeedShape(feed', host.printed)
          /\ FeedFollows(feed', host.printed, dconsole.ring, dconsole.attach)
      <4>1. /\ feed \in Feed(Nat) /\ host.printed \in Nat /\ FeedShape(feed, host.printed)
            /\ FeedFollows(feed, host.printed, dconsole.ring, dconsole.attach)
        BY <1>0, <1>a, <3>1 DEF FeedOK
      <4> QED
        BY <2>3, <3>2, <4>1, EndFeed
    <3>4. FeedOK'
      BY <2>1, <2>2, <3>1, <3>3 DEF FeedOK
    <3> QED
      BY <1>0, <1>a, <2>1, <2>2, <3>1, <3>3, <3>4, FeedInv
  <2>4. CASE ~feed.live
    <3>1. feed' = feed
      BY <2>1, <2>4
    <3>2. FeedOK'
      BY <1>0, <2>1, <2>2, <3>1 DEF FeedOK
    <3> QED
      BY <1>0, <1>a, <2>1, <2>2, <3>1, <3>2, FeedInv
  <2> QED
    BY <2>3, <2>4
<1>3. CASE ListenerCloses
  <2>1. host' = [host EXCEPT !.open = FALSE] /\ UNCHANGED <<feed, link, dconsole, watch, term>>
    BY <1>3 DEF ListenerCloses
  <2>2. host' \in HostType /\ host'.session = host.session /\ host'.printed = host.printed
    BY <1>0, <2>1 DEF HostType
  <2>3. FeedOK'
    BY <1>0, <2>1, <2>2 DEF FeedOK
  <2> QED
    BY <1>0, <1>a, <2>1, <2>2, <2>3, FeedInv
<1> QED
  BY <1>1, <1>2, <1>3

\* The daemon starts a session, loses one or its end is read.
LEMMA LinkEndsInv ==
    ASSUME ConInv, CreatesSession \/ AttachFails \/ ConsumesEnd \/ LosesSession PROVE ConInv'
<1>0. host \in HostType /\ feed \in Feed(Nat) /\ FeedOK
  BY DEF ConInv, ConTypeOK, HostType
<1>a. host.session \in Nat /\ host.printed \in Nat
  BY <1>0 DEF HostType
<1>1. CASE CreatesSession
  <2>1. /\ host' = [session |-> host.session + 1, printed |-> 0, exited |-> FALSE,
                    open |-> TRUE, stuck |-> FALSE]
        /\ link = "none" /\ link' = "created" /\ UNCHANGED <<feed, dconsole, watch, term>>
    BY <1>1 DEF CreatesSession
  <2>2. host' \in HostType /\ host'.session = host.session + 1
    BY <1>a, <2>1 DEF HostType
  <2>3. feed' = NoFeed
    BY <1>0, <2>1 DEF FeedOK
  <2>4. FeedOK'
    BY <2>1, <2>3, NoFeedOK DEF FeedOK
  <2> QED
    BY <1>a, <2>1, <2>2, <2>3, <2>4, NoFeedOK, FeedInv
<1>2. CASE AttachFails \/ ConsumesEnd \/ LosesSession
  <2>1. link' = "none" /\ UNCHANGED <<host, dconsole, watch, term>> /\ feed' = NoFeed
    BY <1>0, <1>2 DEF AttachFails, ConsumesEnd, LosesSession, FeedOK
  <2>2. FeedOK'
    BY <2>1, NoFeedOK DEF FeedOK
  <2> QED
    BY <1>0, <1>a, <2>1, <2>2, NoFeedOK, FeedInv
<1> QED
  BY <1>1, <1>2

LEMMA RestartInv ==
    ASSUME ConInv, DaemonRestarts PROVE ConInv'
<1>1. /\ dconsole' = [boot |-> dconsole.boot + 1, sequence |-> 0, session |-> 0, ring |-> <<>>,
                      attach |-> dconsole.attach]
      /\ feed' = NoFeed /\ link' = "none" /\ watch' = [t \in Terminals |-> NoFeed]
      /\ term' = [t \in Terminals |-> [term[t] EXCEPT !.on = FALSE]] /\ UNCHANGED host
  BY DEF DaemonRestarts
<1>2. /\ host \in HostType /\ dconsole.boot \in Nat /\ dconsole.attach \in Nat
      /\ term \in [Terminals -> TermType] /\ host.session \in Nat
  BY DEF ConInv, ConTypeOK, HostType, TermType
<1>3. ConTypeOK'
  <2>1. term' \in [Terminals -> TermType]
    BY <1>1, <1>2 DEF TermType
  <2>2. watch' \in [Terminals -> Feed(ConEntry)] /\ feed' \in Feed(Nat)
    BY <1>1, NoFeedOK
  <2>3. dconsole' \in ConsoleType
    BY <1>1, <1>2 DEF ConsoleType
  <2> QED
    BY <1>1, <1>2, <2>1, <2>2, <2>3 DEF ConTypeOK, HostType, TermType, ConsoleType
<1>4. StreamInOrder' /\ RingOK'
  BY <1>1, <1>2 DEF StreamInOrder, RingOK, RingShape
<1>5. FeedOK'
  BY <1>1, NoFeedOK DEF FeedOK
<1>6. dconsole'.boot # 0
  BY <1>1, <1>2
<1> QED
  BY <1>3, <1>4, <1>5, <1>6 DEF ConInv

-----------------------------------------------------------------------------
(* What the daemon adds to its console.                                    *)

LEMMA AddsOne ==
    ASSUME ConInv, NEW line \in Nat, AddConsole(line), UNCHANGED <<host, term>>,
           link' = "created" => link = "created",
           line = 0 \/ Follows(line, dconsole.ring, dconsole.attach)
    PROVE  /\ dconsole' \in ConsoleType
           /\ watch' \in [Terminals -> Feed(ConEntry)]
           /\ StreamInOrder' /\ RingOK'
           /\ dconsole'.boot = 0 => \A t \in Terminals : TermOK(t)'
           /\ \A m : line = 0 /\ Follows(m, dconsole.ring, dconsole.attach)
                        => Follows(m, dconsole'.ring, dconsole'.attach)
           /\ line > 0 => Follows(line + 1, dconsole'.ring, dconsole'.attach)
<1> DEFINE e == ConsoleEntry(dconsole.session, line, dconsole.sequence + 1)
<1>0. /\ dconsole \in ConsoleType /\ host.session \in Nat /\ dconsole.session <= host.session
      /\ dconsole.session \in Nat /\ dconsole.attach \in Nat /\ dconsole.sequence \in Nat
  BY DEF ConInv, ConTypeOK, ConsoleType, RingOK
<1>1. PICK x : x = e
  OBVIOUS
<1>2. /\ x \in ConEntry /\ x.sequence = dconsole.sequence + 1 /\ ~x.reset
      /\ x.session = dconsole.session /\ x.attach = dconsole.attach /\ x.line = line
  BY <1>0, <1>1 DEF ConsoleEntry, ConEntry
<1>3. /\ dconsole' = [dconsole EXCEPT !.sequence = x.sequence, !.session = x.session,
                                    !.ring = Keep(Append(@, x), ConsoleLines)]
      /\ watch' = [t \in Terminals |-> Offer(watch[t], x)]
  BY <1>1 DEF AddConsole, Published
<1>4. dconsole' = [boot |-> dconsole.boot, sequence |-> x.sequence, session |-> x.session,
                   ring |-> Keep(Append(dconsole.ring, x), ConsoleLines), attach |-> x.attach]
  BY <1>0, <1>2, <1>3 DEF ConsoleType
<1> HIDE DEF e
<1>5. /\ x.session >= dconsole.session /\ x.session <= host.session /\ x.attach >= dconsole.attach
      /\ host'.session = host.session
      /\ (link' = "created" => link = "created" /\ x.session = dconsole.session)
      /\ (x.line = 0 \/ Follows(x.line, dconsole.ring, x.attach))
      /\ UNCHANGED term
  BY <1>0, <1>2
<1>6. /\ dconsole' \in ConsoleType
      /\ watch' \in [Terminals -> Feed(ConEntry)]
      /\ StreamInOrder' /\ RingOK'
      /\ dconsole'.boot = 0 => \A t \in Terminals : TermOK(t)'
      /\ \A m : x.line = 0 /\ Follows(m, dconsole.ring, x.attach) => Follows(m, dconsole'.ring, dconsole'.attach)
      /\ x.line > 0 => Follows(x.line + 1, dconsole'.ring, dconsole'.attach)
  BY <1>2, <1>3, <1>4, <1>5, PublishInv
<1> QED
  BY <1>2, <1>6

LEMMA ConsumesLineInv ==
    ASSUME ConInv, ConsumesLine PROVE ConInv'
<1>0. /\ host \in HostType /\ feed \in Feed(Nat) /\ FeedOK /\ host.printed \in Nat
      /\ term \in [Terminals -> TermType]
  BY DEF ConInv, ConTypeOK, HostType, TermType
<1>1. /\ link = "on" /\ feed.queue # <<>> /\ Head(feed.queue) # ExitFrame
      /\ feed' = [feed EXCEPT !.queue = Tail(@)]
      /\ AddConsole(Head(feed.queue)) /\ UNCHANGED <<host, link, term>>
  BY DEF ConsumesLine
<1>2. PICK x \in Nat : x = Head(feed.queue) /\ x = feed.queue[1]
  BY <1>0, <1>1 DEF Feed
<1>3. x > 0 /\ x # ExitFrame
  BY <1>1, <1>2 DEF ExitFrame
<1>4. FeedShape(feed, host.printed) /\ FeedFollows(feed, host.printed, dconsole.ring, dconsole.attach)
  BY <1>0, <1>1 DEF FeedOK
<1>5. Follows(x, dconsole.ring, dconsole.attach)
  BY <1>1, <1>2, <1>3, <1>4 DEF FeedFollows
<1>6. /\ dconsole' \in ConsoleType
      /\ watch' \in [Terminals -> Feed(ConEntry)]
      /\ StreamInOrder' /\ RingOK'
      /\ dconsole'.boot = 0 => \A t \in Terminals : TermOK(t)'
      /\ Follows(x + 1, dconsole'.ring, dconsole'.attach)
  BY <1>1, <1>2, <1>3, <1>5, AddsOne
<1>7. PICK ring, attach : ring = dconsole'.ring /\ attach = dconsole'.attach
  OBVIOUS
<1>8. feed' \in Feed(Nat) /\ FeedShape(feed', host.printed) /\ FeedFollows(feed', host.printed, ring, attach)
  BY <1>0, <1>1, <1>2, <1>3, <1>4, <1>6, <1>7, ReadFeed
<1>9. FeedOK'
  BY <1>1, <1>7, <1>8 DEF FeedOK
<1>10. ConTypeOK'
  BY <1>0, <1>1, <1>6, <1>8 DEF ConTypeOK, ConsoleType, TermType, HostType
<1> QED
  BY <1>6, <1>9, <1>10 DEF ConInv

LEMMA FarewellInv ==
    ASSUME ConInv, SaysFarewell PROVE ConInv'
<1>0. /\ host \in HostType /\ feed \in Feed(Nat) /\ FeedOK /\ host.printed \in Nat
      /\ term \in [Terminals -> TermType] /\ link \in {"none", "created", "on"}
  BY DEF ConInv, ConTypeOK, HostType, TermType
<1>1. AddConsole(0) /\ UNCHANGED <<host, feed, link, term>>
  BY DEF SaysFarewell
<1>2. /\ dconsole' \in ConsoleType
      /\ watch' \in [Terminals -> Feed(ConEntry)]
      /\ StreamInOrder' /\ RingOK'
      /\ dconsole'.boot = 0 => \A t \in Terminals : TermOK(t)'
      /\ \A m : Follows(m, dconsole.ring, dconsole.attach) => Follows(m, dconsole'.ring, dconsole'.attach)
  BY <1>1, AddsOne
<1>3. FeedOK'
  BY <1>0, <1>1, <1>2 DEF FeedOK, FeedFollows
<1>4. ConTypeOK'
  BY <1>0, <1>1, <1>2 DEF ConTypeOK, ConsoleType, TermType, HostType
<1> QED
  BY <1>2, <1>3, <1>4 DEF ConInv

-----------------------------------------------------------------------------
(* The daemon attaches itself to a host.                                   *)

\* The replay is the last lines the host printed, and nothing they would have to follow.
LEMMA ReplayDoes ==
    ASSUME ConInv, Replay, NEW ring, NEW attach, \A m : Follows(m, ring, attach)
    PROVE  /\ host' \in HostType /\ host'.session = host.session /\ host'.printed = host.printed
           /\ feed' \in Feed(Nat) /\ FeedShape(feed', host.printed)
           /\ FeedFollows(feed', host.printed, ring, attach)
<1>0. host \in HostType
  BY DEF ConInv, ConTypeOK, HostType
<1>1. PICK p \in Nat : p = host.printed
  BY <1>0 DEF HostType
<1>2. PICK rest : rest = Keep([i \in 1 .. p |-> i], LineBuffer)
  OBVIOUS
<1>3. rest \in Seq(Nat) /\ \E d \in Nat : IsTail(rest, [i \in 1 .. p |-> i], d)
  <2>1. [i \in 1 .. p |-> i] \in Seq(Nat) /\ LineBuffer \in Nat \ {0}
    BY ConsoleConstants
  <2> QED
    BY <1>2, <2>1, KeepDoes
<1>4. PICK d \in Nat : IsTail(rest, [i \in 1 .. p |-> i], d)
  BY <1>3
<1>5. Len(rest) + d = p /\ Len(rest) \in Nat /\ \A i \in 1 .. Len(rest) : rest[i] = i + d
  <2>1. Len([i \in 1 .. p |-> i]) = p
    OBVIOUS
  <2>2. d \in 0 .. p /\ Len(rest) = p - d /\ \A i \in 1 .. Len(rest) : rest[i] = [j \in 1 .. p |-> j][i + d]
    BY <1>4, <2>1 DEF IsTail
  <2>3. \A i \in 1 .. Len(rest) : i + d \in 1 .. p
    BY <2>2
  <2> QED
    BY <1>3, <2>2, <2>3
<1>6. FeedFollows(feed', host.printed, ring, attach)
  BY DEF FeedFollows
<1>7. CASE host.exited /\ ~(Len(rest) < LineBuffer)
  <2>1. feed' = NoFeed /\ host' = [host EXCEPT !.stuck = TRUE]
    BY <1>1, <1>2, <1>7 DEF Replay, NoFeed
  <2> QED
    BY <1>0, <1>6, <2>1, NoFeedOK DEF HostType
<1>8. CASE ~(host.exited /\ ~(Len(rest) < LineBuffer))
  <2>1. /\ feed' = [queue |-> rest \o (IF host.exited THEN <<ExitFrame>> ELSE <<>>), live |-> TRUE,
                    closed |-> FALSE]
        /\ host' = host
    BY <1>1, <1>2, <1>8 DEF Replay
  <2>2. CASE ~host.exited
    <3>1. feed' = [queue |-> rest, live |-> TRUE, closed |-> FALSE]
      <4>1. rest \o <<>> = rest
        BY <1>3
      <4> QED
        BY <2>1, <2>2, <4>1
    <3>2. feed' \in Feed(Nat)
      BY <1>3, <3>1 DEF Feed
    <3>3. FeedShape(feed', p)
      <4>1. ASSUME NEW i \in 1 .. (Len(rest) - 1) PROVE rest[i + 1] = rest[i] + 1
        <5>1. i \in 1 .. Len(rest) /\ i + 1 \in 1 .. Len(rest)
          BY <1>5
        <5> QED
          BY <1>5, <5>1
      <4>2. rest # <<>> => rest[Len(rest)] = p
        <5>1. rest # <<>> => Len(rest) \in 1 .. Len(rest)
          BY <1>3
        <5> QED
          BY <1>5, <5>1
      <4> QED
        BY <3>1, <4>1, <4>2 DEF FeedShape
    <3> QED
      BY <1>0, <1>1, <1>6, <2>1, <3>2, <3>3
  <2>3. CASE host.exited
    <3>1. PICK q : q = rest \o <<ExitFrame>>
      OBVIOUS
    <3>2. /\ q \in Seq(Nat) /\ Len(q) = Len(rest) + 1 /\ q[Len(rest) + 1] = ExitFrame
          /\ \A i \in 1 .. Len(rest) : q[i] = rest[i]
      <4>1. ExitFrame \in Nat
        BY DEF ExitFrame
      <4>2. PICK x \in Nat : x = ExitFrame
        BY <4>1
      <4>3. q = rest \o <<x>>
        BY <3>1, <4>2
      <4>4. q = Append(rest, x)
        BY <1>3, <4>3
      <4>5. /\ Append(rest, x) \in Seq(Nat) /\ Len(Append(rest, x)) = Len(rest) + 1
            /\ \A i \in 1 .. Len(rest) : Append(rest, x)[i] = rest[i]
            /\ Append(rest, x)[Len(rest) + 1] = x
        BY <1>3, AppendDoes
      <4> QED
        BY <4>2, <4>4, <4>5
    <3>3. feed' = [queue |-> q, live |-> TRUE, closed |-> FALSE]
      BY <2>1, <2>3, <3>1
    <3>4. feed' \in Feed(Nat)
      BY <3>2, <3>3 DEF Feed
    <3>5. FeedShape(feed', p)
      <4>1. ASSUME NEW i \in 1 .. (Len(q) - 1), q[i + 1] # ExitFrame PROVE q[i + 1] = q[i] + 1
        <5>1. i \in 1 .. Len(rest) /\ i \in Nat
          BY <1>5, <3>2
        <5>2. i # Len(rest)
          BY <3>2, <4>1
        <5>3. i + 1 \in 1 .. Len(rest)
          BY <1>5, <5>1, <5>2
        <5> QED
          BY <1>5, <3>2, <5>1, <5>3
      <4>2. q[Len(q)] = ExitFrame
        BY <3>2
      <4> QED
        BY <3>3, <4>1, <4>2 DEF FeedShape
    <3> QED
      BY <1>0, <1>1, <1>6, <2>1, <3>4, <3>5
  <2> QED
    BY <2>2, <2>3
<1> QED
  BY <1>7, <1>8

LEMMA OfferTerm ==
    ASSUME NEW w \in Feed(ConEntry), NEW x \in TermType, NEW ring, NEW n \in Nat, NEW life \in Nat,
           TermIs(w, x, ring, n, life), NEW e \in ConEntry, e.sequence = n + 1, e.session >= life,
           NEW r,
           \A m, s \in Nat : s <= life /\ OlderThanReset(m, s, ring) => OlderThanReset(m, s, r),
           OlderThanReset(e.sequence, e.session, r)
    PROVE  Offer(w, e) \in Feed(ConEntry) /\ TermIs(Offer(w, e), x, r, n + 1, e.session)
<1>0. e.session \in Nat /\ x.last \in Nat /\ x.session \in Nat
  BY DEF ConEntry, TermType
<1>1. PICK o : o = Offer(w, e)
  OBVIOUS
<1>2. /\ o \in Feed(ConEntry) /\ QueueOK(o, x.last, n + 1)
      /\ \A i \in DOMAIN o.queue :
            \/ i \in DOMAIN w.queue /\ o.queue[i] = w.queue[i]
            \/ o.queue[i] = e
  BY <1>0, <1>1, OfferNumbers DEF TermIs
<1>3. ~x.on => o = NoFeed
  <2>1. ~NoFeed.live
    BY DEF NoFeed
  <2> QED
    BY <1>1, <2>1, OfferType DEF TermIs
<1>4. ASSUME NEW i \in DOMAIN o.queue
      PROVE  /\ o.queue[i].session <= e.session
             /\ OlderThanReset(o.queue[i].sequence, o.queue[i].session, r)
  <2>1. CASE o.queue[i] = e
    BY <1>0, <2>1
  <2>2. CASE i \in DOMAIN w.queue /\ o.queue[i] = w.queue[i]
    <3>1. /\ w.queue[i].session <= life
          /\ OlderThanReset(w.queue[i].sequence, w.queue[i].session, ring)
      BY <2>2 DEF TermIs
    <3>2. w.queue[i].session \in Nat /\ w.queue[i].sequence \in Nat
      <4>1. w.queue[i] \in ConEntry
        BY <2>2 DEF Feed
      <4> QED
        BY <4>1 DEF ConEntry
    <3>3. OlderThanReset(w.queue[i].sequence, w.queue[i].session, r)
      BY <3>1, <3>2
    <3> QED
      BY <1>0, <2>2, <3>1, <3>2, <3>3
  <2> QED
    BY <1>2, <2>1, <2>2
<1>5. OlderThanReset(x.last, x.session, r) /\ x.session <= e.session
  <2>1. OlderThanReset(x.last, x.session, ring) /\ x.session <= life
    BY DEF TermIs
  <2> QED
    BY <1>0, <2>1
<1>6. Numbered(x.shown, x.last)
  BY DEF TermIs
<1>7. TermIs(o, x, r, n + 1, e.session)
  BY <1>2, <1>3, <1>4, <1>5, <1>6 DEF TermIs
<1> QED
  BY <1>1, <1>2, <1>7

\* The first entry of a session: nothing is before it, and it tells the older sessions apart.
LEMMA FirstEntry ==
    ASSUME NEW a \in ConEntry, a.line = 0
    PROVE  /\ <<a>> \in Seq(ConEntry) /\ Ordered(<<a>>)
           /\ RingShape(<<a>>, a.sequence, a.session, a.attach)
           /\ \A m, at : Follows(m, <<a>>, at)
           /\ \A m, s : s < a.session => OlderThanReset(m, s, <<a>>)
           /\ OlderThanReset(a.sequence, a.session, <<a>>)
<1>0. a.sequence \in Nat /\ a.session \in Nat /\ a.attach \in Nat /\ a.line \in Nat
  BY DEF ConEntry
<1>1. PICK q : q = <<a>>
  OBVIOUS
<1>2. q \in Seq(ConEntry) /\ Len(q) = 1 /\ q[1] = a /\ DOMAIN q = 1 .. 1 /\ q # <<>>
  BY <1>1
<1>3. Ordered(q)
  BY <1>2 DEF Ordered
<1>4. RingShape(q, a.sequence, a.session, a.attach)
  BY <1>0, <1>2 DEF RingShape
<1>5. \A m, at : Follows(m, q, at)
  BY <1>0, <1>2 DEF Follows
<1>6. /\ \A m, s : s < a.session => OlderThanReset(m, s, q)
      /\ OlderThanReset(a.sequence, a.session, q)
  BY <1>0, <1>2 DEF OlderThanReset
<1> QED
  BY <1>1, <1>2, <1>3, <1>4, <1>5, <1>6

LEMMA ReattachInv ==
    ASSUME ConInv, Attaches, link = "none" PROVE ConInv'
<1>0. /\ dconsole \in ConsoleType /\ host.session \in Nat /\ dconsole.session <= host.session
      /\ dconsole.session \in Nat /\ dconsole.attach \in Nat /\ dconsole.sequence \in Nat
      /\ dconsole.ring \in Seq(ConEntry) /\ term \in [Terminals -> TermType]
      /\ RingShape(dconsole.ring, dconsole.sequence, dconsole.session, dconsole.attach)
  BY DEF ConInv, ConTypeOK, ConsoleType, RingOK, TermType
<1>1. PICK x : x = [sequence |-> dconsole.sequence + 1, session |-> host.session, line |-> 0,
                    attach |-> dconsole.attach + 1, reset |-> FALSE]
  OBVIOUS
<1>2. /\ x \in ConEntry /\ x.sequence = dconsole.sequence + 1 /\ ~x.reset
      /\ x.session = host.session /\ x.attach = dconsole.attach + 1 /\ x.line = 0
  BY <1>0, <1>1 DEF ConEntry
<1>3. Opening(dconsole.attach + 1, link = "created") = <<x>>
  <2>1. [ConsoleEntry(host.session, 0, dconsole.sequence + 1) EXCEPT !.attach = dconsole.attach + 1] = x
    <3>1. PICK f : f = FALSE
      OBVIOUS
    <3>2. PICK c : c = ConsoleEntry(host.session, 0, dconsole.sequence + 1)
      OBVIOUS
    <3>3. c = [sequence |-> dconsole.sequence + 1, session |-> host.session, line |-> 0,
               attach |-> dconsole.attach, reset |-> f]
      BY <3>1, <3>2, Zenon DEF ConsoleEntry
    <3>4. [c EXCEPT !.attach = dconsole.attach + 1]
            = [sequence |-> dconsole.sequence + 1, session |-> host.session, line |-> 0,
               attach |-> dconsole.attach + 1, reset |-> f]
      BY <3>3
    <3> QED
      BY <1>1, <3>1, <3>2, <3>4, Zenon
  <2>2. ~(link = "created")
    OBVIOUS
  <2> QED
    BY <2>1, <2>2, Zenon DEF Opening
<1>4. PICK new : new = <<x>>
  OBVIOUS
<1>5. Len(new) = 1 /\ new[1] = x /\ Last(new) = x /\ dconsole.ring \o new = Append(dconsole.ring, x)
  BY <1>0, <1>2, <1>4 DEF Last
<1>6. /\ Replay /\ link' = "on" /\ UNCHANGED term
      /\ dconsole' = [dconsole EXCEPT !.sequence = Last(new).sequence, !.attach = dconsole.attach + 1,
                                      !.session = host.session,
                                      !.ring = Keep(dconsole.ring \o new, ConsoleLines)]
      /\ watch' = [t \in Terminals |-> Offer(watch[t], Last(new))]
  BY <1>3, <1>4 DEF Attaches
<1>7. /\ dconsole' = [boot |-> dconsole.boot, sequence |-> x.sequence, session |-> x.session,
                      ring |-> Keep(Append(dconsole.ring, x), ConsoleLines), attach |-> x.attach]
      /\ watch' = [t \in Terminals |-> Offer(watch[t], x)]
  BY <1>0, <1>2, <1>5, <1>6 DEF ConsoleType
<1>8. host'.session = host.session
  <2>1. host' = host \/ host' = [host EXCEPT !.stuck = TRUE]
    BY <1>6 DEF Replay
  <2>2. host \in HostType
    BY DEF ConInv, ConTypeOK, HostType
  <2> QED
    BY <2>1, <2>2 DEF HostType
<1>9. /\ dconsole' \in ConsoleType
      /\ watch' \in [Terminals -> Feed(ConEntry)]
      /\ StreamInOrder' /\ RingOK'
      /\ dconsole'.boot = 0 => \A t \in Terminals : TermOK(t)'
      /\ \A m : x.line = 0 /\ Follows(m, dconsole.ring, x.attach) => Follows(m, dconsole'.ring, dconsole'.attach)
  <2>1. /\ x.session >= dconsole.session /\ x.session <= host.session /\ x.attach >= dconsole.attach
        /\ (link' = "created" => link = "created" /\ x.session = dconsole.session)
    BY <1>0, <1>2, <1>6
  <2> QED
    BY <1>2, <1>6, <1>7, <1>8, <2>1, PublishInv
<1>10. \A m : Follows(m, dconsole.ring, x.attach)
  <2>1. \A i \in DOMAIN dconsole.ring : dconsole.ring[i].attach <= dconsole.attach /\ dconsole.ring[i] \in ConEntry
    BY <1>0 DEF RingShape
  <2>2. \A i \in DOMAIN dconsole.ring : dconsole.ring[i].attach # dconsole.attach + 1
    BY <1>0, <2>1 DEF ConEntry
  <2> QED
    BY <1>2, <2>2 DEF Follows
<1>11. PICK ring, attach : ring = dconsole'.ring /\ attach = dconsole'.attach
  OBVIOUS
<1>12. \A m : Follows(m, ring, attach)
  BY <1>2, <1>9, <1>10, <1>11
<1>13. /\ host' \in HostType /\ host'.printed = host.printed
       /\ feed' \in Feed(Nat) /\ FeedShape(feed', host.printed)
       /\ FeedFollows(feed', host.printed, ring, attach)
  BY <1>6, <1>12, ReplayDoes
<1>14. FeedOK'
  BY <1>6, <1>11, <1>13 DEF FeedOK
<1>15. ConTypeOK'
  BY <1>0, <1>6, <1>9, <1>13 DEF ConTypeOK, ConsoleType, TermType, HostType
<1> QED
  BY <1>9, <1>14, <1>15 DEF ConInv

LEMMA NewSessionInv ==
    ASSUME ConInv, Attaches, link = "created" PROVE ConInv'
<1>0. /\ dconsole \in ConsoleType /\ host.session \in Nat /\ dconsole.session < host.session
      /\ dconsole.session \in Nat /\ dconsole.attach \in Nat /\ dconsole.sequence \in Nat
      /\ dconsole.boot \in Nat /\ watch \in [Terminals -> Feed(ConEntry)]
      /\ dconsole.ring \in Seq(ConEntry) /\ term \in [Terminals -> TermType]
  BY DEF ConInv, ConTypeOK, ConsoleType, RingOK, TermType
<1>1. PICK a, b :
        /\ a = [sequence |-> dconsole.sequence + 1, session |-> host.session, line |-> 0,
                attach |-> dconsole.attach + 1, reset |-> TRUE]
        /\ b = [sequence |-> dconsole.sequence + 1 + 1, session |-> host.session, line |-> 0,
                attach |-> dconsole.attach + 1, reset |-> FALSE]
  OBVIOUS
<1>2. /\ a \in ConEntry /\ a.sequence = dconsole.sequence + 1 /\ a.reset
      /\ a.session = host.session /\ a.attach = dconsole.attach + 1 /\ a.line = 0
  BY <1>0, <1>1 DEF ConEntry
<1>3. /\ b \in ConEntry /\ b.sequence = a.sequence + 1 /\ ~b.reset
      /\ b.session = host.session /\ b.attach = dconsole.attach + 1 /\ b.line = 0
  BY <1>0, <1>1, <1>2 DEF ConEntry
<1>4. Opening(dconsole.attach + 1, link = "created") = <<a, b>>
  <2>1. PICK x : x = [sequence |-> dconsole.sequence + 1, session |-> host.session, line |-> 0,
                      attach |-> dconsole.attach + 1, reset |-> FALSE]
    OBVIOUS
  <2>2. [ConsoleEntry(host.session, 0, dconsole.sequence + 1) EXCEPT !.attach = dconsole.attach + 1] = x
    <3>1. PICK f : f = FALSE
      OBVIOUS
    <3>2. PICK c : c = ConsoleEntry(host.session, 0, dconsole.sequence + 1)
      OBVIOUS
    <3>3. c = [sequence |-> dconsole.sequence + 1, session |-> host.session, line |-> 0,
               attach |-> dconsole.attach, reset |-> f]
      BY <3>1, <3>2, Zenon DEF ConsoleEntry
    <3>4. [c EXCEPT !.attach = dconsole.attach + 1]
            = [sequence |-> dconsole.sequence + 1, session |-> host.session, line |-> 0,
               attach |-> dconsole.attach + 1, reset |-> f]
      BY <3>3
    <3> QED
      BY <2>1, <3>1, <3>2, <3>4, Zenon
  <2>3. [x EXCEPT !.reset = TRUE] = a /\ [x EXCEPT !.sequence = dconsole.sequence + 1 + 1] = b
    <3>1. PICK f, g : f = FALSE /\ g = TRUE
      OBVIOUS
    <3>2. x = [sequence |-> dconsole.sequence + 1, session |-> host.session, line |-> 0,
               attach |-> dconsole.attach + 1, reset |-> f]
      BY <2>1, <3>1, Zenon
    <3>3. [x EXCEPT !.reset = g]
            = [sequence |-> dconsole.sequence + 1, session |-> host.session, line |-> 0,
               attach |-> dconsole.attach + 1, reset |-> g]
      BY <3>2
    <3>4. [x EXCEPT !.sequence = dconsole.sequence + 1 + 1]
            = [sequence |-> dconsole.sequence + 1 + 1, session |-> host.session, line |-> 0,
               attach |-> dconsole.attach + 1, reset |-> f]
      BY <3>2
    <3> QED
      BY <1>1, <3>1, <3>3, <3>4, Zenon
  <2> QED
    BY <2>2, <2>3, Zenon DEF Opening
<1>5. PICK new : new = <<a, b>>
  OBVIOUS
<1>6. Head(new) = a /\ Last(new) = b /\ <<>> \o new = Append(<<a>>, b)
  <2>1. Len(new) = 2 /\ new[1] = a /\ new[2] = b
    BY <1>5
  <2>2. <<>> \o new = new /\ new = Append(<<a>>, b)
    BY <1>2, <1>3, <1>5
  <2> QED
    BY <1>5, <2>1, <2>2 DEF Last
<1>7. /\ Replay /\ link' = "on" /\ UNCHANGED term
      /\ dconsole' = [dconsole EXCEPT !.sequence = Last(new).sequence, !.attach = dconsole.attach + 1,
                                      !.session = host.session,
                                      !.ring = Keep(<<>> \o new, ConsoleLines)]
      /\ watch' = [t \in Terminals |-> Offer(Offer(watch[t], Head(new)), Last(new))]
  BY <1>4, <1>5 DEF Attaches
<1>8. PICK r : r = Keep(Append(<<a>>, b), ConsoleLines)
  OBVIOUS
<1>9. /\ dconsole' = [boot |-> dconsole.boot, sequence |-> b.sequence, session |-> b.session,
                      ring |-> r, attach |-> b.attach]
      /\ watch' = [t \in Terminals |-> Offer(Offer(watch[t], a), b)]
  BY <1>0, <1>3, <1>6, <1>7, <1>8 DEF ConsoleType
<1>10. PICK one : one = <<a>>
  OBVIOUS
<1>11. /\ one \in Seq(ConEntry) /\ Ordered(one)
       /\ RingShape(one, a.sequence, a.session, a.attach)
       /\ \A m, at : Follows(m, one, at)
       /\ \A m, s : s < a.session => OlderThanReset(m, s, one)
       /\ OlderThanReset(a.sequence, a.session, one)
  BY <1>2, <1>10, FirstEntry
<1>12. /\ r \in Seq(ConEntry) /\ Ordered(r)
       /\ RingShape(r, b.sequence, b.session, b.attach)
       /\ Grows(r, one, b)
  <2>1. /\ a.sequence \in Nat /\ a.session \in Nat /\ a.attach \in Nat
        /\ b.session >= a.session /\ b.attach >= a.attach
    BY <1>0, <1>2, <1>3
  <2>2. r = Keep(Append(one, b), ConsoleLines)
    BY <1>8, <1>10
  <2> QED
    BY <1>2, <1>3, <1>11, <2>1, <2>2, RingGrows
<1>13. dconsole' \in ConsoleType
  BY <1>0, <1>2, <1>3, <1>9, <1>12 DEF ConsoleType
<1>14. host' \in HostType /\ host'.session = host.session /\ feed' \in Feed(Nat) /\ FeedOK'
  <2>1. \A m : Follows(m, r, b.attach)
    BY <1>3, <1>11, <1>12 DEF Grows
  <2>2. PICK attach : attach = b.attach
    OBVIOUS
  <2>3. /\ host' \in HostType /\ host'.session = host.session /\ host'.printed = host.printed
        /\ feed' \in Feed(Nat) /\ FeedShape(feed', host.printed)
        /\ FeedFollows(feed', host.printed, r, attach)
    BY <1>7, <2>1, <2>2, ReplayDoes
  <2> QED
    <3>1. dconsole'.ring = r /\ dconsole'.attach = attach /\ link' = "on"
      <4>1. dconsole'.ring = r /\ dconsole'.attach = b.attach
        BY <1>9
      <4>2. link' = "on"
        BY <1>7, Zenon
      <4> QED
        BY <2>2, <4>1, <4>2
    <3> QED
      BY <2>3, <3>1 DEF FeedOK
<1>15. StreamInOrder' /\ RingOK'
  <2>1. /\ dconsole'.ring = r /\ dconsole'.sequence = b.sequence /\ dconsole'.session = host.session
        /\ dconsole'.attach = b.attach
    BY <1>3, <1>9
  <2>2. RingOK'
    BY <1>0, <1>3, <1>7, <1>12, <1>14, <2>1 DEF RingOK
  <2>3. StreamInOrder'
    BY <1>12, <2>1 DEF StreamInOrder, Ordered
  <2> QED
    BY <2>2, <2>3
<1>16. watch' \in [Terminals -> Feed(ConEntry)]
  <2>1. ASSUME NEW t \in Terminals PROVE Offer(Offer(watch[t], a), b) \in Feed(ConEntry)
    <3>1. watch[t] \in Feed(ConEntry)
      BY <1>0
    <3>2. Offer(watch[t], a) \in Feed(ConEntry)
      BY <1>2, <3>1, OfferType
    <3> QED
      BY <1>3, <3>2, OfferType
  <2> QED
    BY <1>9, <2>1
<1>17. ASSUME dconsole'.boot = 0, NEW t \in Terminals PROVE TermOK(t)'
  <2>1. TermIs(watch[t], term[t], dconsole.ring, dconsole.sequence, dconsole.session)
    BY <1>9, <1>17 DEF ConInv, TermOK
  <2>2. watch[t] \in Feed(ConEntry) /\ term[t] \in TermType
    BY <1>0
  <2>3. Offer(watch[t], a) \in Feed(ConEntry) /\ TermIs(Offer(watch[t], a), term[t], one, a.sequence, a.session)
    <3>1. a.session >= dconsole.session
      BY <1>0, <1>2
    <3>2. \A m, s \in Nat : s <= dconsole.session /\ OlderThanReset(m, s, dconsole.ring) => OlderThanReset(m, s, one)
      <4>1. \A s \in Nat : s <= dconsole.session => s < a.session
        BY <1>0, <1>2
      <4> QED
        BY <1>11, <4>1
    <3>3. /\ Offer(watch[t], a) \in Feed(ConEntry)
          /\ TermIs(Offer(watch[t], a), term[t], one, dconsole.sequence + 1, a.session)
      BY <1>0, <1>2, <1>11, <2>1, <2>2, <3>1, <3>2, OfferTerm
    <3> QED
      BY <1>2, <3>3
  <2>4. TermIs(Offer(Offer(watch[t], a), b), term[t], r, b.sequence, b.session)
    <3>0. b.session >= a.session /\ a.sequence \in Nat /\ a.session \in Nat
      BY <1>0, <1>2, <1>3
    <3>1. PICK o \in Feed(ConEntry) : o = Offer(watch[t], a)
      BY <2>3
    <3>2. /\ \A m, s \in Nat : s <= a.session /\ OlderThanReset(m, s, one) => OlderThanReset(m, s, r)
          /\ OlderThanReset(b.sequence, b.session, r)
      BY <1>12 DEF Grows
    <3>3. TermIs(Offer(o, b), term[t], r, a.sequence + 1, b.session)
      BY <1>3, <2>2, <2>3, <3>0, <3>1, <3>2, OfferTerm
    <3> QED
      BY <1>3, <3>1, <3>3
  <2>5. /\ watch'[t] = Offer(Offer(watch[t], a), b) /\ term'[t] = term[t] /\ dconsole'.ring = r
        /\ dconsole'.sequence = b.sequence /\ dconsole'.session = b.session
    <3>1. watch'[t] = Offer(Offer(watch[t], a), b)
      BY <1>9, Zenon
    <3>2. term'[t] = term[t]
      BY <1>7, Zenon
    <3> QED
      BY <1>9, <3>1, <3>2
  <2> QED
    BY <2>4, <2>5 DEF TermOK
<1>18. ConTypeOK'
  BY <1>0, <1>7, <1>13, <1>14, <1>16 DEF ConTypeOK, ConsoleType, TermType, HostType
<1> QED
  BY <1>14, <1>15, <1>17, <1>18 DEF ConInv

-----------------------------------------------------------------------------
(* A terminal.                                                             *)

\* The entries of a ring after a number.
After(ring, last) == Picked(ring, {e \in ToSet(ring) : e.sequence > last})

IsAfter(hist, ring, last, n) ==
    /\ hist \in Seq(ConEntry)
    /\ \E d \in Nat : IsTail(hist, ring, d)
    /\ \A i \in 1 .. Len(hist) : hist[i].sequence > last
    /\ hist = <<>> => last = n
    /\ hist # <<>> => last + 1 <= n /\ (hist[1].sequence = last + 1 \/ hist[1] = ring[1])

\* What follows a number is the end of the ring.
LEMMA HistoryIs ==
    ASSUME NEW ring \in Seq(ConEntry), NEW n \in Nat, NEW life, NEW attach,
           RingShape(ring, n, life, attach), NEW last \in Nat, last <= n,
           NEW hist, hist = After(ring, last)
    PROVE  IsAfter(hist, ring, last, n)
<1> DEFINE len == Len(ring)
           k == IF last + len >= n THEN last + len - n + 1 ELSE 1
           W == {e \in ToSet(ring) : e.sequence > last}
<1>1. len \in Nat /\ DOMAIN ring = 1 .. len
  OBVIOUS
<1>2. \A i \in 1 .. len : ring[i].sequence + len = n + i /\ ring[i].sequence \in Nat
  <2>1. \A i \in 1 .. len : ring[i] \in ConEntry
    OBVIOUS
  <2>2. \A i \in 1 .. len : ring[i].sequence \in Nat
    BY <2>1 DEF ConEntry
  <2> QED
    BY <2>2 DEF RingShape
<1>3. len = 0 => n = 0
  BY DEF RingShape
<1>4. k \in 1 .. len + 1
  BY <1>1
<1>5. \A i \in 1 .. len : ring[i].sequence > last <=> i >= k
  <2> TAKE i \in 1 .. len
  <2>1. PICK x \in Nat : x = ring[i].sequence /\ x + len = n + i
    BY <1>2
  <2>2. x > last <=> i >= k
    BY <1>1, <2>1
  <2> QED
    BY <2>1, <2>2
<1>6. \A i \in 1 .. len : ring[i] \in W <=> i >= k
  <2>1. \A i \in 1 .. len : ring[i] \in ToSet(ring)
    BY DEF ToSet
  <2> QED
    BY <1>5, <2>1
<1>7. hist = SubSeq(ring, k, Len(ring))
  <2>1. hist = Picked(ring, W)
    BY DEF After
  <2> HIDE DEF W, k
  <2> QED
    BY <1>4, <1>6, <2>1, PickedSuffix
<1> HIDE DEF k, W
<1>8. PICK d \in Nat : d = k - 1
  BY <1>1, <1>4
<1>9. k = d + 1 /\ d <= len
  BY <1>1, <1>4, <1>8
<1>10. hist = SubSeq(ring, d + 1, Len(ring))
  BY <1>7, <1>9
<1>12. hist \in Seq(ConEntry) /\ IsTail(hist, ring, d)
  BY <1>9, <1>10, WithoutFirst
<1>11. Len(hist) = len - d /\ \A i \in 1 .. Len(hist) : hist[i] = ring[i + d]
  BY <1>12 DEF IsTail
<1>13. \A i \in 1 .. Len(hist) : hist[i].sequence > last
  <2> TAKE i \in 1 .. Len(hist)
  <2>1. i + d \in 1 .. len /\ i + d >= k /\ hist[i] = ring[i + d]
    BY <1>1, <1>9, <1>11
  <2> QED
    BY <1>5, <2>1
<1>14. ASSUME hist = <<>> PROVE last = n
  <2>1. d = len
    <3>1. Len(hist) = 0
      BY <1>14
    <3>2. PICK m \in Nat : m = len
      BY <1>1
    <3>3. m - d = 0
      BY <1>11, <3>1, <3>2
    <3>4. m = d
      BY <3>3
    <3> QED
      BY <3>2, <3>4
  <2>2. last + len >= n => last + len - n = len
    BY <1>1, <1>9, <2>1 DEF k
  <2>3. ~(last + len >= n) => len = 0
    BY <1>1, <1>9, <2>1 DEF k
  <2> QED
    BY <1>1, <1>3, <2>2, <2>3
<1>15. ASSUME hist # <<>> PROVE last + 1 <= n /\ (hist[1].sequence = last + 1 \/ hist[1] = ring[1])
  <2>0. Len(hist) # 0
    <3>1. PICK q \in Seq(ConEntry) : q = hist
      BY <1>12
    <3>2. q # <<>>
      BY <1>15, <3>1
    <3>3. Len(q) # 0
      BY <3>2
    <3> QED
      BY <3>1, <3>3
  <2>1. 1 \in 1 .. len - d /\ hist[1] = ring[1 + d] /\ 1 + d \in 1 .. len
    <3>1. PICK m \in Nat : m = Len(hist) /\ m # 0
      BY <1>12, <2>0
    <3>2. PICK long \in Nat : long = len
      BY <1>1
    <3>3. m = long - d
      BY <1>11, <3>1, <3>2
    <3>4. 1 \in 1 .. m /\ 1 + d \in 1 .. long
      BY <3>1, <3>2, <3>3
    <3> QED
      BY <1>11, <3>1, <3>2, <3>3, <3>4
  <2>2. PICK x \in Nat : x = ring[1 + d].sequence /\ x + len = n + (1 + d)
    BY <1>2, <2>1
  <2>3. x > last
    BY <1>13, <1>11, <2>1, <2>2
  <2>4. CASE last + len >= n
    <3>1. d = last + len - n
      BY <1>1, <1>9, <2>4 DEF k
    <3> QED
      BY <1>1, <2>1, <2>2, <3>1
  <2>5. CASE ~(last + len >= n)
    <3>1. d = 0
      BY <1>9, <2>5 DEF k
    <3> QED
      BY <1>1, <2>1, <2>2, <2>3, <3>1
  <2> QED
    BY <2>4, <2>5
<1> QED
  BY <1>12, <1>13, <1>14, <1>15 DEF IsAfter

\* The lines of a history: all of it, but a reset, which can only be its first entry.
LEMMA LinesAre ==
    ASSUME NEW hist \in Seq(ConEntry), hist # <<>>, \A i \in 1 .. Len(hist) : i > 1 => ~hist[i].reset
    PROVE  /\ Lines(hist) \in Seq(ConEntry)
           /\ \E d \in Nat : IsTail(Lines(hist), hist, d)
           /\ ~hist[1].reset => Lines(hist) = hist
<1> DEFINE W == {e \in ToSet(hist) : ~e.reset}
<1>0. \A i \in 1 .. Len(hist) : hist[i] \in ToSet(hist)
  BY DEF ToSet
<1>a. Len(hist) \in Nat \ {0}
  OBVIOUS
<1>b. Lines(hist) = Picked(hist, W)
  BY DEF Lines
<1>1. CASE hist[1].reset
  <2>1. \A i \in 1 .. Len(hist) : hist[i] \in W <=> i >= 2
    BY <1>0, <1>1
  <2>2. 2 \in 1 .. Len(hist) + 1
    BY <1>a
  <2> HIDE DEF W
  <2>3. Lines(hist) = SubSeq(hist, 2, Len(hist))
    BY <1>b, <2>1, <2>2, PickedSuffix
  <2>4. PICK d \in Nat : d = 1
    OBVIOUS
  <2>5. d + 1 = 2 /\ d <= Len(hist)
    BY <1>a, <2>4
  <2>6. Lines(hist) \in Seq(ConEntry) /\ IsTail(Lines(hist), hist, d)
    BY <2>3, <2>5, WithoutFirst
  <2> QED
    BY <1>1, <2>6
<1>2. CASE ~hist[1].reset
  <2>1. \A i \in 1 .. Len(hist) : hist[i] \in W <=> i >= 1
    BY <1>0, <1>2
  <2>2. 1 \in 1 .. Len(hist) + 1
    BY <1>a
  <2> HIDE DEF W
  <2>3. Lines(hist) = SubSeq(hist, 1, Len(hist))
    BY <1>b, <2>1, <2>2, PickedSuffix
  <2>4. SubSeq(hist, 1, Len(hist)) = hist
    OBVIOUS
  <2>5. IsTail(hist, hist, 0)
    BY DEF IsTail
  <2> QED
    BY <2>3, <2>4, <2>5
<1> QED
  BY <1>1, <1>2

LEMMA NumberOf ==
    ASSUME NEW q \in Seq(ConEntry), NEW n \in Nat, Numbered(q, n), NEW i \in 1 .. Len(q)
    PROVE  \E v \in Nat : v = q[i].sequence /\ v + Len(q) = n + i
<1>1. q[i] \in ConEntry
  OBVIOUS
<1>2. q[i].sequence \in Nat /\ q[i].sequence + Len(q) = n + i
  BY <1>1 DEF ConEntry, Numbered
<1> QED
  BY <1>2

LEMMA NumbersFollow ==
    ASSUME NEW q \in Seq(ConEntry), NEW n \in Nat, Numbered(q, n), NEW i \in 1 .. (Len(q) - 1)
    PROVE  q[i + 1].sequence = q[i].sequence + 1
<1>1. PICK len \in Nat : len = Len(q)
  OBVIOUS
<1>2. i \in Nat /\ i \in 1 .. Len(q) /\ i + 1 \in 1 .. Len(q)
  BY <1>1
<1>3. PICK j \in Nat : j = i + 1 /\ j \in 1 .. Len(q)
  BY <1>2
<1>4. PICK v \in Nat : v = q[i].sequence /\ v + Len(q) = n + i
  BY <1>2, NumberOf
<1>5. PICK u \in Nat : u = q[j].sequence /\ u + Len(q) = n + j
  BY <1>3, NumberOf
<1>6. v + len = n + i /\ u + len = n + j
  BY <1>1, <1>4, <1>5
<1>7. u = v + 1
  BY <1>1, <1>2, <1>3, <1>4, <1>5, <1>6, SMTT(30)
<1> QED
  BY <1>3, <1>4, <1>5, <1>7

LEMMA NumberedTail ==
    ASSUME NEW q \in Seq(ConEntry), NEW n \in Nat, Numbered(q, n), NEW r \in Seq(ConEntry),
           NEW d \in Nat, IsTail(r, q, d)
    PROVE  Numbered(r, n)
<1>1. PICK long \in Nat, short \in Nat : long = Len(q) /\ short = Len(r) /\ short + d = long
  BY DEF IsTail
<1>2. ASSUME NEW i \in 1 .. short PROVE r[i].sequence + short = n + i
  <2>1. PICK j \in 1 .. Len(q) : j = i + d /\ r[i] = q[j]
    <3>1. i + d \in 1 .. Len(q) /\ r[i] = q[i + d]
      BY <1>1 DEF IsTail
    <3> QED
      BY <3>1
  <2>2. PICK v \in Nat : v = q[j].sequence /\ v + Len(q) = n + j
    BY <2>1, NumberOf
  <2>3. v + short = n + i
    <3>1. i \in Nat /\ v + long = n + (i + d) /\ short + d = long
      BY <1>1, <2>1, <2>2
    <3> QED
      BY <1>1, <2>2, <3>1, SMTT(30)
  <2> QED
    BY <2>1, <2>2, <2>3
<1> QED
  BY <1>1, <1>2 DEF Numbered

LEMMA NumberedJoin ==
    ASSUME NEW p \in Seq(ConEntry), NEW l \in Nat, Numbered(p, l),
           NEW q \in Seq(ConEntry), NEW n \in Nat, Numbered(q, n), l + Len(q) = n
    PROVE  Numbered(p \o q, n)
<1>1. PICK a \in Nat, b \in Nat : a = Len(p) /\ b = Len(q)
  OBVIOUS
<1>2. PICK r : r = p \o q
  OBVIOUS
<1>3. /\ r \in Seq(ConEntry) /\ Len(r) = a + b
      /\ \A i \in 1 .. a : r[i] = p[i]
      /\ \A i \in 1 .. b : r[i + a] = q[i]
  BY <1>1, <1>2
<1>4. ASSUME NEW i \in 1 .. a + b PROVE r[i].sequence + (a + b) = n + i
  <2>1. CASE i \in 1 .. a
    <3>1. PICK v \in Nat : v = p[i].sequence /\ v + a = l + i
      BY <1>1, <2>1, NumberOf
    <3>2. l + b = n
      BY <1>1
    <3>3. v + (a + b) = n + i
      <4>1. i \in Nat /\ a \in Nat /\ b \in Nat /\ v \in Nat /\ v + a = l + i
        BY <1>1, <2>1, <3>1
      <4>2. v + (a + b) = (l + i) + b
        BY <4>1
      <4>3. (l + i) + b = n + i
        BY <3>2, <4>1
      <4> QED
        BY <4>2, <4>3
    <3> QED
      BY <1>3, <2>1, <3>1, <3>3
  <2>2. CASE i \notin 1 .. a
    <3>1. PICK j \in 1 .. b : i = j + a
      <4>1. i - a \in 1 .. b /\ i = (i - a) + a
        BY <2>2
      <4> QED
        BY <4>1
    <3>2. PICK v \in Nat : v = q[j].sequence /\ v + b = n + j
      BY <1>1, NumberOf
    <3>3. v + (a + b) = n + i
      BY <1>1, <3>1, <3>2, SMTT(30)
    <3> QED
      BY <1>3, <3>1, <3>2, <3>3
  <2> QED
    BY <2>1, <2>2
<1>5. DOMAIN r = 1 .. a + b
  BY <1>3
<1> QED
  BY <1>2, <1>3, <1>4, <1>5 DEF Numbered

LEMMA NumberedAppend ==
    ASSUME NEW p \in Seq(ConEntry), NEW l \in Nat, Numbered(p, l),
           NEW e \in ConEntry, e.sequence = l + 1
    PROVE  Append(p, e) \in Seq(ConEntry) /\ Numbered(Append(p, e), l + 1)
<1>1. /\ <<e>> \in Seq(ConEntry) /\ Len(<<e>>) = 1 /\ <<e>>[1] = e /\ DOMAIN <<e>> = 1 .. 1
  OBVIOUS
<1>2. PICK q \in Seq(ConEntry) : q = <<e>> /\ Len(q) = 1 /\ q[1] = e /\ DOMAIN q = 1 .. 1
  BY <1>1
<1>3. Numbered(q, l + 1)
  BY <1>2 DEF Numbered
<1>4. Numbered(p \o q, l + 1)
  <2>1. PICK n \in Nat : n = l + 1
    OBVIOUS
  <2>2. Numbered(q, n) /\ l + Len(q) = n
    BY <1>2, <1>3, <2>1
  <2>3. Numbered(p \o q, n)
    BY <1>2, <2>1, <2>2, NumberedJoin
  <2> QED
    BY <2>1, <2>3
<1>5. Append(p, e) = p \o q
  BY <1>2
<1> QED
  BY <1>4, <1>5

\* The last entry of a ring, or of the end of it, is the one the ring was given last.
LEMMA RingEnd ==
    ASSUME NEW ring \in Seq(ConEntry), NEW n \in Nat, NEW life \in Nat, NEW attach,
           RingShape(ring, n, life, attach)
    PROVE  /\ Numbered(ring, n)
           /\ ring # <<>> => Last(ring).sequence = n /\ Last(ring).session = life
           /\ OlderThanReset(n, life, ring)
           /\ \A i \in DOMAIN ring : ring[i].session \in Nat /\ ring[i].session <= life
<1>1. Numbered(ring, n)
  BY DEF RingShape, Numbered
<1>2. PICK len \in Nat : len = Len(ring)
  OBVIOUS
<1>3. ASSUME ring # <<>> PROVE Last(ring).sequence = n /\ Last(ring).session = life
  <2>1. len \in 1 .. Len(ring)
    BY <1>2, <1>3
  <2>2. PICK v \in Nat : v = ring[len].sequence /\ v + Len(ring) = n + len
    BY <1>1, <2>1, NumberOf
  <2>3. v = n
    BY <1>2, <2>2
  <2> QED
    BY <1>2, <1>3, <2>2, <2>3 DEF RingShape, Last
<1>4. OlderThanReset(n, life, ring)
  <2>1. ASSUME ring # <<>> PROVE ~(n < ring[1].sequence)
    <3>1. 1 \in 1 .. Len(ring)
      BY <2>1
    <3>2. PICK v \in Nat : v = ring[1].sequence /\ v + Len(ring) = n + 1
      BY <1>1, <3>1, NumberOf
    <3> QED
      BY <1>2, <3>1, <3>2
  <2> QED
    BY <2>1 DEF OlderThanReset
<1>5. ASSUME NEW i \in DOMAIN ring PROVE ring[i].session \in Nat /\ ring[i].session <= life
  <2>1. ring[i] \in ConEntry
    OBVIOUS
  <2> QED
    BY <2>1 DEF RingShape, ConEntry
<1> QED
  BY <1>1, <1>3, <1>4, <1>5

LEMMA TailEnd ==
    ASSUME NEW ring \in Seq(ConEntry), NEW n \in Nat, NEW life \in Nat, NEW attach,
           RingShape(ring, n, life, attach), NEW hist \in Seq(ConEntry), NEW d \in Nat,
           IsTail(hist, ring, d), hist # <<>>
    PROVE  /\ Last(hist) = Last(ring) /\ ring # <<>>
           /\ \A i \in 1 .. Len(hist) : i > 1 => ~hist[i].reset
           /\ hist[1].reset => hist[1] = ring[1]
<1>1. PICK len \in Nat : len = Len(hist) /\ len # 0
  OBVIOUS
<1>2. PICK long \in Nat : long = Len(ring) /\ len + d = long
  BY <1>1 DEF IsTail
<1>3. ASSUME NEW i \in 1 .. len PROVE i + d \in 1 .. long /\ hist[i] = ring[i + d]
  BY <1>1, <1>2 DEF IsTail
<1>4. Last(hist) = Last(ring) /\ ring # <<>>
  <2>1. len \in 1 .. len
    BY <1>1
  <2>2. len + d \in 1 .. long /\ hist[len] = ring[len + d]
    BY <1>3, <2>1
  <2> QED
    BY <1>1, <1>2, <2>2 DEF Last
<1>5. ASSUME NEW i \in 1 .. len, i + d > 1 PROVE ~hist[i].reset
  <2>1. PICK j \in DOMAIN ring : j = i + d /\ hist[i] = ring[j]
    <3>1. i + d \in DOMAIN ring /\ hist[i] = ring[i + d]
      BY <1>2, <1>3
    <3> QED
      BY <3>1
  <2>2. j > 1
    BY <1>5, <2>1
  <2> QED
    BY <2>1, <2>2 DEF RingShape
<1>6. \A i \in 1 .. Len(hist) : i > 1 => ~hist[i].reset
  BY <1>1, <1>5
<1>7. ASSUME hist[1].reset PROVE hist[1] = ring[1]
  <2>1. 1 \in 1 .. len /\ ~(1 + d > 1)
    BY <1>1, <1>5, <1>7
  <2>2. 1 + d = 1
    BY <2>1
  <2> QED
    BY <1>3, <2>1, <2>2
<1> QED
  BY <1>4, <1>6, <1>7

LEMMA NoEntries == <<>> \in Seq(ConEntry)
OBVIOUS

LEMMA OneFurther ==
    ASSUME NEW a \in Nat, NEW b \in Nat PROVE (a + 1) + b = a + (b + 1)
OBVIOUS

LEMMA OneLess ==
    ASSUME NEW m \in Nat, NEW n \in Nat, NEW l \in Nat, (l + 1) + m = n + 1
    PROVE  l + m = n
OBVIOUS

Showing(on, n, life, shown) ==
    [page |-> on, on |-> on, last |-> n, session |-> life, shown |-> shown]

LEMMA ShowingIs ==
    ASSUME NEW on \in BOOLEAN, NEW n \in Nat, NEW life \in Nat, NEW shown \in Seq(ConEntry)
    PROVE  /\ Showing(on, n, life, shown) \in TermType
           /\ Showing(on, n, life, shown).last = n
           /\ Showing(on, n, life, shown).session = life
           /\ Showing(on, n, life, shown).shown = shown
           /\ Showing(on, n, life, shown).on = on
BY DEF TermType, Showing

\* What a terminal shows after a snapshot: all of it, or what it had and the lines that follow.
LEMMA SnapshotShows ==
    ASSUME NEW ring \in Seq(ConEntry), NEW n \in Nat, NEW life \in Nat, NEW attach,
           RingShape(ring, n, life, attach), NEW x \in TermType,
           Numbered(x.shown, x.last), OlderThanReset(x.last, x.session, ring),
           NEW hist \in Seq(ConEntry), NEW d \in Nat, IsTail(hist, ring, d), hist # <<>>,
           x.last + 1 <= n, hist[1].sequence = x.last + 1 \/ hist[1] = ring[1],
           \A i \in 1 .. Len(hist) : hist[i].sequence > x.last,
           NEW replace \in BOOLEAN,
           ~replace => Last(hist).session = x.session /\ ~(hist[1].sequence > x.last + 1)
    PROVE  LET shown == (IF replace THEN <<>> ELSE x.shown) \o Lines(hist)
           IN  shown \in Seq(ConEntry) /\ Numbered(shown, n)
<1>0. x.last \in Nat /\ x.session \in Nat /\ x.shown \in Seq(ConEntry)
  BY DEF TermType
<1>1. /\ Numbered(ring, n) /\ Last(ring).session = life
      /\ \A i \in DOMAIN ring : ring[i].session \in Nat /\ ring[i].session <= life
      /\ Last(hist) = Last(ring) /\ ring # <<>>
      /\ \A i \in 1 .. Len(hist) : i > 1 => ~hist[i].reset
      /\ hist[1].reset => hist[1] = ring[1]
  BY RingEnd, TailEnd
<1>2. Numbered(hist, n)
  BY <1>1, NumberedTail
<1>3. /\ Lines(hist) \in Seq(ConEntry)
      /\ \E k \in Nat : IsTail(Lines(hist), hist, k)
      /\ ~hist[1].reset => Lines(hist) = hist
  BY <1>1, LinesAre
<1>4. Numbered(Lines(hist), n)
  BY <1>2, <1>3, NumberedTail
<1>5. CASE replace
  <2>1. <<>> \o Lines(hist) = Lines(hist)
    BY <1>3
  <2> QED
    BY <1>3, <1>4, <1>5, <2>1
<1>6. CASE ~replace
  <2>1. x.session = life /\ ~(hist[1].sequence > x.last + 1)
    BY <1>1, <1>6
  <2>2. 1 \in 1 .. Len(hist)
    <3>1. PICK m \in Nat : m = Len(hist) /\ m # 0
      OBVIOUS
    <3> QED
      BY <3>1
  <2>3. PICK v \in Nat : v = hist[1].sequence /\ v + Len(hist) = n + 1
    BY <1>2, <2>2, NumberOf
  <2>4. v = x.last + 1
    BY <1>0, <2>1, <2>2, <2>3
  <2>5. x.last + Len(hist) = n
    <3>1. PICK m \in Nat : m = Len(hist)
      OBVIOUS
    <3>2. PICK l \in Nat : l = x.last
      BY <1>0
    <3>3. v + m = n + 1 /\ v = l + 1
      BY <2>3, <2>4, <3>1, <3>2
    <3>4. (l + 1) + m = n + 1
      BY <3>3, Zenon
    <3>5. l + m = n
      BY <3>1, <3>2, <3>4, OneLess, Zenon
    <3> QED
      BY <3>1, <3>2, <3>5, Zenon
  <2>6. ~hist[1].reset
    <3>1. SUFFICES ASSUME hist[1].reset PROVE FALSE
      OBVIOUS
    <3>2. hist[1] = ring[1] /\ 1 \in DOMAIN ring
      BY <1>1, <3>1
    <3>3. x.last < ring[1].sequence
      BY <1>0, <2>3, <2>4, <3>2
    <3>4. x.session < ring[1].session
      BY <1>1, <3>1, <3>2, <3>3 DEF OlderThanReset
    <3> QED
      BY <1>0, <1>1, <2>1, <3>2, <3>4
  <2>7. Numbered(x.shown \o hist, n)
    BY <1>0, <1>2, <2>5, NumberedJoin
  <2> QED
    BY <1>0, <1>3, <1>6, <2>6, <2>7
<1> QED
  BY <1>5, <1>6

\* The snapshot a terminal gets, with the queue that is registered for it.
LEMMA SnapshotIs ==
    ASSUME NEW ring \in Seq(ConEntry), NEW n \in Nat, NEW life \in Nat, NEW attach,
           RingShape(ring, n, life, attach), NEW x \in TermType, TermIs(NoFeed, x, ring, n, life),
           NEW hist, hist = After(ring, x.last),
           NEW replace \in BOOLEAN,
           ~replace => Last(hist).session = x.session /\ ~(hist[1].sequence > x.last + 1),
           NEW y,
           y = IF hist = <<>> THEN [x EXCEPT !.on = TRUE]
               ELSE [page    |-> TRUE,
                     on      |-> TRUE,
                     last    |-> Larger(IF replace THEN 0 ELSE x.last, Last(hist).sequence),
                     session |-> Last(hist).session,
                     shown   |-> (IF replace THEN <<>> ELSE x.shown) \o Lines(hist)]
    PROVE  y \in TermType /\ TermIs([NoFeed EXCEPT !.live = TRUE], y, ring, n, life)
<1>0. /\ x.last \in Nat /\ x.session \in Nat /\ x.shown \in Seq(ConEntry) /\ x.page \in BOOLEAN
      /\ x.last <= n /\ x.session <= life
      /\ OlderThanReset(x.last, x.session, ring) /\ Numbered(x.shown, x.last)
  <2>1. NoFeed.queue = <<>>
    BY DEF NoFeed
  <2>2. x.last \in Nat /\ x.session \in Nat /\ x.shown \in Seq(ConEntry) /\ x.page \in BOOLEAN
    BY DEF TermType
  <2>3. x.last + Len(NoFeed.queue) <= n
    BY DEF TermIs, QueueOK
  <2> QED
    BY <2>1, <2>2, <2>3 DEF TermIs
<1>1. PICK w : w = [NoFeed EXCEPT !.live = TRUE] /\ w.queue = <<>>
  <2>1. PICK w : w = [NoFeed EXCEPT !.live = TRUE]
    OBVIOUS
  <2>2. PICK yes, no : yes = TRUE /\ no = FALSE
    OBVIOUS
  <2>3. NoFeed = [queue |-> <<>>, live |-> no, closed |-> no]
    BY <2>2, Zenon DEF NoFeed
  <2>4. w = [NoFeed EXCEPT !.live = yes]
    BY <2>1, <2>2, Zenon
  <2>5. w.queue = <<>>
    BY <2>3, <2>4
  <2> QED
    BY <2>1, <2>5
<1>a. ASSUME NEW last \in Nat, last = n PROVE QueueOK(w, last, n)
  BY <1>1, <1>a DEF QueueOK
<1>2. /\ hist \in Seq(ConEntry)
      /\ \E d \in Nat : IsTail(hist, ring, d)
      /\ \A i \in 1 .. Len(hist) : hist[i].sequence > x.last
      /\ hist = <<>> => x.last = n
      /\ hist # <<>> => x.last + 1 <= n /\ (hist[1].sequence = x.last + 1 \/ hist[1] = ring[1])
  <2>1. PICK last \in Nat : last = x.last
    BY <1>0
  <2>2. last <= n /\ hist = After(ring, last)
    BY <1>0, <2>1
  <2>3. IsAfter(After(ring, last), ring, last, n)
    BY <2>2, HistoryIs, Zenon
  <2> QED
    BY <2>1, <2>2, <2>3 DEF IsAfter
<1>3. CASE hist = <<>>
  <2>1. y = [x EXCEPT !.on = TRUE]
    BY <1>3, Zenon
  <2>2. /\ y \in TermType /\ y.last = x.last /\ y.session = x.session /\ y.shown = x.shown /\ y.on
    BY <2>1 DEF TermType
  <2>3. QueueOK(w, y.last, n)
    BY <1>0, <1>2, <1>3, <1>a, <2>2
  <2>4. TermIs(w, y, ring, n, life)
    BY <1>0, <1>1, <2>2, <2>3 DEF TermIs
  <2> QED
    BY <1>1, <2>2, <2>4
<1>4. CASE hist # <<>>
  <2>1. PICK d \in Nat : IsTail(hist, ring, d)
    BY <1>2
  <2>2. /\ Last(hist) = Last(ring) /\ ring # <<>>
        /\ Last(ring).sequence = n /\ Last(ring).session = life
        /\ OlderThanReset(n, life, ring)
    BY <1>2, <1>4, <2>1, TailEnd, RingEnd
  <2>3. PICK shown : shown = (IF replace THEN <<>> ELSE x.shown) \o Lines(hist)
    OBVIOUS
  <2>4. shown \in Seq(ConEntry) /\ Numbered(shown, n)
    <3>1. LET all == (IF replace THEN <<>> ELSE x.shown) \o Lines(hist)
          IN  all \in Seq(ConEntry) /\ Numbered(all, n)
      BY <1>0, <1>2, <1>4, <2>1, SnapshotShows
    <3> QED
      BY <2>3, <3>1
  <2>5. y = [page |-> TRUE, on |-> TRUE, last |-> n, session |-> life, shown |-> shown]
    <3>1. Larger(IF replace THEN 0 ELSE x.last, n) = n
      BY <1>0 DEF Larger
    <3>2. y = [page    |-> TRUE,
               on      |-> TRUE,
               last    |-> Larger(IF replace THEN 0 ELSE x.last, Last(hist).sequence),
               session |-> Last(hist).session,
               shown   |-> (IF replace THEN <<>> ELSE x.shown) \o Lines(hist)]
      BY <1>4, Zenon
    <3> QED
      BY <2>2, <2>3, <3>1, <3>2, Zenon
  <2>6. /\ y \in TermType /\ y.last = n /\ y.session = life /\ y.shown = shown /\ y.on
    <3>1. PICK yes : yes = TRUE
      OBVIOUS
    <3>2. yes \in BOOLEAN /\ y = Showing(yes, n, life, shown)
      BY <2>5, <3>1, Zenon DEF Showing
    <3>3. y \in TermType /\ y.last = n /\ y.session = life /\ y.shown = shown /\ y.on = yes
      <4>1. shown \in Seq(ConEntry) /\ yes \in BOOLEAN
        BY <2>4, <3>2
      <4>2. /\ Showing(yes, n, life, shown) \in TermType
            /\ Showing(yes, n, life, shown).last = n
            /\ Showing(yes, n, life, shown).session = life
            /\ Showing(yes, n, life, shown).shown = shown
            /\ Showing(yes, n, life, shown).on = yes
        BY <4>1, ShowingIs
      <4> QED
        BY <3>2, <4>2, Zenon
    <3> QED
      BY <3>1, <3>3, Zenon
  <2>7. TermIs(w, y, ring, n, life)
    <3>1. QueueOK(w, y.last, n)
      BY <1>a, <2>6
    <3>2. y.session <= life /\ w.queue = <<>>
      BY <1>1, <2>6
    <3>3. OlderThanReset(y.last, y.session, ring) /\ Numbered(y.shown, y.last) /\ y.on
      BY <2>2, <2>4, <2>6, Zenon
    <3>4. \A i \in DOMAIN w.queue : FALSE
      BY <3>2
    <3> QED
      BY <3>1, <3>2, <3>3, <3>4, Zenon DEF TermIs
  <2> QED
    BY <1>1, <2>6, <2>7
<1> QED
  BY <1>3, <1>4

\* One terminal goes on.
LEMMA TermInv ==
    ASSUME ConInv, NEW t \in Terminals, NEW w \in Feed(ConEntry), NEW x \in TermType,
           watch' = [watch EXCEPT ![t] = w], term' = [term EXCEPT ![t] = x],
           dconsole.boot = 0 => TermIs(w, x, dconsole.ring, dconsole.sequence, dconsole.session),
           UNCHANGED <<host, feed, link, dconsole>>
    PROVE  ConInv'
<1>1. watch \in [Terminals -> Feed(ConEntry)] /\ term \in [Terminals -> TermType]
  BY DEF ConInv, ConTypeOK, TermType
<1>2. watch' \in [Terminals -> Feed(ConEntry)] /\ term' \in [Terminals -> TermType]
  BY <1>1
<1>3. ConTypeOK'
  BY <1>2 DEF ConInv, ConTypeOK, TermType
<1>4. StreamInOrder' /\ FeedOK' /\ RingOK'
  BY DEF ConInv, StreamInOrder, FeedOK, RingOK
<1>5. ASSUME dconsole'.boot = 0, NEW s \in Terminals PROVE TermOK(s)'
  <2>1. TermIs(watch'[s], term'[s], dconsole.ring, dconsole.sequence, dconsole.session)
    <3>1. CASE s = t
      <4>1. watch'[s] = w /\ term'[s] = x
        BY <1>1, <3>1
      <4> QED
        BY <1>5, <4>1
    <3>2. CASE s # t
      <4>1. watch'[s] = watch[s] /\ term'[s] = term[s]
        BY <1>1, <3>2
      <4> QED
        BY <1>5, <4>1 DEF ConInv, TermOK
    <3> QED
      BY <3>1, <3>2
  <2> QED
    BY <2>1 DEF TermOK
<1> QED
  BY <1>3, <1>4, <1>5 DEF ConInv

LEMMA LeavesInv ==
    ASSUME ConInv, NEW t \in Terminals, IsClosed(t) \/ Drops(t) PROVE ConInv'
<1>0. watch \in [Terminals -> Feed(ConEntry)] /\ term \in [Terminals -> TermType]
  BY DEF ConInv, ConTypeOK, TermType
<1>1. /\ watch' = [watch EXCEPT ![t] = NoFeed] /\ term' = [term EXCEPT ![t].on = FALSE]
      /\ UNCHANGED <<host, feed, link, dconsole>>
  BY DEF IsClosed, Drops
<1>2. PICK x : x = [term[t] EXCEPT !.on = FALSE]
  OBVIOUS
<1>3. /\ x \in TermType /\ ~x.on /\ x.last = term[t].last /\ x.session = term[t].session
      /\ x.shown = term[t].shown
  BY <1>0, <1>2 DEF TermType
<1>4. term' = [term EXCEPT ![t] = x]
  BY <1>0, <1>1, <1>2
<1>5. ASSUME dconsole.boot = 0
      PROVE  TermIs(NoFeed, x, dconsole.ring, dconsole.sequence, dconsole.session)
  <2>1. TermIs(watch[t], term[t], dconsole.ring, dconsole.sequence, dconsole.session)
    BY <1>5 DEF ConInv, TermOK
  <2>2. QueueOK(NoFeed, x.last, dconsole.sequence)
    <3>1. PICK last \in Nat, len \in Nat, n \in Nat :
             last = x.last /\ len = Len(watch[t].queue) /\ n = dconsole.sequence
      BY <1>0, <1>3 DEF TermType, Feed, ConInv, ConTypeOK
    <3>2. last + len <= n
      BY <1>3, <2>1, <3>1 DEF TermIs, QueueOK
    <3>3. last + 0 <= n
      BY <3>1, <3>2
    <3>4. NoFeed.queue = <<>> /\ ~NoFeed.live /\ Len(NoFeed.queue) = 0
      BY DEF NoFeed
    <3> QED
      BY <3>1, <3>3, <3>4 DEF QueueOK
  <2>3. \A i \in DOMAIN NoFeed.queue : FALSE
    BY DEF NoFeed
  <2> QED
    BY <1>3, <2>1, <2>2, <2>3 DEF TermIs
<1> QED
  BY <1>1, <1>3, <1>4, <1>5, NoFeedOK, TermInv

LEMMA ConnectsInv ==
    ASSUME ConInv, NEW t \in Terminals, Connects(t) PROVE ConInv'
<1>0. /\ term \in [Terminals -> TermType] /\ dconsole \in ConsoleType
      /\ RingShape(dconsole.ring, dconsole.sequence, dconsole.session, dconsole.attach)
  BY DEF ConInv, ConTypeOK, TermType, ConsoleType, RingOK
<1>1. PICK x \in TermType : x = term[t]
  BY <1>0
<1>2. PICK ring \in Seq(ConEntry), n \in Nat, life \in Nat :
         ring = dconsole.ring /\ n = dconsole.sequence /\ life = dconsole.session
  BY <1>0 DEF ConsoleType
<1>3. PICK hist : hist = History(x.last)
  OBVIOUS
<1>4. PICK replace \in BOOLEAN :
         replace <=> \/ x.session = 0
                     \/ Last(hist).session # x.session
                     \/ Truncated(hist, x.last)
                     \/ x.last = 0
  OBVIOUS
<1>5. PICK y :
         y = IF hist = <<>> THEN [x EXCEPT !.on = TRUE]
             ELSE [page    |-> TRUE,
                   on      |-> TRUE,
                   last    |-> Larger(IF replace THEN 0 ELSE x.last, Last(hist).sequence),
                   session |-> Last(hist).session,
                   shown   |-> (IF replace THEN <<>> ELSE x.shown) \o Lines(hist)]
  OBVIOUS
<1>6. PICK w : w = [NoFeed EXCEPT !.live = TRUE]
  OBVIOUS
<1>7. /\ ~x.on /\ watch' = [watch EXCEPT ![t] = w] /\ term' = [term EXCEPT ![t] = y]
      /\ UNCHANGED <<host, feed, link, dconsole>>
  BY <1>1, <1>3, <1>4, <1>5, <1>6 DEF Connects
<1>8. w \in Feed(ConEntry)
  <2>1. PICK yes \in BOOLEAN, no \in BOOLEAN : yes = TRUE /\ no = FALSE
    OBVIOUS
  <2>2. NoFeed = [queue |-> <<>>, live |-> no, closed |-> no]
    BY <2>1, Zenon DEF NoFeed
  <2>3. w = [NoFeed EXCEPT !.live = yes]
    BY <1>6, <2>1, Zenon
  <2>4. w = [queue |-> <<>>, live |-> yes, closed |-> no]
    BY <2>2, <2>3
  <2> QED
    BY <2>1, <2>4, NoEntries DEF Feed
<1>9. PICK from \in Nat : hist = After(ring, from) /\ from <= n /\ (x.last <= n => from = x.last)
  <2>1. PICK last \in Nat : last = x.last
    BY <1>1 DEF TermType
  <2>2. PICK from \in Nat : from = IF last > n THEN 0 ELSE last
    OBVIOUS
  <2>3. hist = After(ring, from)
    BY <1>2, <1>3, <2>1, <2>2 DEF History, After
  <2>4. from <= n /\ (last <= n => from = last)
    BY <1>2, <2>1, <2>2
  <2> QED
    BY <2>1, <2>2, <2>3, <2>4
<1>10. IsAfter(hist, ring, from, n) /\ RingShape(ring, n, life, dconsole.attach)
  <2>1. PICK attach : attach = dconsole.attach /\ RingShape(ring, n, life, attach)
    BY <1>0, <1>2
  <2>2. IsAfter(After(ring, from), ring, from, n)
    BY <1>2, <1>9, <2>1, HistoryIs, Zenon
  <2> QED
    BY <1>9, <2>1, <2>2
<1>11. y \in TermType
  <2>1. CASE hist = <<>>
    <3>1. y = [x EXCEPT !.on = TRUE]
      BY <1>5, <2>1, Zenon
    <3> QED
      BY <1>1, <3>1 DEF TermType
  <2>2. CASE hist # <<>>
    <3>1. PICK d \in Nat : IsTail(hist, ring, d)
      BY <1>10 DEF IsAfter
    <3>2. hist \in Seq(ConEntry)
      BY <1>10 DEF IsAfter
    <3>3. \A i \in 1 .. Len(hist) : i > 1 => ~hist[i].reset
      <4>1. PICK attach : attach = dconsole.attach /\ RingShape(ring, n, life, attach)
        BY <1>10
      <4> QED
        BY <1>2, <2>2, <3>1, <3>2, <4>1, TailEnd
    <3>4. Lines(hist) \in Seq(ConEntry)
      BY <2>2, <3>2, <3>3, LinesAre
    <3>5. Last(hist) \in ConEntry
      BY <2>2, <3>2 DEF Last
    <3>6. Last(hist).sequence \in Nat /\ Last(hist).session \in Nat
      BY <3>5 DEF ConEntry
    <3>7. x.last \in Nat /\ x.shown \in Seq(ConEntry)
      BY <1>1 DEF TermType
    <3>8. PICK last \in Nat : last = Larger(IF replace THEN 0 ELSE x.last, Last(hist).sequence)
      BY <3>6, <3>7 DEF Larger
    <3>9. PICK shown \in Seq(ConEntry) : shown = (IF replace THEN <<>> ELSE x.shown) \o Lines(hist)
      <4>1. replace \in BOOLEAN
        BY <1>4
      <4>2. PICK base \in Seq(ConEntry) : base = IF replace THEN <<>> ELSE x.shown
        <5>1. (IF replace THEN <<>> ELSE x.shown) \in Seq(ConEntry)
          BY <3>7, NoEntries, Zenon
        <5> QED
          BY <5>1, Zenon
      <4>3. base \o Lines(hist) \in Seq(ConEntry)
        BY <3>4, <4>2
      <4> QED
        BY <4>2, <4>3
    <3>10. y = Showing(TRUE, last, Last(hist).session, shown)
      BY <1>5, <2>2, <3>8, <3>9, Zenon DEF Showing
    <3>11. PICK yes \in BOOLEAN : yes = TRUE
      OBVIOUS
    <3>12. PICK late \in Nat : late = Last(hist).session
      BY <3>6
    <3>13. y = Showing(yes, last, late, shown)
      BY <3>10, <3>11, <3>12, Zenon
    <3>14. Showing(yes, last, late, shown) \in TermType
      BY <3>8, <3>9, <3>11, <3>12, ShowingIs
    <3> QED
      BY <3>13, <3>14, Zenon
  <2> QED
    BY <2>1, <2>2
<1>12. ASSUME dconsole.boot = 0 PROVE TermIs(w, y, ring, n, life)
  <2>1. TermIs(NoFeed, x, ring, n, life)
    BY <1>1, <1>2, <1>7, <1>12 DEF ConInv, TermOK, TermIs
  <2>2. x.last <= n
    <3>1. NoFeed.queue = <<>>
      BY DEF NoFeed
    <3>2. x.last + Len(NoFeed.queue) <= n /\ x.last \in Nat
      BY <1>1, <2>1 DEF TermIs, QueueOK, TermType
    <3> QED
      BY <3>1, <3>2
  <2>3. hist = After(ring, x.last)
    BY <1>9, <2>2
  <2>4. ~replace => Last(hist).session = x.session /\ ~(hist[1].sequence > x.last + 1)
    <3>1. ASSUME ~replace PROVE ~Truncated(hist, x.last) /\ x.last # 0 /\ Last(hist).session = x.session
      BY <1>4, <3>1, Zenon
    <3>2. ~Truncated(hist, x.last) /\ x.last # 0 => ~(hist[1].sequence > x.last + 1)
      <4>1. x.last \in Nat
        BY <1>1 DEF TermType
      <4>2. x.last # 0 => x.last > 0
        BY <4>1
      <4> QED
        BY <4>2, Zenon DEF Truncated
    <3> QED
      BY <3>1, <3>2
  <2>5. PICK attach : attach = dconsole.attach /\ RingShape(ring, n, life, attach)
    BY <1>10
  <2>6. TermIs([NoFeed EXCEPT !.live = TRUE], y, ring, n, life)
    BY <1>1, <1>2, <1>4, <1>5, <2>1, <2>3, <2>4, <2>5, SnapshotIs
  <2> QED
    BY <1>6, <2>6
<1> QED
  BY <1>2, <1>7, <1>8, <1>11, <1>12, TermInv


\* The next entry of the queue, and what is left of it.
LEMMA TakenFrom ==
    ASSUME NEW w \in Feed(ConEntry), w.queue # <<>>
    PROVE  /\ Head(w.queue) \in ConEntry /\ Head(w.queue) = w.queue[1] /\ 1 \in DOMAIN w.queue
           /\ [w EXCEPT !.queue = Tail(@)] \in Feed(ConEntry)
           /\ [w EXCEPT !.queue = Tail(@)].live = w.live
           /\ IsTail([w EXCEPT !.queue = Tail(@)].queue, w.queue, 1)
<1>1. PICK q \in Seq(ConEntry) : q = w.queue /\ q # <<>>
  BY DEF Feed
<1>2. Len(q) \in Nat /\ Len(q) # 0 /\ Tail(q) \in Seq(ConEntry) /\ Head(q) = q[1] /\ 1 \in DOMAIN q
  BY <1>1
<1>3. IsTail(Tail(q), q, 1)
  <2>1. PICK m \in Nat : Len(q) = m + 1
    <3>1. Len(q) - 1 \in Nat /\ Len(q) = (Len(q) - 1) + 1
      BY <1>2
    <3> QED
      BY <3>1
  <2>2. Len(Tail(q)) = m /\ \A i \in 1 .. m : Tail(q)[i] = q[i + 1]
    BY <1>1, <2>1
  <2>3. Len(Tail(q)) = Len(q) - 1 /\ 1 \in 0 .. Len(q)
    BY <2>1, <2>2
  <2> QED
    BY <2>2, <2>3 DEF IsTail
<1>4. PICK r : r = [w EXCEPT !.queue = Tail(@)]
  OBVIOUS
<1>5. r \in Feed(ConEntry) /\ r.live = w.live /\ r.queue = Tail(q)
  BY <1>1, <1>2, <1>4 DEF Feed
<1> QED
  BY <1>1, <1>2, <1>3, <1>4, <1>5

\* What is left of the queue continues the entry that was taken from it.
LEMMA QueueGoesOn ==
    ASSUME NEW w \in Feed(ConEntry), w.queue # <<>>, NEW last \in Nat, NEW n \in Nat, QueueOK(w, last, n),
           NEW r \in Feed(ConEntry), r.live = w.live, IsTail(r.queue, w.queue, 1)
    PROVE  w.queue[1].sequence = last + 1 /\ QueueOK(r, last + 1, n)
<1>1. PICK m \in Nat : m = Len(r.queue) /\ Len(w.queue) = m + 1
  <2>1. Len(w.queue) \in Nat /\ Len(r.queue) \in Nat
    BY DEF Feed
  <2>2. Len(r.queue) = Len(w.queue) - 1
    BY DEF IsTail
  <2> QED
    BY <2>1, <2>2
<1>2. DOMAIN w.queue = 1 .. m + 1 /\ DOMAIN r.queue = 1 .. m
  BY <1>1 DEF Feed
<1>3. w.queue[1].sequence = last + 1
  BY <1>1, <1>2 DEF QueueOK
<1>4. ASSUME NEW i \in 1 .. m PROVE r.queue[i].sequence = (last + 1) + i
  <2>1. r.queue[i] = w.queue[i + 1] /\ i + 1 \in 1 .. m + 1
    BY <1>1 DEF IsTail
  <2>2. w.queue[i + 1].sequence = last + (i + 1)
    BY <1>2, <2>1 DEF QueueOK
  <2>3. last + (i + 1) = (last + 1) + i
    OBVIOUS
  <2> QED
    BY <2>1, <2>2, <2>3
<1>5. last + (m + 1) <= n /\ (r.live => last + (m + 1) = n)
  BY <1>1 DEF QueueOK
<1>6. (last + 1) + m <= n /\ (r.live => (last + 1) + m = n)
  <2>1. (last + 1) + m = last + (m + 1)
    BY <1>1, OneFurther, Zenon
  <2> QED
    BY <1>5, <2>1
<1>7. QueueOK(r, last + 1, n)
  BY <1>1, <1>2, <1>4, <1>6 DEF QueueOK
<1> QED
  BY <1>3, <1>7

LEMMA ReceivedIs ==
    ASSUME NEW w \in Feed(ConEntry), w.queue # <<>>, NEW x \in TermType, x.on, NEW ring, NEW n \in Nat,
           NEW life \in Nat, TermIs(w, x, ring, n, life),
           NEW r \in Feed(ConEntry), r.live = w.live, IsTail(r.queue, w.queue, 1),
           NEW y \in TermType, y.on, y.last = x.last + 1, y.session = w.queue[1].session,
           Numbered(y.shown, y.last)
    PROVE  TermIs(r, y, ring, n, life)
<1>0. x.last \in Nat /\ QueueOK(w, x.last, n)
  BY DEF TermType, TermIs
<1>1. PICK last \in Nat : last = x.last /\ QueueOK(w, last, n)
  BY <1>0
<1>2. w.queue[1].sequence = last + 1 /\ QueueOK(r, last + 1, n)
  BY <1>1, QueueGoesOn
<1>3. 1 \in DOMAIN w.queue
  BY TakenFrom
<1>4. w.queue[1].session <= life /\ OlderThanReset(w.queue[1].sequence, w.queue[1].session, ring)
  BY <1>3 DEF TermIs
<1>5. ASSUME NEW i \in DOMAIN r.queue
      PROVE  /\ r.queue[i].session <= life
             /\ OlderThanReset(r.queue[i].sequence, r.queue[i].session, ring)
  <2>1. PICK j \in DOMAIN w.queue : r.queue[i] = w.queue[j]
    <3>1. /\ DOMAIN r.queue = 1 .. Len(r.queue) /\ DOMAIN w.queue = 1 .. Len(w.queue)
          /\ Len(w.queue) \in Nat /\ Len(r.queue) \in Nat
      BY DEF Feed
    <3>2. Len(r.queue) = Len(w.queue) - 1 /\ r.queue[i] = w.queue[i + 1]
      BY <3>1 DEF IsTail
    <3>3. i + 1 \in DOMAIN w.queue
      BY <3>1, <3>2
    <3> QED
      BY <3>2, <3>3
  <2> QED
    BY <2>1 DEF TermIs
<1>6. y.last = last + 1 /\ OlderThanReset(y.last, y.session, ring) /\ y.session <= life
  BY <1>1, <1>2, <1>4
<1> QED
  BY <1>2, <1>5, <1>6 DEF TermIs

LEMMA ReceivesInv ==
    ASSUME ConInv, NEW t \in Terminals, Receives(t) PROVE ConInv'
<1>0. watch \in [Terminals -> Feed(ConEntry)] /\ term \in [Terminals -> TermType]
  BY DEF ConInv, ConTypeOK, TermType
<1>1. PICK w \in Feed(ConEntry), x \in TermType : w = watch[t] /\ x = term[t]
  BY <1>0
<1>2. /\ x.on /\ w.queue # <<>>
      /\ IF Head(w.queue).reset THEN ResetsOutput(t, Head(w.queue)) ELSE AppendsLine(t, Head(w.queue))
      /\ watch' = [watch EXCEPT ![t].queue = Tail(@)]
      /\ UNCHANGED <<host, feed, link, dconsole>>
  BY <1>1 DEF Receives
<1>3. PICK r : r = [w EXCEPT !.queue = Tail(@)]
  OBVIOUS
<1>4. PICK e \in ConEntry : e = Head(w.queue)
  BY <1>2, TakenFrom
<1>5. /\ e = w.queue[1] /\ r \in Feed(ConEntry) /\ r.live = w.live /\ IsTail(r.queue, w.queue, 1)
  BY <1>2, <1>3, <1>4, TakenFrom
<1>6. watch' = [watch EXCEPT ![t] = r]
  BY <1>0, <1>1, <1>2, <1>3
<1>7. e.sequence \in Nat /\ e.session \in Nat /\ x.last \in Nat /\ x.shown \in Seq(ConEntry)
  BY <1>1 DEF ConEntry, TermType
<1>8. ASSUME dconsole.boot = 0
      PROVE  /\ TermIs(w, x, dconsole.ring, dconsole.sequence, dconsole.session)
             /\ e.sequence = x.last + 1 /\ Numbered(x.shown, x.last)
  <2>1. TermIs(w, x, dconsole.ring, dconsole.sequence, dconsole.session)
    BY <1>1, <1>8 DEF ConInv, TermOK
  <2>2. QueueOK(w, x.last, dconsole.sequence) /\ Numbered(x.shown, x.last) /\ dconsole.sequence \in Nat
    BY <2>1 DEF TermIs, ConInv, ConTypeOK
  <2>3. w.queue[1].sequence = x.last + 1
    BY <1>2, <1>5, <1>7, <2>2, QueueGoesOn
  <2> QED
    BY <1>5, <2>1, <2>2, <2>3
<1>9. ASSUME NEW y \in TermType, term' = [term EXCEPT ![t] = y], y.on,
             dconsole.boot = 0 => /\ y.last = x.last + 1 /\ y.session = e.session
                                  /\ Numbered(y.shown, y.last)
      PROVE  ConInv'
  <2>1. dconsole.sequence \in Nat /\ dconsole.session \in Nat
    BY DEF ConInv, ConTypeOK
  <2>2. ASSUME dconsole.boot = 0 PROVE TermIs(r, y, dconsole.ring, dconsole.sequence, dconsole.session)
    <3>1. /\ TermIs(w, x, dconsole.ring, dconsole.sequence, dconsole.session)
          /\ y.last = x.last + 1 /\ y.session = w.queue[1].session /\ Numbered(y.shown, y.last)
      BY <1>5, <1>8, <1>9, <2>2
    <3> QED
      BY <1>1, <1>2, <1>5, <1>9, <2>1, <3>1, ReceivedIs
  <2> QED
    BY <1>2, <1>5, <1>6, <1>9, <2>2, TermInv
<1>10. CASE e.reset
  <2>1. term' = [term EXCEPT ![t].last = IF e.session # x.session THEN e.sequence ELSE Larger(@, e.sequence),
                             ![t].session = e.session,
                             ![t].shown = <<>>]
    BY <1>1, <1>2, <1>4, <1>10 DEF ResetsOutput
  <2>2. PICK last \in Nat : last = IF e.session # x.session THEN e.sequence ELSE Larger(x.last, e.sequence)
    BY <1>7 DEF Larger
  <2>3. PICK y : y = [x EXCEPT !.last = last, !.session = e.session, !.shown = <<>>]
    OBVIOUS
  <2>4. y \in TermType /\ y.on = x.on /\ y.last = last /\ y.session = e.session /\ y.shown = <<>>
    BY <1>1, <1>7, <2>2, <2>3, NoEntries DEF TermType
  <2>5. term' = [term EXCEPT ![t] = y]
    BY <1>0, <1>1, <2>1, <2>2, <2>3
  <2>6. dconsole.boot = 0 => last = x.last + 1
    BY <1>7, <1>8, <2>2 DEF Larger
  <2>7. Numbered(y.shown, y.last)
    BY <2>4 DEF Numbered
  <2> QED
    BY <1>2, <1>9, <2>4, <2>5, <2>6, <2>7
<1>11. CASE ~e.reset
  <2>0. PICK base :
           base = IF e.session # x.session /\ x.session # 0 THEN <<>> ELSE x.shown
    OBVIOUS
  <2>1. term' = [term EXCEPT ![t] =
           IF e.sequence <= x.last THEN x
           ELSE [x EXCEPT !.last = e.sequence, !.session = e.session, !.shown = Append(base, e)]]
    <3>1. AppendsLine(t, e)
      BY <1>2, <1>4, <1>11
    <3>2. term[t] = x
      BY <1>1
    <3> QED
      BY <2>0, <3>1, <3>2 DEF AppendsLine
  <2>2. CASE e.sequence <= x.last
    <3>1. term' = [term EXCEPT ![t] = x]
      BY <1>0, <1>1, <2>1, <2>2
    <3>2. dconsole.boot # 0
      BY <1>7, <1>8, <2>2
    <3> QED
      BY <1>1, <1>2, <1>9, <3>1, <3>2
  <2>3. CASE ~(e.sequence <= x.last)
    <3>1. base \in Seq(ConEntry)
      BY <1>7, <2>0, NoEntries, Zenon
    <3>2. PICK y : y = [x EXCEPT !.last = e.sequence, !.session = e.session, !.shown = Append(base, e)]
      OBVIOUS
    <3>3. Append(base, e) \in Seq(ConEntry)
      BY <1>4, <3>1
    <3>4. /\ y \in TermType /\ y.on = x.on /\ y.last = e.sequence /\ y.session = e.session
          /\ y.shown = Append(base, e)
      BY <1>1, <1>7, <3>2, <3>3 DEF TermType
    <3>5. term' = [term EXCEPT ![t] = y]
      BY <2>1, <2>3, <3>2
    <3>6. ASSUME dconsole.boot = 0 PROVE Numbered(y.shown, y.last)
      <4>1. PICK l \in Nat : l = x.last
        BY <1>7
      <4>2. e.sequence = l + 1 /\ Numbered(x.shown, l)
        BY <1>8, <3>6, <4>1
      <4>3. Numbered(base, l)
        BY <2>0, <4>2 DEF Numbered
      <4>4. Numbered(Append(base, e), l + 1)
        BY <1>4, <3>1, <4>1, <4>2, <4>3, NumberedAppend
      <4> QED
        BY <3>4, <4>2, <4>4
    <3> QED
      BY <1>2, <1>8, <1>9, <3>4, <3>5, <3>6
  <2> QED
    BY <2>2, <2>3
<1> QED
  BY <1>10, <1>11

-----------------------------------------------------------------------------
LEMMA ConInitInv ==
    ASSUME ConInit PROVE ConInv
<1>1. ConTypeOK
  BY NoFeedOK DEF ConInit, ConTypeOK, ConEntry
<1>2. StreamInOrder /\ RingOK
  BY DEF ConInit, StreamInOrder, RingOK, RingShape
<1>3. FeedOK
  BY NoFeedOK DEF ConInit, FeedOK
<1>4. ASSUME NEW t \in Terminals PROVE TermOK(t)
  <2>1. watch[t] = NoFeed /\ term[t].last = 0 /\ term[t].session = 0 /\ term[t].shown = <<>> /\ ~term[t].on
    BY DEF ConInit
  <2>2. dconsole.sequence = 0 /\ dconsole.session = 0 /\ dconsole.ring = <<>>
    BY DEF ConInit
  <2>3. QueueOK(NoFeed, 0, 0) /\ Numbered(<<>>, 0) /\ OlderThanReset(0, 0, <<>>)
    BY DEF QueueOK, Numbered, OlderThanReset, NoFeed
  <2>4. \A i \in DOMAIN NoFeed.queue : FALSE
    BY DEF NoFeed
  <2> QED
    BY <2>1, <2>2, <2>3, <2>4 DEF TermOK, TermIs
<1> QED
  BY <1>1, <1>2, <1>3, <1>4 DEF ConInv

LEMMA ConStepInv ==
    ASSUME ConInv, [ConNext]_conVars PROVE ConInv'
<1>1. CASE UNCHANGED conVars
  BY <1>1 DEF conVars, ConInv, ConTypeOK, StreamInOrder, FeedOK, RingOK, TermOK
<1>2. CASE Attaches
  <2>1. link = "none" \/ link = "created"
    BY <1>2 DEF Attaches
  <2> QED
    BY <1>2, <2>1, ReattachInv, NewSessionInv
<1>3. CASE \E t \in Terminals : Connects(t) \/ Receives(t) \/ IsClosed(t) \/ Drops(t)
  BY <1>3, ConnectsInv, ReceivesInv, LeavesInv
<1> QED
  BY <1>1, <1>2, <1>3, HostInv, LinkEndsInv, RestartInv, ConsumesLineInv, FarewellInv
     DEF ConNext, ConSteps

LEMMA ConInvHolds == ConSpec => []ConInv
BY ConInitInv, ConStepInv, PTL DEF ConSpec

\* The console has no holes at either stage, for every size of the buffers and however the
\* host prints and ends, the daemon reads, loses and restarts, and terminals come and go: the
\* lines of one attachment follow each other in instance.console, and a terminal's screen
\* (ConsoleOutput.vue) shows consecutive numbers, because the history it is given when it
\* connects and the queue it is registered for under the same lock continue what it has.
THEOREM ConsoleHasNoHoles == ConSpec => []ConsoleIsContiguous
<1>1. ASSUME ConInv PROVE ConsoleIsContiguous
  <2>1. ASSUME dconsole.boot = 0, NEW t \in Terminals, NEW i \in 1 .. (Len(term[t].shown) - 1)
        PROVE  term[t].shown[i + 1].sequence = term[t].shown[i].sequence + 1
    <3>1. PICK q \in Seq(ConEntry), n \in Nat : q = term[t].shown /\ n = term[t].last /\ Numbered(q, n)
      BY <1>1, <2>1 DEF ConInv, ConTypeOK, TermOK, TermIs
    <3>2. q[i + 1].sequence = q[i].sequence + 1
      BY <3>1, NumbersFollow
    <3> QED
      BY <3>1, <3>2
  <2>2. StreamInOrder
    BY <1>1 DEF ConInv
  <2> QED
    BY <2>1, <2>2 DEF ConsoleIsContiguous, TerminalIsContiguous
<1> QED
  BY <1>1, ConInvHolds, PTL

-----------------------------------------------------------------------------
(***************************************************************************)
(* FileService: for any files, contents and sizes, any number of failures, *)
(* crashes, lost answers and writes of the server.                         *)
(***************************************************************************)

OpOrder ==
    /\ op = [kind |-> op.kind, at |-> op.at, path |-> op.path, old |-> op.old, data |-> op.data,
             n |-> op.n, off |-> op.off]
    /\ op.at \in {"idle", "entry", "recycle", "publish", "undo", "rename", "return", "write", "look",
                 "unlink"}
    /\ op.at # "idle" => op.path \in Paths
    /\ op.at \in {"entry", "recycle", "publish", "write", "look"} /\ op.kind # "delete" => op.data # Missing
    /\ op.at = "publish" => op.kind # "delete"
    /\ op.at = "rename" => op.kind = "move" /\ op.old \in Paths /\ op.old # op.path
    /\ op.at = "return" => op.kind = "restore"
    /\ op.at \in {"write", "look"} => op.kind = "chunk"

FsTypeOK ==
    /\ file = [p \in Paths |-> file[p]]
    /\ Missing \notin kept
    /\ \A e \in bin : e = BinEntry(e.path, e.data) /\ e.path \in Paths

InBin(x) == \E e \in bin : e.data = x
InFiles(x) == \E p \in Paths : file[p] = x

Found == \A x \in kept : InFiles(x) \/ InBin(x)

\* What a rename of the operation is about to replace.
TargetIsFree ==
    op.at \in {"publish", "rename", "return"} /\ op.kind \in Overwrites => file[op.path] \notin kept

FsIInv == OpOrder /\ FsTypeOK /\ Found /\ TargetIsFree
-----------------------------------------------------------------------------
LEMMA FsFrame ==
    ASSUME FsIInv, UNCHANGED diskVars, op' = op
    PROVE  FsIInv'
BY DEF FsIInv, OpOrder, FsTypeOK, Found, InFiles, InBin, TargetIsFree, diskVars

\* The lock is released and the disk is as it was.
LEMMA FsReleases ==
    ASSUME FsIInv, UNCHANGED diskVars, op' = NoOp
    PROVE  FsIInv'
BY DEF FsIInv, OpOrder, FsTypeOK, Found, InFiles, InBin, TargetIsFree, diskVars, NoOp

\* What is nowhere is not kept either.
LEMMA NewIsNotKept ==
    ASSUME FsIInv, NEW c, NewContent(c)
    PROVE  /\ c \in Contents /\ c # Missing
           /\ ~InFiles(c) /\ ~InBin(c) /\ c \notin kept
<1>1. c \in Unused
  BY DEF NewContent
<1>2. DOMAIN file = Paths
  BY DEF FsIInv, FsTypeOK
<1>3. ~InFiles(c) /\ ~InBin(c) /\ c \in Contents
  BY <1>1, <1>2 DEF Unused, InFiles, InBin, Range
<1>4. c # Missing
  BY <1>3, FsConstants
<1> QED BY <1>3, <1>4 DEF FsIInv, Found

\* An operation begins: its first step, and what it knows.
LEMMA FsBegins ==
    ASSUME FsIInv, NEW kind, NEW at, NEW p \in Paths, NEW old, NEW c,
           OpBegins(kind, at, p, old, c), UNCHANGED diskVars,
           at \in {"entry", "publish", "rename", "return"},
           at = "entry" => kind = "delete" \/ c # Missing,
           at = "publish" => c # Missing /\ kind # "delete" /\ ~Present(p),
           at = "rename" => kind = "move" /\ old \in Paths /\ old # p /\ ~Present(p),
           at = "return" => kind = "restore" /\ ~Present(p)
    PROVE  FsIInv'
<1>1. op' = [kind |-> kind, at |-> at, path |-> p, old |-> old, data |-> c, n |-> 0, off |-> 0]
  BY DEF OpBegins
<1>2. OpOrder'
  BY <1>1 DEF OpOrder
<1>3. FsTypeOK' /\ Found'
  BY DEF FsIInv, FsTypeOK, Found, InFiles, InBin, diskVars
<1>4. TargetIsFree'
  <2>1. at # "entry" => file[p] \notin kept
    BY DEF FsIInv, FsTypeOK, Present
  <2> QED BY <1>1, <2>1 DEF TargetIsFree, diskVars
<1> QED BY <1>2, <1>3, <1>4 DEF FsIInv

LEMMA FsRequests ==
    ASSUME FsIInv, FsRequest
    PROVE  FsIInv'
<1>1. ASSUME NEW p \in Paths, NEW c \in Contents, NEW kind \in {"save", "upload", "extract"},
             ReplacesFile(kind, p, c)
      PROVE  FsIInv'
  <2>1. c # Missing
    BY <1>1, NewIsNotKept DEF ReplacesFile
  <2>2. OpBegins(kind, "entry", p, Missing, c) /\ UNCHANGED diskVars
    BY <1>1 DEF ReplacesFile, LocksRoot
  <2> QED BY <1>1, <2>1, <2>2, FsBegins
<1>2. ASSUME NEW p \in Paths, NEW c \in Contents, NEW kind \in {"create", "archive", "extract"},
             Adds(kind, p, c)
      PROVE  FsIInv'
  <2>1. c # Missing
    BY <1>2, NewIsNotKept DEF Adds
  <2>2. OpBegins(kind, "publish", p, Missing, c) /\ UNCHANGED diskVars /\ ~Present(p)
    BY <1>2 DEF Adds, LocksRoot
  <2> QED BY <1>2, <2>1, <2>2, FsBegins
<1>3. ASSUME NEW p \in Paths, NEW c \in Contents, Imports(p, c)
      PROVE  FsIInv'
  <2>1. c # Missing
    BY <1>3, NewIsNotKept DEF Imports
  <2>2. OpBegins("import", "publish", p, Missing, c) /\ UNCHANGED diskVars /\ ~Present(p)
    BY <1>3 DEF Imports, LocksRoot
  <2> QED BY <2>1, <2>2, FsBegins
<1>4. ASSUME NEW p \in Paths, NEW q \in Paths, Copies(p, q)
      PROVE  FsIInv'
  <2>1. OpBegins("copy", "publish", q, Missing, file[p]) /\ UNCHANGED diskVars /\ ~Present(q)
    BY <1>4 DEF Copies, LocksRoot
  <2>2. file[p] # Missing
    BY <1>4 DEF Copies, Present
  <2> QED BY <2>1, <2>2, FsBegins
<1>5. ASSUME NEW p \in Paths, NEW q \in Paths, Moves(p, q)
      PROVE  FsIInv'
  <2>1. OpBegins("move", "rename", q, p, Missing) /\ UNCHANGED diskVars /\ ~Present(q) /\ Present(p)
    BY <1>5 DEF Moves, LocksRoot
  <2>2. p # q
    BY <2>1
  <2> QED BY <2>1, <2>2, FsBegins
<1>6. ASSUME NEW p \in Paths, Deletes(p)
      PROVE  FsIInv'
  <2>1. OpBegins("delete", "entry", p, Missing, Missing) /\ UNCHANGED diskVars
    BY <1>6 DEF Deletes, LocksRoot
  <2> QED BY <2>1, FsBegins
<1>7. ASSUME NEW e \in bin, TakesBack(e)
      PROVE  FsIInv'
  <2>1. OpBegins("restore", "return", e.path, e.data, Missing) /\ UNCHANGED diskVars
        /\ ~Present(e.path)
    BY <1>7 DEF TakesBack, LocksRoot
  <2>2. e.path \in Paths
    BY DEF FsIInv, FsTypeOK
  <2> QED BY <2>1, <2>2, FsBegins
<1>8. ASSUME NEW es \in SUBSET bin, Purges(es)
      PROVE  FsIInv'
  <2>1. /\ bin' = bin \ es /\ kept' = kept \ {e.data : e \in es}
        /\ file' = file /\ op' = op
    BY <1>8 DEF Purges
  <2>2. FsTypeOK' /\ OpOrder' /\ TargetIsFree'
    BY <2>1 DEF FsIInv, FsTypeOK, OpOrder, TargetIsFree
  <2>3. Found'
    BY <2>1 DEF FsIInv, Found, InFiles, InBin
  <2> QED BY <2>2, <2>3 DEF FsIInv
<1>9. CASE Cancels
  BY <1>9, FsFrame DEF Cancels
<1> QED BY <1>1, <1>2, <1>3, <1>4, <1>5, <1>6, <1>7, <1>8, <1>9 DEF FsRequest

-----------------------------------------------------------------------------
\* The kind, the path and the content of an operation do not change.
LEMMA FsGoesOn ==
    ASSUME OpOrder, NEW at, op' = [op EXCEPT !.at = at]
    PROVE  /\ op' = [kind |-> op'.kind, at |-> op'.at, path |-> op'.path, old |-> op'.old,
                     data |-> op'.data, n |-> op'.n, off |-> op'.off]
           /\ op'.kind = op.kind /\ op'.at = at /\ op'.path = op.path /\ op'.old = op.old
           /\ op'.data = op.data
BY DEF OpOrder

LEMMA MakesEntryIInv ==
    ASSUME FsIInv, MakesEntry
    PROVE  FsIInv'
<1>1. CASE ~Present(op.path) /\ op.kind \in {"delete", "extract"}
  <2>1. op' = NoOp /\ UNCHANGED diskVars
    BY <1>1 DEF MakesEntry, OpFails, OpEnds, diskVars
  <2> QED BY <2>1, FsReleases
<1>2. CASE ~Present(op.path) /\ op.kind \notin {"delete", "extract"}
  <2>1. op' = [op EXCEPT !.at = "publish"] /\ UNCHANGED diskVars /\ op.at = "entry"
    BY <1>2 DEF MakesEntry, diskVars
  <2>2. OpOrder /\ OpOrder'
    BY <2>1, <1>2, FsGoesOn DEF FsIInv, OpOrder
  <2>3. FsTypeOK' /\ Found'
    BY <2>1 DEF FsIInv, FsTypeOK, Found, InFiles, InBin, diskVars
  <2>4. op'.path = op.path
    BY <2>1, <2>2, FsGoesOn
  <2>5. file'[op'.path] = Missing /\ Missing \notin kept'
    BY <2>1, <2>3, <2>4, <1>2 DEF Present, diskVars, FsTypeOK
  <2> QED BY <2>2, <2>3, <2>5 DEF FsIInv, TargetIsFree
<1>3. CASE Present(op.path)
  <2>1. /\ bin' = bin \cup {BinEntry(op.path, Missing)} /\ op' = [op EXCEPT !.at = "recycle"]
        /\ file' = file /\ kept' = kept /\ op.at = "entry"
    BY <1>3 DEF MakesEntry
  <2>2. OpOrder /\ OpOrder' /\ op'.at = "recycle"
    BY <2>1, FsGoesOn DEF FsIInv, OpOrder
  <2>3. op.path \in Paths
    BY <2>1, <2>2 DEF OpOrder
  <2>4. FsTypeOK'
    BY <2>1, <2>3 DEF FsIInv, FsTypeOK, BinEntry
  <2>5. Found'
    BY <2>1 DEF FsIInv, Found, InFiles, InBin
  <2> QED BY <2>2, <2>4, <2>5 DEF FsIInv, TargetIsFree
<1> QED BY <1>1, <1>2, <1>3

LEMMA RecyclesIInv ==
    ASSUME FsIInv, Recycles
    PROVE  FsIInv'
<1>0. op.at = "recycle" /\ kept' = kept /\ OpOrder /\ op.path \in Paths
  BY DEF Recycles, FsIInv, OpOrder
<1> DEFINE Half == BinEntry(op.path, Missing)
           Gone == BinEntry(op.path, file[op.path])
<1>1. Half.data = Missing /\ Gone.data = file[op.path] /\ Gone = BinEntry(Gone.path, Gone.data)
      /\ Gone.path \in Paths
  BY <1>0 DEF BinEntry
<1>2. CASE Present(op.path)
  <2>1. bin' = (bin \ {Half}) \cup {Gone} /\ file' = [file EXCEPT ![op.path] = Missing]
    BY <1>2 DEF Recycles
  <2>2. FsTypeOK'
    BY <2>1, <1>0, <1>1 DEF FsIInv, FsTypeOK
  <2>3. Found'
    <3> SUFFICES ASSUME NEW x \in kept PROVE InFiles(x)' \/ InBin(x)'
      BY <1>0 DEF Found
    <3>1. x # Missing
      BY DEF FsIInv, FsTypeOK
    <3>2. CASE InBin(x)
      <4>1. PICK e \in bin : e.data = x
        BY <3>2 DEF InBin
      <4>2. e # Half
        BY <4>1, <3>1, <1>1
      <4> QED BY <4>1, <4>2, <2>1 DEF InBin
    <3>3. CASE InFiles(x)
      <4>1. PICK p \in Paths : file[p] = x
        BY <3>3 DEF InFiles
      <4>2. CASE p = op.path
        <5>1. Gone \in bin' /\ Gone.data = x
          BY <2>1, <1>1, <4>1, <4>2
        <5> QED BY <5>1 DEF InBin
      <4>3. CASE p # op.path
        <5>1. file'[p] = x
          BY <2>1, <4>1, <4>3 DEF FsIInv, FsTypeOK
        <5> QED BY <5>1 DEF InFiles
      <4> QED BY <4>2, <4>3
    <3> QED BY <3>2, <3>3 DEF FsIInv, Found
  <2>4. CASE op.kind = "delete"
    <3>1. op' = NoOp
      BY <1>2, <2>4 DEF Recycles
    <3> QED BY <3>1, <2>2, <2>3 DEF FsIInv, OpOrder, TargetIsFree, NoOp
  <2>5. CASE op.kind # "delete"
    <3>1. op' = [op EXCEPT !.at = "publish", !.old = file[op.path]]
      BY <1>2, <2>5 DEF Recycles
    <3>2. OpOrder' /\ op'.path = op.path
      BY <3>1, <1>0, <2>5 DEF OpOrder
    <3>3. file'[op.path] = Missing
      BY <2>1, <1>0 DEF FsIInv, FsTypeOK
    <3> QED BY <2>2, <2>3, <3>2, <3>3 DEF FsIInv, TargetIsFree, FsTypeOK
  <2> QED BY <2>4, <2>5
<1>3. CASE ~Present(op.path)
  <2>1. bin' = bin \ {Half} /\ file' = file
    BY <1>3 DEF Recycles
  <2>2. FsTypeOK'
    BY <2>1, <1>0 DEF FsIInv, FsTypeOK
  <2>3. Found'
    <3> SUFFICES ASSUME NEW x \in kept PROVE InFiles(x)' \/ InBin(x)'
      BY <1>0 DEF Found
    <3>1. x # Missing
      BY DEF FsIInv, FsTypeOK
    <3>2. InBin(x) => InBin(x)'
      BY <3>1, <2>1, <1>1 DEF InBin
    <3>3. InFiles(x) => InFiles(x)'
      BY <2>1 DEF InFiles
    <3> QED BY <3>2, <3>3 DEF FsIInv, Found
  <2>4. CASE op.kind \in {"delete", "extract"}
    <3>1. op' = NoOp
      BY <1>3, <2>4 DEF Recycles, OpFails, OpEnds
    <3> QED BY <3>1, <2>2, <2>3 DEF FsIInv, OpOrder, TargetIsFree, NoOp
  <2>5. CASE op.kind \notin {"delete", "extract"}
    <3>1. op' = [op EXCEPT !.at = "publish"]
      BY <1>3, <2>5 DEF Recycles
    <3>2. OpOrder' /\ op'.path = op.path
      BY <3>1, <1>0, <2>5, FsGoesOn DEF OpOrder
    <3>3. file'[op.path] = Missing
      BY <2>1, <1>3 DEF Present
    <3> QED BY <2>2, <2>3, <3>2, <3>3 DEF FsIInv, TargetIsFree, FsTypeOK
  <2> QED BY <2>4, <2>5
<1> QED BY <1>2, <1>3

\* A file that is put where nothing is that must be kept.
LEMMA FsFills ==
    ASSUME FsIInv, NEW p \in Paths, NEW c, file[p] \notin kept,
           file' = [file EXCEPT ![p] = c], bin' = bin
    PROVE  /\ file' = [q \in Paths |-> file'[q]]
           /\ file'[p] = c
           /\ \A x \in kept : InFiles(x)' \/ InBin(x)'
<1>1. file' = [q \in Paths |-> IF q = p THEN c ELSE file[q]]
  BY DEF FsIInv, FsTypeOK
<1>2. ASSUME NEW x \in kept
      PROVE  InFiles(x)' \/ InBin(x)'
  <2>1. CASE InBin(x)
    BY <2>1 DEF InBin
  <2>2. CASE InFiles(x)
    <3>1. PICK q \in Paths : file[q] = x
      BY <2>2 DEF InFiles
    <3>2. q # p
      BY <3>1, <1>2
    <3>3. file'[q] = x
      BY <3>1, <3>2, <1>1
    <3> QED BY <3>3 DEF InFiles
  <2> QED BY <2>1, <2>2 DEF FsIInv, Found
<1> QED BY <1>1, <1>2

\* ... from the recycle bin, which ends the operation.
LEMMA FsTakesOut ==
    ASSUME FsIInv, op.path \in Paths, file[op.path] \notin kept, kept' = kept, op' = NoOp,
           file' = [file EXCEPT ![op.path] = op.old],
           bin' = bin \ {BinEntry(op.path, op.old)}
    PROVE  FsIInv'
<1>1. file' = [q \in Paths |-> IF q = op.path THEN op.old ELSE file[q]]
  BY DEF FsIInv, FsTypeOK
<1>2. Found'
  <2> SUFFICES ASSUME NEW x \in kept PROVE InFiles(x)' \/ InBin(x)'
    BY DEF Found
  <2>1. CASE InFiles(x)
    <3>1. PICK q \in Paths : file[q] = x
      BY <2>1 DEF InFiles
    <3>2. file'[q] = x
      BY <1>1, <3>1
    <3> QED BY <3>2 DEF InFiles
  <2>2. CASE InBin(x)
    <3>1. PICK e \in bin : e.data = x
      BY <2>2 DEF InBin
    <3>2. CASE e = BinEntry(op.path, op.old)
      <4>1. file'[op.path] = x
        BY <1>1, <3>1, <3>2 DEF BinEntry
      <4> QED BY <4>1 DEF InFiles
    <3>3. CASE e # BinEntry(op.path, op.old)
      BY <3>1, <3>3 DEF InBin
    <3> QED BY <3>2, <3>3
  <2> QED BY <2>1, <2>2 DEF FsIInv, Found
<1>3. FsTypeOK'
  BY <1>1 DEF FsIInv, FsTypeOK
<1> QED BY <1>2, <1>3 DEF FsIInv, OpOrder, TargetIsFree, NoOp

LEMMA PublishesIInv ==
    ASSUME FsIInv, Publishes
    PROVE  FsIInv'
<1>1. /\ op.at = "publish" /\ CanPublish /\ OpOrder /\ op.path \in Paths /\ op.data # Missing
      /\ file' = [file EXCEPT ![op.path] = op.data] /\ kept' = kept \cup {op.data} /\ bin' = bin
  BY DEF Publishes, FsIInv, OpOrder, uploadVars
<1>2. file[op.path] \notin kept
  BY <1>1 DEF CanPublish, Present, FsIInv, TargetIsFree, FsTypeOK
<1>3. /\ file' = [q \in Paths |-> file'[q]]
      /\ file'[op.path] = op.data
      /\ \A x \in kept : InFiles(x)' \/ InBin(x)'
  BY <1>1, <1>2, FsFills
<1>4. FsTypeOK'
  BY <1>1, <1>3 DEF FsIInv, FsTypeOK
<1>5. Found'
  BY <1>1, <1>3 DEF Found, InFiles
<1>6. OpOrder' /\ TargetIsFree'
  <2>1. CASE op.kind = "chunk"
    <3>1. op' = [op EXCEPT !.at = "unlink"]
      BY <2>1 DEF Publishes
    <3>2. OpOrder' /\ op'.at = "unlink"
      BY <3>1, <1>1, FsGoesOn DEF OpOrder
    <3> QED BY <3>2 DEF TargetIsFree
  <2>2. CASE op.kind # "chunk"
    <3>1. op' = NoOp
      BY <2>2 DEF Publishes
    <3> QED BY <3>1 DEF OpOrder, TargetIsFree, NoOp
  <2> QED BY <2>1, <2>2
<1> QED BY <1>4, <1>5, <1>6 DEF FsIInv

\* The other steps of an operation.
LEMMA FsOpSteps ==
    ASSUME FsIInv,
           \/ PublishFails \/ RestoresEntry \/ Renames \/ Returns
           \/ WritesChunk \/ ChunkFails \/ LooksAtTarget \/ Mismatches \/ Unlinks
    PROVE  FsIInv'
<1>1. CASE PublishFails
  <2>1. UNCHANGED diskVars
    BY <1>1 DEF PublishFails
  <2>2. CASE op.old = Missing \/ op.kind = "extract"
    <3>1. op' = NoOp
      BY <1>1, <2>2 DEF PublishFails, OpFails, OpEnds
    <3> QED BY <2>1, <3>1, FsReleases
  <2>3. CASE ~(op.old = Missing \/ op.kind = "extract")
    <3>1. op' = [op EXCEPT !.at = "undo"] /\ op.at = "publish"
      BY <1>1, <2>3 DEF PublishFails
    <3>2. OpOrder' /\ op'.at = "undo"
      BY <3>1, FsGoesOn DEF FsIInv, OpOrder
    <3> QED BY <2>1, <3>2 DEF FsIInv, FsTypeOK, Found, InFiles, InBin, TargetIsFree, diskVars
  <2> QED BY <2>2, <2>3
<1>2. CASE RestoresEntry
  <2>1. op' = NoOp /\ op.at = "undo" /\ op.path \in Paths /\ kept' = kept
    BY <1>2 DEF RestoresEntry, OpFails, OpEnds, FsIInv, OpOrder
  <2>2. CASE Present(op.path)
    <3>1. UNCHANGED diskVars
      BY <1>2, <2>1, <2>2 DEF RestoresEntry, diskVars
    <3> QED BY <2>1, <3>1, FsReleases
  <2>3. CASE ~Present(op.path)
    <3>1. /\ file' = [file EXCEPT ![op.path] = op.old]
          /\ bin' = bin \ {BinEntry(op.path, op.old)}
      BY <1>2, <2>3 DEF RestoresEntry
    <3>2. file[op.path] \notin kept
      BY <2>3 DEF Present, FsIInv, FsTypeOK
    <3> QED BY <2>1, <3>1, <3>2, FsTakesOut
  <2> QED BY <2>2, <2>3
<1>3. CASE Renames
  <2>1. /\ op.at = "rename" /\ op' = NoOp /\ bin' = bin /\ kept' = kept
        /\ op.kind \in Overwrites /\ op.path \in Paths /\ op.old \in Paths /\ op.old # op.path
    BY <1>3 DEF Renames, FsIInv, OpOrder, Overwrites
  <2>2. CASE ~Present(op.old)
    <3>1. UNCHANGED diskVars
      BY <1>3, <2>1, <2>2 DEF Renames, diskVars
    <3> QED BY <2>1, <3>1, FsReleases
  <2>3. CASE Present(op.old)
    <3>1. file' = [file EXCEPT ![op.path] = file[op.old], ![op.old] = Missing]
      BY <1>3, <2>3 DEF Renames
    <3>2. file' = [q \in Paths |-> IF q = op.old THEN Missing
                                     ELSE IF q = op.path THEN file[op.old] ELSE file[q]]
      BY <2>1, <3>1 DEF FsIInv, FsTypeOK
    <3>3. file[op.path] \notin kept
      BY <2>1 DEF FsIInv, TargetIsFree
    <3>4. Found'
      <4> SUFFICES ASSUME NEW x \in kept PROVE InFiles(x)' \/ InBin(x)'
        BY <2>1 DEF Found
      <4>1. CASE InBin(x)
        BY <2>1, <4>1 DEF InBin
      <4>2. CASE InFiles(x)
        <5>1. PICK q \in Paths : file[q] = x
          BY <4>2 DEF InFiles
        <5>2. CASE q = op.old
          <6>1. file'[op.path] = x
            BY <2>1, <3>2, <5>1, <5>2
          <6> QED BY <2>1, <6>1 DEF InFiles
        <5>3. CASE q # op.old
          <6>1. q # op.path
            BY <3>3, <5>1
          <6>2. file'[q] = x
            BY <3>2, <5>1, <5>3, <6>1
          <6> QED BY <6>2 DEF InFiles
        <5> QED BY <5>2, <5>3
      <4> QED BY <4>1, <4>2 DEF FsIInv, Found
    <3>5. FsTypeOK'
      BY <2>1, <3>2 DEF FsIInv, FsTypeOK
    <3> QED BY <2>1, <3>4, <3>5 DEF FsIInv, OpOrder, TargetIsFree, NoOp
  <2> QED BY <2>2, <2>3
<1>4. CASE Returns
  <2>1. /\ op.at = "return" /\ op' = NoOp /\ kept' = kept /\ op.kind \in Overwrites /\ op.path \in Paths
        /\ file' = [file EXCEPT ![op.path] = op.old]
        /\ bin' = bin \ {BinEntry(op.path, op.old)}
    BY <1>4 DEF Returns, FsIInv, OpOrder, Overwrites
  <2>2. file[op.path] \notin kept
    BY <2>1 DEF FsIInv, TargetIsFree
  <2> QED BY <2>1, <2>2, FsTakesOut
<1>5. CASE WritesChunk
  <2>1. UNCHANGED diskVars /\ op.at = "write"
    BY <1>5 DEF WritesChunk
  <2>2. CASE IsFinal(op.off)
    <3>1. op' = [op EXCEPT !.at = "look"]
      BY <1>5, <2>2 DEF WritesChunk
    <3>2. OpOrder' /\ op'.at = "look"
      BY <2>1, <3>1, FsGoesOn DEF FsIInv, OpOrder
    <3> QED BY <2>1, <3>2 DEF FsIInv, FsTypeOK, Found, InFiles, InBin, TargetIsFree, diskVars
  <2>3. CASE ~IsFinal(op.off)
    <3>1. op' = NoOp
      BY <1>5, <2>3 DEF WritesChunk, OpEnds
    <3> QED BY <2>1, <3>1, FsReleases
  <2> QED BY <2>2, <2>3
<1>6. CASE Mismatches
  <2>1. UNCHANGED diskVars /\ op' = NoOp
    BY <1>6 DEF Mismatches, OpEnds
  <2> QED BY <2>1, FsReleases
<1>7. CASE Unlinks
  <2>1. UNCHANGED diskVars /\ op' = NoOp
    BY <1>7 DEF Unlinks, OpEnds
  <2> QED BY <2>1, FsReleases
<1>8. CASE ChunkFails
  <2>1. UNCHANGED diskVars /\ op' = NoOp
    BY <1>8 DEF ChunkFails, OpFails, OpEnds
  <2> QED BY <2>1, FsReleases
<1>9. CASE LooksAtTarget
  <2>1. UNCHANGED diskVars /\ op.at = "look"
    BY <1>9 DEF LooksAtTarget
  <2>2. CASE op' = [op EXCEPT !.at = "entry"]
    <3>1. OpOrder' /\ op'.at = "entry"
      BY <2>1, <2>2, FsGoesOn DEF FsIInv, OpOrder
    <3> QED BY <2>1, <3>1 DEF FsIInv, FsTypeOK, Found, InFiles, InBin, TargetIsFree, diskVars
  <2>3. CASE op' = NoOp
    BY <2>1, <2>3, FsReleases
  <2> QED BY <1>9, <2>2, <2>3 DEF LooksAtTarget, OpEnds
<1> QED BY <1>1, <1>2, <1>3, <1>4, <1>5, <1>6, <1>7, <1>8, <1>9

LEMMA ServerWritesIInv ==
    ASSUME FsIInv, NEW p \in Paths, NEW c \in Contents \cup {Missing}, ServerWrites(p, c)
    PROVE  FsIInv'
<1> DEFINE Hidden == c = Missing \/ (op.kind \in Overwrites /\ op.path = p)
<1>1. /\ kept' = (kept \ {file[p]}) \cup (IF Hidden THEN {} ELSE {c})
      /\ file' = [file EXCEPT ![p] = c] /\ bin' = bin /\ op' = op
  BY DEF ServerWrites
<1>2. c # Missing => ~InFiles(c) /\ c \notin kept
  BY NewIsNotKept DEF ServerWrites
<1>3. file' = [q \in Paths |-> IF q = p THEN c ELSE file[q]]
  BY <1>1 DEF FsIInv, FsTypeOK
<1>4. FsTypeOK' /\ OpOrder'
  BY <1>1, <1>3 DEF FsIInv, FsTypeOK, OpOrder
<1>5. Found'
  <2> SUFFICES ASSUME NEW x \in kept' PROVE InFiles(x)' \/ InBin(x)'
    BY DEF Found
  <2>1. CASE x \in kept /\ x # file[p]
    <3>1. CASE InBin(x)
      BY <1>1, <3>1 DEF InBin
    <3>2. CASE InFiles(x)
      <4>1. PICK q \in Paths : file[q] = x
        BY <3>2 DEF InFiles
      <4>2. file'[q] = x
        BY <1>3, <2>1, <4>1
      <4> QED BY <4>2 DEF InFiles
    <3> QED BY <2>1, <3>1, <3>2 DEF FsIInv, Found
  <2>2. CASE x = c
    BY <1>3, <2>2 DEF InFiles
  <2> QED BY <1>1, <2>1, <2>2
<1>6. TargetIsFree'
  <2> SUFFICES ASSUME op.at \in {"publish", "rename", "return"}, op.kind \in Overwrites
               PROVE  file'[op.path] \notin kept'
    BY <1>1 DEF TargetIsFree
  <2>1. op.path \in Paths /\ file[op.path] \notin kept
    BY DEF FsIInv, OpOrder, TargetIsFree
  <2>2. CASE op.path = p
    <3>1. c \notin kept
      BY <1>2 DEF FsIInv, FsTypeOK
    <3> QED BY <1>1, <1>3, <2>1, <2>2, <3>1
  <2>3. CASE op.path # p
    <3>1. file'[op.path] = file[op.path]
      BY <1>3, <2>1, <2>3
    <3>2. ~Hidden => file[op.path] # c
      BY <1>2, <2>1 DEF InFiles
    <3> QED BY <1>1, <2>1, <3>1, <3>2
  <2> QED BY <2>2, <2>3
<1> QED BY <1>4, <1>5, <1>6 DEF FsIInv

\* The upload in chunks, the frontend and a crash.
LEMMA FsUploadSteps ==
    ASSUME FsIInv,
           \/ Expires \/ RemovesExpired \/ SendsChunk \/ Resumes \/ GivesUpWaiting \/ ResumeFails
           \/ FsCrashes
           \/ \E k \in chunks : Busy(k) \/ ChunkBegins(k)
    PROVE  FsIInv'
<1>1. CASE Expires \/ RemovesExpired \/ SendsChunk \/ Resumes \/ GivesUpWaiting \/ ResumeFails
           \/ \E k \in chunks : Busy(k)
  <2>1. UNCHANGED diskVars /\ op' = op
    BY <1>1 DEF Expires, RemovesExpired, SendsChunk, Resumes, GivesUpWaiting, ResumeFails, Busy
  <2> QED BY <2>1, FsFrame
<1>2. CASE FsCrashes
  <2>1. UNCHANGED diskVars /\ op' = NoOp
    BY <1>2 DEF FsCrashes
  <2> QED BY <2>1, FsReleases
<1>3. ASSUME NEW k \in chunks, ChunkBegins(k)
      PROVE  FsIInv'
  <2>1. /\ UNCHANGED diskVars
        /\ op' = [kind |-> "chunk", at |-> "write", path |-> UploadPath, old |-> Missing,
                  data |-> Uploaded, n |-> k.n, off |-> k.off]
    BY <1>3 DEF ChunkBegins, NoOp
  <2>2. OpOrder' /\ op'.at = "write"
    BY <2>1, FsConstants DEF OpOrder
  <2> QED BY <2>1, <2>2 DEF FsIInv, FsTypeOK, Found, InFiles, InBin, TargetIsFree, diskVars
<1> QED BY <1>1, <1>2, <1>3

LEMMA FsInitIInv == FsInit => FsIInv
<1> SUFFICES ASSUME FsInit PROVE FsIInv
  OBVIOUS
<1> DEFINE first == CHOOSE c \in Contents : TRUE
<1>1. SomePath \in Paths /\ first \in Contents /\ first # Missing
  BY FsConstants DEF SomePath
<1>2. file = [p \in Paths |-> IF p = SomePath THEN first ELSE Missing]
  BY DEF FsInit
<1>3. op = NoOp /\ bin = {} /\ kept = {first}
  BY <1>1, <1>2 DEF FsInit
<1>4. OpOrder /\ TargetIsFree
  BY <1>3 DEF OpOrder, TargetIsFree, NoOp
<1>5. FsTypeOK
  BY <1>1, <1>2, <1>3 DEF FsTypeOK
<1>6. Found
  BY <1>1, <1>2, <1>3 DEF Found, InFiles
<1> QED BY <1>4, <1>5, <1>6 DEF FsIInv

LEMMA FsNextIInv == FsIInv /\ [FsNext]_fsVars => FsIInv'
<1> SUFFICES ASSUME FsIInv, [FsNext]_fsVars PROVE FsIInv'
  OBVIOUS
<1>1. CASE FsRequest
  BY <1>1, FsRequests
<1>2. CASE \E p \in Paths, c \in Contents \cup {Missing} : ServerWrites(p, c)
  BY <1>2, ServerWritesIInv
<1>3. CASE FsSteps \/ GivesUpWaiting \/ ResumeFails \/ ChunkFails \/ FsCrashes
  BY <1>3, MakesEntryIInv, RecyclesIInv, PublishesIInv, FsOpSteps, FsUploadSteps DEF FsSteps
<1>4. CASE UNCHANGED fsVars
  BY <1>4, FsFrame DEF fsVars, diskVars
<1> QED BY <1>1, <1>2, <1>3, <1>4 DEF FsNext

\* A file that was there, or that an operation or the server put there, can be
\* found at some path or in the recycle bin, however often the daemon crashes,
\* the disk refuses and the server writes in between.
THEOREM FsFilesRecoverable == FsSpec => []FilesRecoverable
<1>1. FsIInv => FilesRecoverable
  <2> SUFFICES ASSUME FsIInv, NEW x \in kept
               PROVE  x \in Range(file) \cup {e.data : e \in bin}
    BY DEF FilesRecoverable
  <2>1. DOMAIN file = Paths
    BY DEF FsIInv, FsTypeOK
  <2> QED BY <2>1 DEF FsIInv, Found, InFiles, InBin, Range
<1> QED BY <1>1, FsInitIInv, FsNextIInv, PTL DEF FsSpec

-----------------------------------------------------------------------------
(***************************************************************************)
(* OperatorSync: for any panels, handlers and goroutines, any number of    *)
(* lost connections, failed saves, expired requests and restarts.          *)
(***************************************************************************)

\* A revision is used for one catalogue, the empty one has revision 0, and what the
\* registry has is the newest.
Archive(cats) ==
    /\ {Fresh, Catalog(operators)} \subseteq cats
    /\ \A c \in cats : c.rev \in Nat /\ c.rev <= operators.rev
    /\ \A c, d \in cats : c.rev = d.rev => c = d

Ids == [link : Nat, num : Nat]
Cmds(cats) == [link : Nat, num : Nat, cat : cats, late : BOOLEAN]
Working(cats) ==
    [at : {"begin", "send", "wait", "ok", "failed"}, cat : cats, link : Nat, num : Nat, by : Ids]

\* Catalogues of the archive travel, and nothing else.
Travels(cats) ==
    /\ plugin \in cats
    /\ platform \subseteq Cmds(cats)
    /\ plWire \in Seq(Cmds(cats) \cup {AuthOk})
    /\ plWork \in [Workers -> Working(cats) \cup {IdleWork}]

LinkTypeOK ==
    /\ gen \in Nat /\ sock \in Nat /\ conns \subseteq Links
    /\ seq \in [Links -> Nat]
    /\ answers \subseteq [cmd : Ids, ok : BOOLEAN]

\* The file is the registry, or what is about to be: a change that is saved and not
\* yet installed, or whose save has failed after the file was written.
FileIsAhead ==
    /\ operators.rev \in Nat
    /\ disk = operators \/ disk.rev = operators.rev + 1
    /\ opLock = [call |-> opLock.call, saved |-> opLock.saved]
    /\ opLock.saved => disk = Changed(opLock.call)
    /\ opSync = [state |-> opSync.state, rev |-> opSync.rev] /\ opSync.rev \in Nat

OsIInv == LinkTypeOK /\ FileIsAhead /\ \E cats : Archive(cats) /\ Travels(cats)

-----------------------------------------------------------------------------
LEMMA OsWork ==
    ASSUME NEW cats, Travels(cats), NEW w \in Workers, plWork[w].at # "idle"
    PROVE  plWork[w] \in Working(cats)
BY DEF Travels, IdleWork

LEMMA IdleIsIdle == IdleWork.at = "idle"
BY DEF IdleWork

\* One worker goes on.
LEMMA OsWorkGoesOn ==
    ASSUME NEW cats, Travels(cats), NEW w \in Workers, NEW x \in Working(cats) \cup {IdleWork},
           plWork' = [plWork EXCEPT ![w] = x]
    PROVE  plWork' \in [Workers -> Working(cats) \cup {IdleWork}]
BY DEF Travels

LEMMA SpawnTravels ==
    ASSUME NEW cats, Travels(cats), NEW c \in cats, Spawn(c)
    PROVE  plWork' \in [Workers -> Working(cats) \cup {IdleWork}]
<1>1. FreeWorker \in Workers
  BY DEF Spawn, FreeWorker, FreeWorkers
<1> DEFINE x == [IdleWork EXCEPT !.at = "begin", !.cat = c]
<1>2. IdleWork \in [at : {"idle"}, cat : {Nothing}, link : Nat, num : Nat, by : Ids]
  BY DEF IdleWork, NoCmd, Ids
<1>3. x \in Working(cats)
  <2>1. PICK i \in [at : {"idle"}, cat : {Nothing}, link : Nat, num : Nat, by : Ids] : i = IdleWork
    BY <1>2
  <2>2. [i EXCEPT !.at = "begin", !.cat = c] \in Working(cats)
    BY <2>1 DEF Working
  <2> QED BY <2>1, <2>2
<1>4. plWork' = [plWork EXCEPT ![FreeWorker] = x]
  BY DEF Spawn
<1> HIDE DEF x
<1> QED BY <1>1, <1>3, <1>4, OsWorkGoesOn

\* What a connection and the platform do with a command leaves its catalogue alone.
LEMMA LinkTravels ==
    ASSUME LinkTypeOK, NEW cats, Travels(cats), LinkStep, plugin' = plugin
    PROVE  LinkTypeOK' /\ Travels(cats)'
<1>1. CASE AuthRead
  <2>1. plWire' \in Seq(Cmds(cats) \cup {AuthOk})
    BY <1>1 DEF AuthRead, Travels
  <2> QED BY <1>1, <2>1 DEF AuthRead, Travels, LinkTypeOK
<1>2. CASE CommandRead
  <2>1. plWire' \in Seq(Cmds(cats) \cup {AuthOk})
    BY <1>2 DEF CommandRead, Travels
  <2>2. Head(plWire) \in Cmds(cats)
    BY <1>2 DEF CommandRead, Travels
  <2> QED BY <1>2, <2>1, <2>2 DEF CommandRead, Travels, LinkTypeOK
<1>3. ASSUME NEW w \in Workers, Sends(w)
      PROVE  LinkTypeOK' /\ Travels(cats)'
  <2> DEFINE l == plWork[w].link
             n == seq[l] + 1
             cmd == [link |-> l, num |-> n, cat |-> plWork[w].cat, late |-> FALSE]
  <2>1. plWork[w] \in Working(cats)
    BY <1>3, OsWork DEF Sends
  <2>2. CASE l \in conns
    <3>1. /\ seq' = [seq EXCEPT ![l] = n]
          /\ plWork' = [plWork EXCEPT ![w].at = "wait", ![w].num = n]
          /\ plWire' = IF l = sock THEN Append(plWire, cmd) ELSE plWire
      BY <1>3, <2>2 DEF Sends
    <3>2. n \in Nat /\ l \in Links /\ l \in Nat
      BY <2>1, <2>2 DEF LinkTypeOK, Working
    <3>3. cmd \in Cmds(cats)
      BY <2>1, <3>2 DEF Cmds, Working
    <3>4. plWire' \in Seq(Cmds(cats) \cup {AuthOk})
      <4> HIDE DEF cmd
      <4> QED BY <3>1, <3>3 DEF Travels
    <3>5. [plWork[w] EXCEPT !.at = "wait", !.num = n] \in Working(cats)
      BY <2>1, <3>2 DEF Working
    <3>6. plWork' = [plWork EXCEPT ![w] = [plWork[w] EXCEPT !.at = "wait", !.num = n]]
      BY <3>1 DEF Travels
    <3>7. plWork' \in [Workers -> Working(cats) \cup {IdleWork}]
      BY <3>5, <3>6, OsWorkGoesOn
    <3>8. seq' \in [Links -> Nat]
      BY <3>1, <3>2 DEF LinkTypeOK
    <3> QED BY <1>3, <3>4, <3>7, <3>8 DEF Sends, Travels, LinkTypeOK
  <2>3. CASE l \notin conns
    <3>1. plWork' = [plWork EXCEPT ![w].at = "failed"] /\ UNCHANGED <<seq, plWire>>
      BY <1>3, <2>3 DEF Sends
    <3>2. [plWork[w] EXCEPT !.at = "failed"] \in Working(cats)
      BY <2>1 DEF Working
    <3>3. plWork' = [plWork EXCEPT ![w] = [plWork[w] EXCEPT !.at = "failed"]]
      BY <3>1
    <3>4. plWork' \in [Workers -> Working(cats) \cup {IdleWork}]
      BY <3>2, <3>3, OsWorkGoesOn
    <3> QED BY <1>3, <3>1, <3>4 DEF Sends, Travels, LinkTypeOK
  <2> QED BY <2>2, <2>3
<1>4. ASSUME NEW w \in Workers, RequestFails(w)
      PROVE  LinkTypeOK' /\ Travels(cats)'
  <2>1. [plWork[w] EXCEPT !.at = "failed"] \in Working(cats)
    BY <1>4, OsWork DEF RequestFails, Working
  <2>2. plWork' = [plWork EXCEPT ![w] = [plWork[w] EXCEPT !.at = "failed"]]
    BY <1>4 DEF RequestFails
  <2>3. plWork' \in [Workers -> Working(cats) \cup {IdleWork}]
    BY <2>1, <2>2, OsWorkGoesOn
  <2> QED BY <1>4, <2>3 DEF RequestFails, Travels, LinkTypeOK
<1>5. ASSUME NEW a \in answers, HandleResponse(a)
      PROVE  LinkTypeOK' /\ Travels(cats)'
  <2>1. a \in [cmd : Ids, ok : BOOLEAN]
    BY DEF LinkTypeOK
  <2>2. ASSUME NEW w \in Waits(a)
        PROVE  [plWork[w] EXCEPT !.at = IF a.ok THEN "ok" ELSE "failed", !.by = a.cmd] \in Working(cats)
    <3>1. w \in Workers /\ plWork[w].at = "wait"
      BY DEF Waits
    <3>2. plWork[w] \in Working(cats)
      BY <3>1, OsWork
    <3> QED BY <2>1, <3>2 DEF Working
  <2>3. plWork' \in [Workers -> Working(cats) \cup {IdleWork}]
    BY <1>5, <2>2 DEF HandleResponse, Travels
  <2> QED BY <1>5, <2>3 DEF HandleResponse, Travels, LinkTypeOK
<1> QED BY <1>1, <1>2, <1>3, <1>4, <1>5 DEF LinkStep

\* An answer has the numbers of its command.
LEMMA AnsweredTypeOK ==
    ASSUME LinkTypeOK, NEW cats, NEW c \in Cmds(cats), NEW ok \in BOOLEAN, Answered(c, ok)
    PROVE  answers' \subseteq [cmd : Ids, ok : BOOLEAN]
<1> DEFINE x == [cmd |-> [link |-> c.link, num |-> c.num], ok |-> ok]
<1>1. x \in [cmd : Ids, ok : BOOLEAN]
  BY DEF Cmds, Ids
<1>2. answers' \subseteq answers \cup {x}
  BY DEF Answered
<1> HIDE DEF x
<1> QED BY <1>1, <1>2 DEF LinkTypeOK

LEMMA CommandRunsTravels ==
    ASSUME LinkTypeOK, NEW cats, Travels(cats), NEW c, NEW ok \in BOOLEAN, CommandRuns(c, ok),
           plugin' \in cats
    PROVE  LinkTypeOK' /\ Travels(cats)'
<1>1. c \in Cmds(cats)
  BY DEF CommandRuns, Travels
<1>2. answers' \subseteq [cmd : Ids, ok : BOOLEAN]
  <2>1. CASE c.late
    BY <2>1 DEF CommandRuns, LinkTypeOK
  <2>2. CASE ~c.late
    BY <1>1, <2>2, AnsweredTypeOK DEF CommandRuns
  <2> QED BY <2>1, <2>2
<1> QED BY <1>2 DEF CommandRuns, Travels, LinkTypeOK

LEMMA CommandExpiresTravels ==
    ASSUME LinkTypeOK, NEW cats, Travels(cats), NEW c, CommandExpires(c), plugin' = plugin
    PROVE  LinkTypeOK' /\ Travels(cats)'
<1>1. c \in Cmds(cats)
  BY DEF CommandExpires, Travels
<1>2. answers' \subseteq [cmd : Ids, ok : BOOLEAN]
  BY <1>1, AnsweredTypeOK DEF CommandExpires
<1>3. [c EXCEPT !.late = TRUE] \in Cmds(cats)
  <2>1. PICK yes \in BOOLEAN : yes = TRUE
    OBVIOUS
  <2>2. [c EXCEPT !.late = yes] \in Cmds(cats)
    BY <1>1 DEF Cmds
  <2> QED BY <2>1, <2>2
<1>4. platform' \subseteq Cmds(cats)
  BY <1>3 DEF CommandExpires, Travels
<1> QED BY <1>2, <1>4 DEF CommandExpires, Travels, LinkTypeOK

-----------------------------------------------------------------------------
osStore == <<operators, disk, opLock, opSync>>

LEMMA FileFrame ==
    ASSUME FileIsAhead, UNCHANGED osStore
    PROVE  FileIsAhead'
BY DEF FileIsAhead, osStore, Changed, Source

LEMMA ArchiveFrame ==
    ASSUME NEW cats, Archive(cats), operators' = operators
    PROVE  Archive(cats)'
BY DEF Archive, Catalog

\* What happens to the catalogues on their way leaves the archive as it is.
LEMMA OsFrame ==
    ASSUME OsIInv, UNCHANGED osStore,
           \A cats : Travels(cats) => LinkTypeOK' /\ Travels(cats)'
    PROVE  OsIInv'
<1>1. PICK cats : Archive(cats) /\ Travels(cats)
  BY DEF OsIInv
<1>2. Archive(cats)'
  BY <1>1, ArchiveFrame DEF osStore
<1>3. FileIsAhead'
  BY FileFrame DEF OsIInv
<1> QED BY <1>1, <1>2, <1>3 DEF OsIInv

LEMMA OsStutter ==
    ASSUME OsIInv, UNCHANGED <<osStore, plugin, plVars>>
    PROVE  OsIInv'
BY OsFrame DEF OsIInv, LinkTypeOK, Travels, plVars

\* The catalogue of a registry that has moved on by one revision is new.
LEMMA ArchiveGrows ==
    ASSUME NEW cats, Archive(cats), operators.rev \in Nat, operators'.rev = operators.rev + 1,
           NEW newest, newest = Catalog(operators')
    PROVE  Archive(cats \cup {newest})'
<1>1. newest.rev = operators.rev + 1
  BY DEF Catalog
<1>2. Fresh \in cats /\ \A c \in cats : c.rev \in Nat /\ c.rev <= operators.rev
  BY DEF Archive
<1>3. \A c \in cats \cup {newest} : c.rev \in Nat /\ c.rev <= operators'.rev
  BY <1>1, <1>2
<1>4. \A c, d \in cats \cup {newest} : c.rev = d.rev => c = d
  BY <1>1, <1>2 DEF Archive
<1>5. newest = Catalog(operators)'
  BY DEF Catalog
<1>6. Fresh' = Fresh
  BY DEF Fresh, NoList
<1> QED BY <1>2, <1>3, <1>4, <1>5, <1>6 DEF Archive

LEMMA TravelsGrows ==
    ASSUME NEW cats, NEW more, cats \subseteq more, Travels(cats)
    PROVE  Travels(more)
<1>1. Cmds(cats) \subseteq Cmds(more) /\ Working(cats) \subseteq Working(more)
  BY DEF Cmds, Working
<1>2. plWire \in Seq(Cmds(more) \cup {AuthOk})
  BY <1>1 DEF Travels
<1> QED BY <1>1, <1>2 DEF Travels

LEMMA SourceSteps ==
    ASSUME OsIInv, SavesSources \/ SaveFails \/ \E c \in calls : Takes(c)
    PROVE  OsIInv'
<1>1. UNCHANGED <<operators, opSync, plugin, plVars>>
  BY DEF SavesSources, SaveFails, Takes, gameVars
<1>2. \A c : Changed(c)' = Changed(c) /\ Changed(c).rev = operators.rev + 1
  BY <1>1 DEF Changed, Source
<1>3. FileIsAhead'
  <2>1. CASE SavesSources
    <3>1. disk' = Changed(opLock.call) /\ opLock' = [opLock EXCEPT !.saved = TRUE]
      BY <2>1 DEF SavesSources
    <3>2. opLock' = [call |-> opLock.call, saved |-> TRUE]
      BY <3>1 DEF OsIInv, FileIsAhead
    <3> QED BY <1>1, <1>2, <3>1, <3>2 DEF OsIInv, FileIsAhead
  <2>2. CASE SaveFails
    <3>1. disk' \in {disk, Changed(opLock.call)} /\ opLock' = [call |-> NoCall, saved |-> FALSE]
      BY <2>2 DEF SaveFails
    <3> QED BY <1>1, <1>2, <3>1 DEF OsIInv, FileIsAhead
  <2>3. ASSUME NEW c \in calls, Takes(c)
        PROVE  FileIsAhead'
    <3>1. disk' = disk /\ opLock' = [call |-> c, saved |-> FALSE]
      BY <2>3 DEF Takes
    <3> QED BY <1>1, <3>1 DEF OsIInv, FileIsAhead
  <2> QED BY <2>1, <2>2, <2>3
<1>4. PICK cats : Archive(cats) /\ Travels(cats)
  BY DEF OsIInv
<1>5. Archive(cats)'
  BY <1>1, <1>4, ArchiveFrame
<1>6. Travels(cats)' /\ LinkTypeOK'
  BY <1>1, <1>4 DEF OsIInv, Travels, LinkTypeOK, plVars
<1> QED BY <1>3, <1>5, <1>6 DEF OsIInv

LEMMA InstallsIInv ==
    ASSUME OsIInv, Installs
    PROVE  OsIInv'
<1>1. /\ opLock.saved /\ operators' = Changed(opLock.call)
      /\ opLock' = [call |-> NoCall, saved |-> FALSE]
      /\ Spawn(Catalog(operators')) /\ UNCHANGED <<disk, opSync, plugin>>
      /\ UNCHANGED <<gen, sock, conns, seq, answers, platform, plWire>>
  BY DEF Installs, gameVars
<1>2. operators'.rev = operators.rev + 1 /\ operators.rev \in Nat /\ disk = operators'
  BY <1>1 DEF Changed, OsIInv, FileIsAhead
<1>3. FileIsAhead'
  BY <1>1, <1>2 DEF OsIInv, FileIsAhead
<1>4. PICK cats : Archive(cats) /\ Travels(cats)
  BY DEF OsIInv
<1>5. PICK newest : newest = Catalog(operators')
  OBVIOUS
<1>6. PICK more : more = cats \cup {newest}
  OBVIOUS
<1>7. Archive(more)'
  BY <1>2, <1>4, <1>5, <1>6, ArchiveGrows
<1>8. Travels(more) /\ newest \in more
  BY <1>4, <1>6, TravelsGrows
<1>9. plWork' \in [Workers -> Working(more) \cup {IdleWork}]
  BY <1>1, <1>8, <1>5, SpawnTravels
<1>10. Travels(more)' /\ LinkTypeOK'
  BY <1>1, <1>8, <1>9 DEF OsIInv, Travels, LinkTypeOK
<1> QED BY <1>3, <1>7, <1>10 DEF OsIInv

\* The daemon begins again with the file, which is ahead by one change at most.
LEMMA RegistryRestartsIInv ==
    ASSUME OsIInv, RegistryRestarts
    PROVE  OsIInv'
<1>1. /\ operators' = disk /\ disk' = disk /\ opLock' = [call |-> NoCall, saved |-> FALSE]
      /\ opSync' = [state |-> "none", rev |-> 0] /\ plugin' = plugin /\ LinkForgotten
  BY DEF RegistryRestarts, gameVars
<1>2. FileIsAhead'
  BY <1>1 DEF OsIInv, FileIsAhead
<1>3. LinkTypeOK'
  BY <1>1 DEF LinkForgotten, Disconnected, OsIInv, LinkTypeOK
<1>4. PICK cats : Archive(cats) /\ Travels(cats)
  BY DEF OsIInv
<1>5. ASSUME NEW more, Travels(more)
      PROVE  Travels(more)'
  <2>1. plWire' \in Seq(Cmds(more) \cup {AuthOk})
    BY <1>1 DEF LinkForgotten, Disconnected
  <2> QED BY <1>1, <1>5, <2>1 DEF LinkForgotten, Disconnected, Travels
<1>6. CASE disk = operators
  <2>1. Archive(cats)'
    BY <1>1, <1>4, <1>6, ArchiveFrame
  <2> QED BY <1>2, <1>3, <1>4, <1>5, <2>1 DEF OsIInv
<1>7. CASE disk # operators
  <2>1. PICK newest : newest = Catalog(operators')
    OBVIOUS
  <2>2. PICK more : more = cats \cup {newest}
    OBVIOUS
  <2>3. operators'.rev = operators.rev + 1 /\ operators.rev \in Nat
    BY <1>1, <1>7 DEF OsIInv, FileIsAhead
  <2>4. Archive(more)'
    BY <2>3, <2>1, <2>2, <1>4, ArchiveGrows
  <2>5. Travels(more)
    BY <1>4, <2>2, TravelsGrows
  <2>6. Travels(more)'
    BY <1>5, <2>5
  <2> QED BY <1>2, <1>3, <2>4, <2>6 DEF OsIInv
<1> QED BY <1>6, <1>7

\* The connection opens and closes, and the server starts and ends.
LEMMA ConnectionSteps ==
    ASSUME OsIInv,
           \/ PluginConnects \/ ServerStarts \/ ServerEnds
           \/ LinkBreaks /\ UNCHANGED <<storeVars, opSync, gameVars>>
    PROVE  OsIInv'
<1>1. UNCHANGED osStore
  BY DEF PluginConnects, ServerStarts, ServerEnds, storeVars, osStore
<1>2. ASSUME NEW cats, Travels(cats), Archive(cats)
      PROVE  LinkTypeOK' /\ Travels(cats)'
  <2>1. Fresh \in cats
    BY <1>2 DEF Archive
  <2>2. <<>> \in Seq(Cmds(cats) \cup {AuthOk}) /\ <<AuthOk>> \in Seq(Cmds(cats) \cup {AuthOk})
    OBVIOUS
  <2>3. CASE PluginConnects
    <3>1. gen + 1 \in Links /\ gen + 1 \in Nat
      BY <2>3, PlConstants DEF PluginConnects, Registers, OsIInv, LinkTypeOK, Links
    <3> QED BY <1>2, <2>2, <2>3, <3>1 DEF PluginConnects, Registers, OsIInv, LinkTypeOK, Travels, gameVars
  <2>4. CASE ServerStarts
    BY <1>2, <2>1, <2>4 DEF ServerStarts, GameStarts, OsIInv, LinkTypeOK, Travels
  <2>5. CASE ServerEnds
    BY <1>2, <2>1, <2>2, <2>5 DEF ServerEnds, GameEnds, Disconnected, OsIInv, LinkTypeOK, Travels
  <2>6. CASE LinkBreaks /\ UNCHANGED <<storeVars, opSync, gameVars>>
    BY <1>2, <2>2, <2>6 DEF LinkBreaks, Disconnected, OsIInv, LinkTypeOK, Travels, gameVars
  <2> QED BY <2>3, <2>4, <2>5, <2>6
<1>3. PICK cats : Archive(cats) /\ Travels(cats)
  BY DEF OsIInv
<1>4. Archive(cats)'
  BY <1>1, <1>3, ArchiveFrame DEF osStore
<1>5. FileIsAhead'
  BY <1>1, FileFrame DEF OsIInv
<1> QED BY <1>2, <1>3, <1>4, <1>5 DEF OsIInv

\* A goroutine hands the catalogue on; what it reports is of that revision or of a
\* newer one.
LEMMA ApplySteps ==
    ASSUME OsIInv, \E w \in Workers : ApplyBegins(w) \/ ApplyEnds(w)
    PROVE  /\ OsIInv'
           /\ opSync'.rev >= opSync.rev
<1>0. PICK w \in Workers : ApplyBegins(w) \/ ApplyEnds(w)
  OBVIOUS
<1>1. PICK cats : Archive(cats) /\ Travels(cats)
  BY DEF OsIInv
<1>2. plWork[w] \in Working(cats)
  BY <1>0, <1>1, OsWork DEF ApplyBegins, ApplyEnds
<1>3. plWork[w].cat.rev \in Nat
  BY <1>1, <1>2 DEF Working, Archive
<1>4. \/ opSync' = opSync
      \/ /\ opSync' = [state |-> opSync'.state, rev |-> plWork[w].cat.rev]
         /\ opSync.rev <= plWork[w].cat.rev
  BY <1>0 DEF ApplyBegins, ApplyEnds
<1>5. UNCHANGED <<operators, disk, opLock, plugin, platform, plWire, gen, sock, conns, seq, answers>>
  BY <1>0 DEF ApplyBegins, ApplyEnds, storeVars, gameVars, linkOnly
<1>6. opSync'.rev >= opSync.rev /\ FileIsAhead'
  BY <1>3, <1>4, <1>5 DEF OsIInv, FileIsAhead, Changed, Source
<1>7. LinkTypeOK' /\ Archive(cats)'
  BY <1>1, <1>5, ArchiveFrame DEF OsIInv, LinkTypeOK
<1>8. plWork' \in [Workers -> Working(cats) \cup {IdleWork}]
  <2>1. [plWork[w] EXCEPT !.at = "send", !.link = gen] \in Working(cats)
    BY <1>2 DEF Working, OsIInv, LinkTypeOK
  <2> DEFINE x == [plWork[w] EXCEPT !.at = "send", !.link = gen]
  <2>2. plWork' \in {[plWork EXCEPT ![w] = x], [plWork EXCEPT ![w] = IdleWork]}
    BY <1>0 DEF ApplyBegins, ApplyEnds
  <2> HIDE DEF x
  <2> QED BY <1>1, <2>1, <2>2, OsWorkGoesOn DEF x
<1>9. Travels(cats)'
  BY <1>1, <1>5, <1>8 DEF Travels
<1> QED BY <1>6, <1>7, <1>9 DEF OsIInv

LEMMA ConnectionClosesIInv ==
    ASSUME OsIInv, NEW l, ConnectionCloses(l)
    PROVE  OsIInv'
<1>1. UNCHANGED <<operators, disk, opLock, plugin, gen, sock, plWire, platform, answers, seq, plWork>>
      /\ conns' = conns \ {l}
  BY DEF ConnectionCloses, Closes, storeVars, gameVars
<1>2. opSync' = [state |-> opSync'.state, rev |-> opSync.rev]
  BY DEF ConnectionCloses, OsIInv, FileIsAhead
<1>3. FileIsAhead'
  BY <1>1, <1>2 DEF OsIInv, FileIsAhead, Changed, Source
<1>4. PICK cats : Archive(cats) /\ Travels(cats)
  BY DEF OsIInv
<1>5. Archive(cats)'
  BY <1>1, <1>4, ArchiveFrame
<1>6. Travels(cats)' /\ LinkTypeOK'
  BY <1>1, <1>4 DEF OsIInv, Travels, LinkTypeOK
<1> QED BY <1>3, <1>5, <1>6 DEF OsIInv

LEMMA RestoresIInv ==
    ASSUME OsIInv, NEW l, Restores(l)
    PROVE  OsIInv'
<1>1. UNCHANGED <<osStore, plugin, gen, sock, conns, plWire, platform, answers, seq>>
  BY DEF Restores, osStore, gameVars, linkOnly
<1>2. ASSUME NEW cats, Travels(cats), Archive(cats)
      PROVE  plWork' \in [Workers -> Working(cats) \cup {IdleWork}]
  <2>1. Catalog(operators) \in cats
    BY <1>2 DEF Archive
  <2>2. CASE operators.rev = 0
    BY <1>2, <2>2 DEF Restores, Travels
  <2>3. CASE operators.rev # 0
    <3>1. Spawn(Catalog(operators))
      BY <2>3 DEF Restores
    <3> QED BY <1>2, <2>1, <3>1, SpawnTravels
  <2> QED BY <2>2, <2>3
<1>3. PICK cats : Archive(cats) /\ Travels(cats)
  BY DEF OsIInv
<1>4. Archive(cats)' /\ FileIsAhead'
  BY <1>1, <1>3, ArchiveFrame, FileFrame DEF OsIInv, osStore
<1>5. Travels(cats)' /\ LinkTypeOK'
  BY <1>1, <1>2, <1>3 DEF OsIInv, Travels, LinkTypeOK
<1> QED BY <1>4, <1>5 DEF OsIInv

\* What the plugin does with a command, in the platform's thread or in time.
LEMMA CommandSteps ==
    ASSUME OsIInv, NEW c, Replaces(c) \/ (CommandExpires(c) /\ UNCHANGED osVars)
    PROVE  OsIInv'
<1>1. UNCHANGED osStore
  BY DEF Replaces, osStore, osVars, storeVars
<1>2. ASSUME NEW cats, Travels(cats), Archive(cats)
      PROVE  LinkTypeOK' /\ Travels(cats)'
  <2>1. CASE CommandExpires(c) /\ UNCHANGED osVars
    BY <1>2, <2>1, CommandExpiresTravels DEF OsIInv, osVars
  <2>2. CASE Replaces(c)
    <3>1. c.cat \in cats /\ plugin \in cats
      BY <1>2, <2>2 DEF Replaces, Travels, Cmds
    <3>2. plugin' \in cats
      BY <2>2, <3>1 DEF Replaces, gameVars
    <3>3. \E ok \in BOOLEAN : CommandRuns(c, ok)
      BY <2>2 DEF Replaces
    <3> QED BY <1>2, <3>2, <3>3, CommandRunsTravels DEF OsIInv
  <2> QED BY <2>1, <2>2
<1>3. PICK cats : Archive(cats) /\ Travels(cats)
  BY DEF OsIInv
<1>4. Archive(cats)' /\ FileIsAhead'
  BY <1>1, <1>3, ArchiveFrame, FileFrame DEF OsIInv, osStore
<1> QED BY <1>2, <1>3, <1>4 DEF OsIInv

LEMMA LinkStepIInv ==
    ASSUME OsIInv, LinkStep, UNCHANGED osVars
    PROVE  OsIInv'
<1>1. UNCHANGED osStore /\ plugin' = plugin
  BY DEF osVars, osStore
<1> QED BY <1>1, OsFrame, LinkTravels DEF OsIInv

\* The panels, and what happens to the list of the server itself.
PanelStep ==
    \/ \E p \in Panels, h \in Handlers :
           ReadsRevision(p, h) \/ ReadsList(p, h) \/ Calls(p, h) \/ CallEnds(p, h)
    \/ \E p \in Panels : GoesOnline(p) \/ Edits(p) \/ Activates(p) \/ GoesOffline(p)
                            \/ \E m \in BOOLEAN : PanelRestarts(p, m)
    \/ \E c \in calls : Refuses(c)
    \/ Corrects \/ Drifts

LEMMA PanelStepIInv ==
    ASSUME OsIInv, PanelStep
    PROVE  OsIInv'
<1>1. UNCHANGED <<osStore, plugin, plVars>>
  <2>1. ASSUME NEW p \in Panels, NEW h \in Handlers,
               ReadsRevision(p, h) \/ ReadsList(p, h) \/ Calls(p, h) \/ CallEnds(p, h)
        PROVE  UNCHANGED <<osStore, plugin, plVars>>
    BY <2>1 DEF ReadsRevision, ReadsList, Calls, CallEnds, storeVars, gameVars, osStore
  <2>2. ASSUME NEW p \in Panels,
               GoesOnline(p) \/ Edits(p) \/ Activates(p) \/ GoesOffline(p)
                  \/ \E m \in BOOLEAN : PanelRestarts(p, m)
        PROVE  UNCHANGED <<osStore, plugin, plVars>>
    BY <2>2 DEF GoesOnline, Edits, Activates, GoesOffline, PanelRestarts, storeVars, gameVars, osStore
  <2>3. ASSUME NEW c \in calls, Refuses(c)
        PROVE  UNCHANGED <<osStore, plugin, plVars>>
    BY <2>3 DEF Refuses, storeVars, gameVars, osStore
  <2>4. CASE Corrects \/ Drifts
    BY <2>4 DEF Corrects, Drifts, storeVars, osStore
  <2> QED BY <2>1, <2>2, <2>3, <2>4 DEF PanelStep
<1> QED BY <1>1, OsStutter

LEMMA OsInitIInv == OsInit => OsIInv
<1> SUFFICES ASSUME OsInit PROVE OsIInv
  OBVIOUS
<1>1. /\ gen = 0 /\ sock = 0 /\ conns = {} /\ answers = {} /\ platform = {} /\ plWire = <<>>
      /\ seq = [l \in Links |-> 0] /\ plWork = [w \in Workers |-> IdleWork]
  BY DEF OsInit, PlInit
<1>2. /\ operators = [rev |-> 0, src |-> [p \in Panels |-> IdleTask]] /\ disk = operators
      /\ opLock = [call |-> NoCall, saved |-> FALSE] /\ opSync = [state |-> "none", rev |-> 0]
      /\ plugin = Fresh
  BY DEF OsInit
<1>3. LinkTypeOK
  BY <1>1 DEF LinkTypeOK
<1>4. FileIsAhead
  BY <1>2 DEF FileIsAhead
<1>5. Catalog(operators) = Fresh
  <2>1. IdleTask.list = 0
    BY DEF IdleTask
  <2>2. [p \in Panels |-> operators.src[p].list] = NoList
    BY <1>2, <2>1 DEF NoList
  <2>3. ~\E p \in Panels : operators.src[p] # IdleTask
    BY <1>2
  <2>4. Catalog(operators).rev = 0 /\ operators.rev = 0
    BY <1>2 DEF Catalog
  <2> QED BY <2>2, <2>3, <2>4 DEF Catalog, Fresh
<1>6. Archive({Fresh})
  <2>1. Fresh.rev = 0 /\ operators.rev = 0
    BY <1>2 DEF Fresh
  <2> QED BY <1>5, <2>1 DEF Archive
<1>7. Travels({Fresh})
  BY <1>1, <1>2 DEF Travels
<1> QED BY <1>3, <1>4, <1>6, <1>7 DEF OsIInv

LEMMA OsNextIInv == OsIInv /\ [OsNext]_<<osVars, plVars>> => OsIInv'
<1> SUFFICES ASSUME OsIInv, [OsNext]_<<osVars, plVars>> PROVE OsIInv'
  OBVIOUS
<1>1. CASE OsStep
  <2>1. CASE \E l \in restoring : Restores(l)
    BY <2>1, RestoresIInv
  <2>2. CASE \E l \in conns : ConnectionCloses(l)
    BY <2>2, ConnectionClosesIInv
  <2>3. ASSUME NEW c \in platform, Replaces(c)
        PROVE  OsIInv'
    BY <2>3, CommandSteps
  <2>4. CASE LinkStep /\ UNCHANGED osVars
    BY <2>4, LinkStepIInv
  <2>5. CASE PanelStep
    BY <2>5, PanelStepIInv
  <2> QED BY <1>1, <2>1, <2>2, <2>3, <2>4, <2>5, SourceSteps, InstallsIInv, ApplySteps,
            ConnectionSteps DEF OsStep, PanelStep
<1>2. CASE PanelStep
  BY <1>2, PanelStepIInv
<1>3. CASE \E c \in platform : CommandExpires(c) /\ UNCHANGED osVars
  BY <1>3, CommandSteps
<1>4. CASE LinkBreaks /\ Trouble /\ UNCHANGED <<panelVars, calls, storeVars, opSync, gameVars>>
  BY <1>4, ConnectionSteps
<1>5. CASE SaveFails \/ ServerStarts \/ ServerEnds \/ RegistryRestarts
  BY <1>5, SourceSteps, ConnectionSteps, RegistryRestartsIInv
<1>6. CASE UNCHANGED <<osVars, plVars>>
  BY <1>6, OsStutter DEF osVars, osStore
<1> QED BY <1>1, <1>2, <1>3, <1>4, <1>5, <1>6 DEF OsNext, PanelStep

\* One revision, one list of operators: a plugin that outlives the daemon, an answer
\* that comes late and a file that was written although its save failed never bring
\* two lists under the same revision to a server.
THEOREM OsRevisionMeansContent == OsSpec => []RevisionMeansContent
<1>1. OsIInv => RevisionMeansContent
  <2> SUFFICES ASSUME OsIInv PROVE RevisionMeansContent
    OBVIOUS
  <2>1. PICK cats : Archive(cats) /\ Travels(cats)
    BY DEF OsIInv
  <2>2. \A w \in Workers \ FreeWorkers : plWork[w].cat \in cats
    <3> TAKE w \in Workers \ FreeWorkers
    <3>1. plWork[w] \in Working(cats)
      BY <2>1, OsWork DEF FreeWorkers
    <3> QED BY <3>1 DEF Working
  <2>3. \A c \in platform : c.cat \in cats
    BY <2>1 DEF Travels, Cmds
  <2>4. Catalogs \subseteq cats
    BY <2>1, <2>2, <2>3 DEF Catalogs, Archive, Travels
  <2>5. operators.rev <= disk.rev /\ operators.rev \in Nat /\ disk.rev \in Nat
    BY DEF OsIInv, FileIsAhead
  <2>6. \A c \in cats : c.rev <= disk.rev
    BY <2>1, <2>5 DEF Archive
  <2> QED BY <2>1, <2>4, <2>6 DEF RevisionMeansContent, Archive
<1> QED BY <1>1, OsInitIInv, OsNextIInv, PTL DEF OsSpec

\* The revision that is reported for a server does not go back while the daemon
\* runs, in whatever order the goroutines of older catalogues end.
THEOREM OsStatusGoesForward == OsSpec => StatusGoesForward
<1>1. OsIInv /\ [OsNext]_<<osVars, plVars>>
        => [opSync'.rev >= opSync.rev \/ opSync'.state = "none"]_opSync
  <2> SUFFICES ASSUME OsIInv, [OsNext]_<<osVars, plVars>>, opSync' # opSync
               PROVE  opSync'.rev >= opSync.rev \/ opSync'.state = "none"
    OBVIOUS
  <2>1. CASE \E w \in Workers : ApplyBegins(w) \/ ApplyEnds(w)
    BY <2>1, ApplySteps
  <2>2. ASSUME NEW l \in conns, ConnectionCloses(l)
        PROVE  opSync'.rev >= opSync.rev
    <3>1. opSync' = [opSync EXCEPT !.state = "pending"]
      BY <2>2 DEF ConnectionCloses
    <3> QED BY <3>1 DEF OsIInv, FileIsAhead
  <2>3. CASE RegistryRestarts
    BY <2>3 DEF RegistryRestarts
  <2>4. CASE PanelStep
    BY <2>4 DEF PanelStep, ReadsRevision, ReadsList, Calls, CallEnds, GoesOnline, Edits, Activates,
                GoesOffline, PanelRestarts, Refuses, Corrects, Drifts
  <2>5. CASE SavesSources \/ SaveFails \/ (\E c \in calls : Takes(c)) \/ Installs
    BY <2>5 DEF SavesSources, SaveFails, Takes, Installs
  <2>6. CASE PluginConnects \/ (\E l \in restoring : Restores(l)) \/ (\E c \in platform : Replaces(c))
    BY <2>6 DEF PluginConnects, Restores, Replaces
  <2>7. CASE ServerStarts \/ ServerEnds
    BY <2>7 DEF ServerStarts, ServerEnds
  <2>8. ~UNCHANGED osVars /\ ~UNCHANGED opSync
    BY DEF osVars
  <2> QED BY <2>1, <2>2, <2>3, <2>4, <2>5, <2>6, <2>7, <2>8 DEF OsNext, OsStep, PanelStep, osVars
<1>2. OsSpec => []OsIInv
  BY OsInitIInv, OsNextIInv, PTL DEF OsSpec
<1> QED BY <1>1, <1>2, PTL DEF OsSpec, StatusGoesForward

-----------------------------------------------------------------------------
(* The first message of a connection.                                      *)

\* What a connection that is not authenticated has to read begins with the answer to
\* the authentication.
AuthIsAhead ==
    /\ sock = 0 => ~authed /\ plWire = <<>>
    /\ sock # 0 /\ ~authed => plWire # <<>> /\ Head(plWire) = AuthOk

linkHead == <<sock, authed, plWire>>

LEMMA AuthFrame ==
    ASSUME AuthIsAhead, UNCHANGED linkHead
    PROVE  AuthIsAhead'
BY DEF AuthIsAhead, linkHead

\* A command goes behind what is on its way.
LEMMA SendsAfterAuth ==
    ASSUME AuthIsAhead, conns \subseteq Links, NEW S, plWire \in Seq(S), NEW w \in Workers, Sends(w)
    PROVE  AuthIsAhead'
<1>1. CASE plWire' = plWire
  BY <1>1, AuthFrame DEF Sends, linkHead
<1>2. CASE plWire' # plWire
  <2>1. PICK c : plWire' = Append(plWire, c)
    BY <1>2 DEF Sends
  <2>2. sock \in Links /\ sock' = sock /\ authed' = authed
    BY <1>2 DEF Sends
  <2>3. sock # 0
    BY <2>2, PlConstants DEF Links
  <2>4. plWire # <<>> => plWire' # <<>> /\ Head(plWire') = Head(plWire)
    <3>1. plWire \in Seq(S \cup {c}) /\ c \in S \cup {c}
      OBVIOUS
    <3> QED BY <2>1, <3>1
  <2> QED BY <2>2, <2>3, <2>4 DEF AuthIsAhead
<1> QED BY <1>1, <1>2

LEMMA LinkStepAuth ==
    ASSUME AuthIsAhead, conns \subseteq Links, NEW S, plWire \in Seq(S), LinkStep
    PROVE  AuthIsAhead'
<1>1. CASE AuthRead
  BY <1>1 DEF AuthRead, AuthIsAhead
<1>2. CASE CommandRead
  BY <1>2 DEF CommandRead, AuthIsAhead
<1>3. ASSUME NEW w \in Workers, Sends(w)
      PROVE  AuthIsAhead'
  BY <1>3, SendsAfterAuth
<1>4. CASE (\E w \in Workers : RequestFails(w)) \/ (\E a \in answers : HandleResponse(a))
  BY <1>4, AuthFrame DEF RequestFails, HandleResponse, linkHead
<1> QED BY <1>1, <1>2, <1>3, <1>4 DEF LinkStep

\* A connection begins and ends with nothing but the answer to read.
LEMMA NewLinkAuth ==
    ASSUME \/ Disconnected
           \/ sock' # 0 /\ plWire' = <<AuthOk>>
    PROVE  AuthIsAhead'
<1>1. <<AuthOk>> # <<>> /\ Head(<<AuthOk>>) = AuthOk /\ AuthOk' = AuthOk
  BY DEF AuthOk, Nothing
<1> QED BY <1>1 DEF Disconnected, AuthIsAhead

LEMMA OsNextAuth == AuthIsAhead /\ OsIInv /\ [OsNext]_<<osVars, plVars>> => AuthIsAhead'
<1> SUFFICES ASSUME AuthIsAhead, OsIInv, [OsNext]_<<osVars, plVars>> PROVE AuthIsAhead'
  OBVIOUS
<1>0. conns \subseteq Links /\ gen \in Nat /\ \E S : plWire \in Seq(S)
  BY DEF OsIInv, LinkTypeOK, Travels
<1>1. CASE LinkStep
  BY <1>0, <1>1, LinkStepAuth
<1>2. CASE PluginConnects
  <2>1. sock' = gen + 1 /\ plWire' = <<AuthOk>>
    BY <1>2 DEF PluginConnects, Registers
  <2> QED BY <1>0, <2>1, NewLinkAuth
<1>3. CASE LinkBreaks \/ ServerEnds \/ RegistryRestarts
  BY <1>3, NewLinkAuth DEF LinkBreaks, ServerEnds, GameEnds, RegistryRestarts, LinkForgotten
<1>4. CASE PanelStep
  <2>1. UNCHANGED plVars
    BY <1>4 DEF PanelStep, ReadsRevision, ReadsList, Calls, CallEnds, GoesOnline, Edits, Activates,
                GoesOffline, PanelRestarts, Refuses, Corrects, Drifts
  <2> QED BY <2>1, AuthFrame DEF plVars, linkHead
<1>5. CASE SavesSources \/ SaveFails \/ (\E c \in calls : Takes(c)) \/ Installs
  BY <1>5, AuthFrame DEF SavesSources, SaveFails, Takes, Installs, plVars, linkHead
<1>6. CASE (\E w \in Workers : ApplyBegins(w) \/ ApplyEnds(w)) \/ \E l \in restoring : Restores(l)
  BY <1>6, AuthFrame DEF ApplyBegins, ApplyEnds, Restores, linkOnly, linkHead
<1>7. CASE (\E l \in conns : ConnectionCloses(l)) \/ ServerStarts
  BY <1>7, AuthFrame DEF ConnectionCloses, Closes, ServerStarts, GameStarts, linkHead
<1>8. CASE \E c \in platform : Replaces(c) \/ CommandExpires(c)
  BY <1>8, AuthFrame DEF Replaces, CommandRuns, CommandExpires, linkHead
<1>9. CASE UNCHANGED <<osVars, plVars>>
  BY <1>9, AuthFrame DEF plVars, linkHead
<1> QED BY <1>1, <1>2, <1>3, <1>4, <1>5, <1>6, <1>7, <1>8, <1>9 DEF OsNext, OsStep, PanelStep

\* No catalogue is dropped by a plugin that does not know yet that it is authenticated,
\* whatever breaks, expires and restarts between a connection and the next.
THEOREM OsAuthComesFirst == OsSpec => []AuthComesFirst
<1>1. OsInit => AuthIsAhead
  BY DEF OsInit, PlInit, AuthIsAhead
<1>2. AuthIsAhead => AuthComesFirst
  BY DEF AuthIsAhead, AuthComesFirst
<1> QED BY <1>1, <1>2, OsInitIInv, OsNextIInv, OsNextAuth, PTL DEF OsSpec

-----------------------------------------------------------------------------
(***************************************************************************)
(* PluginFiles: for any builds, any number of requests, starts, failures   *)
(* and crashes, and a queue of any length.                                 *)
(***************************************************************************)

Jars == [build : Builds \cup {0}, on : BOOLEAN]

\* What an operation makes of the build.
Made(todo, b) == IF todo.do = "deploy" THEN todo.build ELSE IF todo.do = "uninstall" THEN 0 ELSE b

\* What the operations make, as functions on a set of states.
Results == [x \in Requests0 \X Jars |-> Result(x[1], x[2])]
Makes   == [x \in Requests0 \X (Builds \cup {0}) |-> Made(x[1], x[2])]

\* The operations of a queue lead from one state to another: f has the states between
\* them.
Leads(R, S, q, j, k) ==
    \E f \in [0 .. Len(q) -> S] :
        /\ f[0] = j /\ f[Len(q)] = k
        /\ \A i \in 1 .. Len(q) : f[i] = R[<<q[i], f[i - 1]>>]

LeadsTo(q, j, k)    == Leads(Results, Jars, q, j, k)
LeadsBuild(q, b, c) == Leads(Makes, Builds \cup {0}, q, b, c)

PfTypeOK ==
    /\ jar \in Jars /\ backup \in Jars
    /\ pending \in Seq(Requests0)
    /\ asked \in [jar : Jars, gone : BOOLEAN, hurt : BOOLEAN, woken : BOOLEAN, early : BOOLEAN]
    /\ job = [kind |-> job.kind, at |-> job.at, do |-> job.do, build |-> job.build]
    /\ job.at = "idle" \/ (job.at \in {"apply", "swap", "flag", "queued"} /\ job.kind \in {"live", "still"})
          \/ (job.at \in {"load", "swap", "drop", "save", "exec"} /\ job.kind = "start")
    /\ job.at = "apply" => TheOp \in Requests0

\* What the step of an operation has reached.
JobInOrder ==
    /\ job.at = "swap" => /\ job.do = "deploy" /\ job.build \in Builds
                          /\ jar = NoJar /\ backup.build # 0
    /\ job.kind = "start" /\ job.at \in {"swap", "drop", "save"} => pending # <<>> /\ Head(pending) = TheOp
    /\ job.at \in {"drop", "save"} => /\ Result(TheOp, jar) = jar
                                      /\ jar.build = 0 => job.do = "uninstall"
    /\ job.at = "exec" => pending = <<>>

\* The file, be it put aside.
TheFile == IF job.at = "swap" THEN backup ELSE jar

\* The queue leads from the file to what was asked for last.
QueueLeads ==
    \/ asked.early \/ asked.hurt
    \/ /\ LeadsBuild(pending, TheFile.build, asked.jar.build)
       /\ asked.woken \/ LeadsTo(pending, TheFile, asked.jar)

PfIInv == PfTypeOK /\ JobInOrder /\ QueueLeads /\ InstalledStays
-----------------------------------------------------------------------------
LEMMA OpRequested ==
    ASSUME NEW todo \in Requests0
    PROVE  /\ todo.do \in {"deploy", "enable", "disable", "uninstall"}
           /\ todo.do = "deploy" => todo.build \in Builds
           /\ Todo(todo.do, todo.build) = todo
BY DEF Requests0, Todo

LEMMA ResultIs ==
    ASSUME NEW todo \in Requests0, NEW j \in Jars
    PROVE  /\ Result(todo, j) \in Jars
           /\ Result(todo, j).build = Made(todo, j.build)
           /\ todo.do = "deploy" => Result(todo, j) = [build |-> todo.build, on |-> j.build = 0 \/ j.on]
           /\ todo.do = "uninstall" => Result(todo, j) = NoJar
<1>1. CASE todo.do = "deploy"
  <2>1. Result(todo, j) = [build |-> todo.build, on |-> j.build = 0 \/ j.on]
    BY <1>1 DEF Result
  <2>2. todo.build \in Builds /\ (j.build = 0 \/ j.on) \in BOOLEAN
    BY <1>1, OpRequested
  <2> QED BY <1>1, <2>1, <2>2 DEF Jars, Made
<1>2. CASE todo.do = "enable"
  <2>1. Result(todo, j) = [j EXCEPT !.on = TRUE]
    BY <1>2 DEF Result
  <2>2. PICK yes \in BOOLEAN : yes = TRUE
    OBVIOUS
  <2>3. [j EXCEPT !.on = yes] \in Jars /\ [j EXCEPT !.on = yes].build = j.build
    BY DEF Jars
  <2> QED BY <1>2, <2>1, <2>2, <2>3 DEF Made
<1>3. CASE todo.do = "disable"
  <2>1. Result(todo, j) = [j EXCEPT !.on = FALSE]
    BY <1>3 DEF Result
  <2>2. PICK no \in BOOLEAN : no = FALSE
    OBVIOUS
  <2>3. [j EXCEPT !.on = no] \in Jars /\ [j EXCEPT !.on = no].build = j.build
    BY DEF Jars
  <2> QED BY <1>3, <2>1, <2>2, <2>3 DEF Made
<1>4. CASE todo.do = "uninstall"
  <2>1. Result(todo, j) = NoJar
    BY <1>4 DEF Result
  <2>2. NoJar \in Jars /\ NoJar.build = 0
    BY DEF NoJar, Jars
  <2> QED BY <1>4, <2>1, <2>2 DEF Made
<1> QED BY <1>1, <1>2, <1>3, <1>4, OpRequested

\* An operation that is repeated finds what it made.
LEMMA ResultIsFinal ==
    ASSUME NEW todo \in Requests0, NEW j \in Jars
    PROVE  Result(todo, Result(todo, j)) = Result(todo, j)
<1> DEFINE r == Result(todo, j)
<1>1. r \in Jars
  BY ResultIs
<1>2. CASE todo.do = "deploy"
  <2>1. todo.build \in Builds /\ todo.build # 0
    BY <1>2, OpRequested, PfConstants
  <2>2. PICK o \in BOOLEAN : o = (j.build = 0 \/ j.on)
    OBVIOUS
  <2>3. r = [build |-> todo.build, on |-> o]
    BY <1>2, <2>2, ResultIs
  <2>4. Result(todo, r) = [build |-> todo.build, on |-> r.build = 0 \/ r.on]
    BY <1>1, <1>2, ResultIs
  <2> HIDE DEF r
  <2>5. (r.build = 0 \/ r.on) = o
    BY <2>1, <2>3
  <2>6. Result(todo, r) = r
    BY <2>3, <2>4, <2>5
  <2> QED BY <2>6 DEF r
<1>3. CASE todo.do = "uninstall"
  BY <1>1, <1>3, ResultIs
<1>4. CASE todo.do = "enable"
  <2>1. r = [j EXCEPT !.on = TRUE]
    BY <1>4 DEF Result
  <2>2. Result(todo, r) = [r EXCEPT !.on = TRUE]
    BY <1>4 DEF Result
  <2> QED BY <2>1, <2>2 DEF Jars
<1>5. CASE todo.do = "disable"
  <2>1. r = [j EXCEPT !.on = FALSE]
    BY <1>5 DEF Result
  <2>2. Result(todo, r) = [r EXCEPT !.on = FALSE]
    BY <1>5 DEF Result
  <2> QED BY <2>1, <2>2 DEF Jars
<1> QED BY <1>2, <1>3, <1>4, <1>5, OpRequested

-----------------------------------------------------------------------------
(* The states between the operations of a queue.                           *)

LEMMA LeadsNowhere ==
    ASSUME NEW R, NEW S, NEW j \in S
    PROVE  Leads(R, S, <<>>, j, j)
<1> DEFINE f == [i \in 0 .. Len(<<>>) |-> j]
<1>1. f \in [0 .. Len(<<>>) -> S] /\ f[0] = j /\ f[Len(<<>>)] = j
  OBVIOUS
<1>2. 1 .. Len(<<>>) = {}
  OBVIOUS
<1> QED BY <1>1, <1>2 DEF Leads

LEMMA LeadsFromNowhere ==
    ASSUME NEW R, NEW S, NEW j, NEW k, Leads(R, S, <<>>, j, k)
    PROVE  j = k
BY DEF Leads

LEMMA LeadsOn ==
    ASSUME NEW S, NEW R \in [Requests0 \X S -> S],
           NEW q \in Seq(Requests0), NEW todo \in Requests0, NEW j, NEW k \in S, Leads(R, S, q, j, k)
    PROVE  Leads(R, S, Append(q, todo), j, R[<<todo, k>>])
<1> DEFINE n == Len(q)
           p == Append(q, todo)
<1>1. PICK f \in [0 .. n -> S] :
        f[0] = j /\ f[n] = k /\ \A i \in 1 .. n : f[i] = R[<<q[i], f[i - 1]>>]
  BY DEF Leads
<1>2. PICK r \in S : r = R[<<todo, k>>]
  OBVIOUS
<1> DEFINE g == [i \in 0 .. n + 1 |-> IF i = n + 1 THEN r ELSE f[i]]
<1>3. n \in Nat /\ Len(p) = n + 1 /\ p[n + 1] = todo /\ \A i \in 1 .. n : p[i] = q[i]
  OBVIOUS
<1> HIDE DEF n, p
<1>4. g \in [0 .. n + 1 -> S] /\ g[0] = j /\ g[n + 1] = r
  BY <1>1, <1>3
<1>5. ASSUME NEW i \in 1 .. n + 1
      PROVE  g[i] = R[<<p[i], g[i - 1]>>]
  <2>1. CASE i = n + 1
    <3>1. i - 1 = n /\ i - 1 \in 0 .. n + 1 /\ i - 1 # n + 1
      BY <2>1, <1>3
    <3>2. g[i] = r /\ g[i - 1] = k
      BY <1>1, <1>3, <2>1, <3>1
    <3> QED BY <1>2, <1>3, <2>1, <3>2
  <2>2. CASE i # n + 1
    <3>1. i \in 1 .. n /\ i - 1 \in 0 .. n + 1 /\ i - 1 # n + 1 /\ i \in 0 .. n + 1
      BY <2>2, <1>3
    <3>2. g[i] = f[i] /\ g[i - 1] = f[i - 1]
      BY <2>2, <3>1
    <3>3. f[i] = R[<<q[i], f[i - 1]>>] /\ p[i] = q[i]
      BY <1>1, <1>3, <3>1
    <3> QED BY <3>2, <3>3
  <2> QED BY <2>1, <2>2
<1>6. Leads(R, S, p, j, r)
  <2> HIDE DEF g
  <2> QED BY <1>3, <1>4, <1>5 DEF Leads
<1> QED BY <1>2, <1>6 DEF p

\* Where the first operation leads to the same state, the others do.
LEMMA LeadsFromElsewhere ==
    ASSUME NEW R, NEW S, NEW q \in Seq(Requests0), q # <<>>, NEW j, NEW k, Leads(R, S, q, j, k),
           NEW h \in S, R[<<Head(q), h>>] = R[<<Head(q), j>>]
    PROVE  Leads(R, S, q, h, k)
<1> DEFINE n == Len(q)
<1>1. PICK f \in [0 .. n -> S] :
        f[0] = j /\ f[n] = k /\ \A i \in 1 .. n : f[i] = R[<<q[i], f[i - 1]>>]
  BY DEF Leads
<1>2. n \in Nat /\ n >= 1 /\ Head(q) = q[1]
  OBVIOUS
<1> HIDE DEF n
<1> DEFINE g == [f EXCEPT ![0] = h]
<1>3. g \in [0 .. n -> S] /\ g[0] = h /\ g[n] = k
  BY <1>1, <1>2
<1>4. ASSUME NEW i \in 1 .. n
      PROVE  g[i] = R[<<q[i], g[i - 1]>>]
  <2>1. g[i] = f[i] /\ f[i] = R[<<q[i], f[i - 1]>>]
    BY <1>1, <1>2
  <2>2. CASE i = 1
    <3>1. g[i - 1] = h /\ f[i - 1] = j
      BY <1>1, <1>3, <2>2
    <3> QED BY <1>2, <2>1, <2>2, <3>1
  <2>3. CASE i # 1
    <3>1. i - 1 \in 0 .. n /\ i - 1 # 0
      BY <1>2, <2>3
    <3>2. g[i - 1] = f[i - 1]
      BY <3>1
    <3> QED BY <2>1, <3>2
  <2> QED BY <2>2, <2>3
<1> HIDE DEF g
<1> QED BY <1>3, <1>4 DEF Leads, n

\* An operation that is done leaves the rest of the queue.
LEMMA LeadsTail ==
    ASSUME NEW R, NEW S, NEW q \in Seq(Requests0), q # <<>>, NEW j, NEW k, Leads(R, S, q, j, k)
    PROVE  Leads(R, S, Tail(q), R[<<Head(q), j>>], k)
<1> DEFINE n == Len(q)
           p == Tail(q)
<1>1. PICK f \in [0 .. n -> S] :
        f[0] = j /\ f[n] = k /\ \A i \in 1 .. n : f[i] = R[<<q[i], f[i - 1]>>]
  BY DEF Leads
<1>2. /\ n \in Nat /\ n >= 1 /\ Head(q) = q[1]
      /\ Len(p) = n - 1 /\ \A i \in 1 .. n - 1 : p[i] = q[i + 1]
  OBVIOUS
<1> HIDE DEF n, p
<1> DEFINE g == [i \in 0 .. n - 1 |-> f[i + 1]]
<1>3. g \in [0 .. n - 1 -> S] /\ g[n - 1] = k
  BY <1>1, <1>2
<1>4. g[0] = R[<<Head(q), j>>]
  <2>1. 0 + 1 = 1 /\ 1 \in 1 .. n /\ 1 - 1 = 0 /\ 0 \in 0 .. n - 1
    BY <1>2
  <2> QED BY <1>1, <1>2, <2>1
<1>5. ASSUME NEW i \in 1 .. n - 1
      PROVE  g[i] = R[<<p[i], g[i - 1]>>]
  <2>1. /\ i \in 0 .. n - 1 /\ i - 1 \in 0 .. n - 1 /\ i + 1 \in 1 .. n
        /\ (i + 1) - 1 = i /\ (i - 1) + 1 = i
    BY <1>2
  <2>2. g[i] = f[i + 1] /\ g[i - 1] = f[i] /\ p[i] = q[i + 1]
    BY <1>2, <2>1
  <2>3. f[i + 1] = R[<<q[i + 1], f[(i + 1) - 1]>>]
    BY <1>1, <2>1
  <2> QED BY <2>1, <2>2, <2>3
<1> HIDE DEF g
<1>6. Leads(R, S, p, g[0], k)
  BY <1>2, <1>3, <1>5 DEF Leads
<1> QED BY <1>4, <1>6 DEF p
-----------------------------------------------------------------------------
LEMMA MadeIs ==
    ASSUME NEW todo \in Requests0, NEW b \in Builds \cup {0}
    PROVE  Made(todo, b) \in Builds \cup {0}
BY OpRequested DEF Made

LEMMA ResultsAreStates ==
    /\ Results \in [Requests0 \X Jars -> Jars]
    /\ Makes \in [Requests0 \X (Builds \cup {0}) -> Builds \cup {0}]
    /\ \A todo \in Requests0, j \in Jars : Results[<<todo, j>>] = Result(todo, j)
    /\ \A todo \in Requests0, b \in Builds \cup {0} : Makes[<<todo, b>>] = Made(todo, b)
BY ResultIs, MadeIs DEF Results, Makes

LEMMA JarBuild == \A j \in Jars : j.build \in Builds \cup {0} /\ j.on \in BOOLEAN
BY DEF Jars

\* The queue from another state of the file, ...
LEMMA QueueFromElsewhere ==
    ASSUME NEW q \in Seq(Requests0), q # <<>>, NEW j \in Jars, NEW k \in Jars, NEW h \in Jars
    PROVE  /\ /\ LeadsTo(q, j, k)
              /\ Result(Head(q), h) = Result(Head(q), j)
              => LeadsTo(q, h, k)
           /\ /\ LeadsBuild(q, j.build, k.build)
              /\ Made(Head(q), h.build) = Made(Head(q), j.build)
              => LeadsBuild(q, h.build, k.build)
<1>1. Head(q) \in Requests0
  OBVIOUS
<1>2. ASSUME LeadsTo(q, j, k), Result(Head(q), h) = Result(Head(q), j)
      PROVE  LeadsTo(q, h, k)
  <2>1. Results[<<Head(q), h>>] = Results[<<Head(q), j>>]
    BY <1>1, <1>2, ResultsAreStates
  <2> QED BY <1>2, <2>1, LeadsFromElsewhere DEF LeadsTo
<1>3. ASSUME LeadsBuild(q, j.build, k.build), Made(Head(q), h.build) = Made(Head(q), j.build)
      PROVE  LeadsBuild(q, h.build, k.build)
  <2>1. Makes[<<Head(q), h.build>>] = Makes[<<Head(q), j.build>>]
    BY <1>1, <1>3, ResultsAreStates, JarBuild
  <2>2. h.build \in Builds \cup {0}
    BY JarBuild
  <2> QED BY <1>3, <2>1, <2>2, LeadsFromElsewhere DEF LeadsBuild
<1> QED BY <1>2, <1>3

\* ... with an operation more, ...
LEMMA QueueGrows ==
    ASSUME NEW q \in Seq(Requests0), NEW todo \in Requests0, NEW j \in Jars, NEW k \in Jars
    PROVE  /\ LeadsTo(q, j, k) => LeadsTo(Append(q, todo), j, Result(todo, k))
           /\ LeadsBuild(q, j.build, k.build) => LeadsBuild(Append(q, todo), j.build, Result(todo, k).build)
<1>1. LeadsTo(q, j, k) => LeadsTo(Append(q, todo), j, Results[<<todo, k>>])
  BY LeadsOn, ResultsAreStates DEF LeadsTo
<1>2. LeadsBuild(q, j.build, k.build) => LeadsBuild(Append(q, todo), j.build, Makes[<<todo, k.build>>])
  <2>1. k.build \in Builds \cup {0}
    BY JarBuild
  <2> QED BY <2>1, LeadsOn, ResultsAreStates DEF LeadsBuild
<1>3. Results[<<todo, k>>] = Result(todo, k) /\ Makes[<<todo, k.build>>] = Result(todo, k).build
  BY ResultsAreStates, ResultIs, JarBuild
<1> QED BY <1>1, <1>2, <1>3

\* ... and without its first one, which has been done.
LEMMA QueueShrinks ==
    ASSUME NEW q \in Seq(Requests0), q # <<>>, NEW j \in Jars, NEW k \in Jars, Result(Head(q), j) = j
    PROVE  /\ LeadsTo(q, j, k) => LeadsTo(Tail(q), j, k)
           /\ LeadsBuild(q, j.build, k.build) => LeadsBuild(Tail(q), j.build, k.build)
<1>1. Head(q) \in Requests0
  OBVIOUS
<1>2. Results[<<Head(q), j>>] = j
  BY <1>1, ResultsAreStates
<1>3. Makes[<<Head(q), j.build>>] = j.build
  <2>1. Makes[<<Head(q), j.build>>] = Made(Head(q), j.build)
    BY <1>1, ResultsAreStates, JarBuild
  <2>2. Result(Head(q), j).build = Made(Head(q), j.build)
    BY <1>1, ResultIs
  <2> QED BY <2>1, <2>2
<1> QED BY <1>2, <1>3, LeadsTail DEF LeadsTo, LeadsBuild

\* An operation that is done with an empty queue is what was asked for.
\* From any other build the queue leads somewhere: an operation makes the same of
\* every build, or leaves it.
LEMMA BuildsFromElsewhere ==
    ASSUME NEW q \in Seq(Requests0), NEW b, NEW c, LeadsBuild(q, b, c), NEW h \in Builds \cup {0}
    PROVE  \E k \in Builds \cup {0} : LeadsBuild(q, h, k)
<1> DEFINE n == Len(q)
           S == Builds \cup {0}
           sets(i) == \E m \in 1 .. i : q[m].do \in {"deploy", "uninstall"}
<1>1. PICK f \in [0 .. n -> S] :
        f[0] = b /\ f[n] = c /\ \A i \in 1 .. n : f[i] = Makes[<<q[i], f[i - 1]>>]
  BY DEF LeadsBuild, Leads
<1> DEFINE g == [i \in 0 .. n |-> IF sets(i) THEN f[i] ELSE h]
<1>2. n \in Nat /\ \A i \in 1 .. n : q[i] \in Requests0
  OBVIOUS
<1>3. g \in [0 .. n -> S] /\ g[0] = h
  BY <1>1, <1>2
<1>4. ASSUME NEW i \in 1 .. n
      PROVE  g[i] = Makes[<<q[i], g[i - 1]>>]
  <2>1. /\ i \in 0 .. n /\ i - 1 \in 0 .. n /\ q[i] \in Requests0 /\ g[i - 1] \in S /\ f[i - 1] \in S
    BY <1>1, <1>2, <1>3
  <2>2. f[i] = Made(q[i], f[i - 1]) /\ Makes[<<q[i], g[i - 1]>>] = Made(q[i], g[i - 1])
    BY <1>1, <2>1, ResultsAreStates
  <2>3. CASE q[i].do \in {"deploy", "uninstall"}
    <3>1. sets(i)
      BY <1>2, <2>3
    <3>2. g[i] = f[i]
      BY <2>1, <3>1
    <3> QED BY <2>2, <2>3, <3>2 DEF Made
  <2>4. CASE q[i].do \notin {"deploy", "uninstall"}
    <3>1. sets(i) = sets(i - 1)
      BY <1>2, <2>4
    <3>2. g[i] = IF sets(i - 1) THEN f[i] ELSE h
      BY <2>1, <3>1
    <3>3. g[i - 1] = IF sets(i - 1) THEN f[i - 1] ELSE h
      BY <2>1
    <3>4. f[i] = f[i - 1] /\ Made(q[i], g[i - 1]) = g[i - 1]
      BY <2>2, <2>4 DEF Made
    <3> QED BY <2>2, <3>2, <3>3, <3>4
  <2> QED BY <2>3, <2>4
<1>5. g[n] \in S
  BY <1>2, <1>3
<1> HIDE DEF g
<1>6. LeadsBuild(q, h, g[n])
  BY <1>3, <1>4 DEF LeadsBuild, Leads
<1> QED BY <1>5, <1>6

LEMMA QueueIsEmpty ==
    ASSUME NEW j \in Jars
    PROVE  LeadsTo(<<>>, j, j) /\ LeadsBuild(<<>>, j.build, j.build)
BY LeadsNowhere, JarBuild DEF LeadsTo, LeadsBuild

LEMMA EmptyLeadsNowhere ==
    ASSUME NEW j, NEW k
    PROVE  /\ LeadsTo(<<>>, j, k) => j = k
           /\ LeadsBuild(<<>>, j.build, k.build) => j.build = k.build
BY LeadsFromNowhere DEF LeadsTo, LeadsBuild

-----------------------------------------------------------------------------
\* What an operation leaves of a plugin that was there.
LEMMA ResultIsThere ==
    ASSUME NEW todo \in Requests0, NEW j \in Jars, Possible(todo, j), Result(todo, j).build = 0
    PROVE  todo.do = "uninstall"
BY ResultIs, OpRequested, PfConstants DEF Possible, Made

LEMMA NoJarIsJar == NoJar \in Jars /\ NoJar.build = 0 /\ NoJar.on = FALSE
BY DEF NoJar, Jars

LEMMA BuildIsThere == ASSUME NEW b \in Builds PROVE b # 0
BY PfConstants

\* The job is over, and the file, the queue and what was asked for are as they were.
LEMMA PfFrame ==
    ASSUME PfIInv, job' = NoJob, TheFile' = TheFile, jar' \in Jars, backup' \in Jars,
           UNCHANGED <<pending, asked>>, jar'.build = 0 => jar.build = 0 /\ job.at # "swap"
    PROVE  PfIInv'
<1>1. PfTypeOK'
  BY DEF PfIInv, PfTypeOK, NoJob
<1>2. JobInOrder'
  BY DEF JobInOrder, NoJob
<1>3. QueueLeads'
  BY DEF PfIInv, QueueLeads
<1>4. InstalledStays'
  BY DEF PfIInv, InstalledStays
<1> QED BY <1>1, <1>2, <1>3, <1>4 DEF PfIInv

\* What concerns neither the files nor the job.
LEMMA PfStutter ==
    ASSUME PfIInv, UNCHANGED <<jar, backup, pending, job, asked>>
    PROVE  PfIInv'
BY DEF PfIInv, PfTypeOK, JobInOrder, QueueLeads, InstalledStays, TheFile, TheOp

LEMMA PfJobEnds ==
    ASSUME PfIInv, RefusesRequest \/ Flags \/ PendingFails \/ ServerRuns \/ SwapFails \/ JobFails
    PROVE  PfIInv'
<1>1. UNCHANGED <<pending, asked>> /\ job' = NoJob
  BY DEF RefusesRequest, Flags, PendingFails, ServerRuns, SwapFails, JobFails
<1>2. CASE SwapFails
  <2>1. job.at = "swap" /\ jar' = backup /\ backup' = NoJar
    BY <1>2 DEF SwapFails
  <2>2. backup.build # 0 /\ backup \in Jars
    BY <2>1 DEF PfIInv, JobInOrder, PfTypeOK
  <2>3. TheFile' = TheFile
    BY <1>1, <2>1 DEF TheFile, NoJob
  <2> QED BY <1>1, <2>1, <2>2, <2>3, NoJarIsJar, PfFrame
<1>3. CASE RefusesRequest \/ Flags \/ PendingFails \/ ServerRuns \/ JobFails
  <2>1. jar' = jar /\ backup' = backup /\ job.at # "swap"
    BY <1>3 DEF RefusesRequest, Flags, PendingFails, ServerRuns, JobFails
  <2>2. TheFile' = TheFile
    BY <1>1, <2>1 DEF TheFile, NoJob
  <2> QED BY <1>1, <2>1, <2>2, PfFrame DEF PfIInv, PfTypeOK
<1> QED BY <1>2, <1>3

\* A job begins, or goes on from loading: it has touched nothing yet.
LEMMA PfJobBegins ==
    ASSUME PfIInv, UNCHANGED <<jar, backup, pending, asked>>, job.at # "swap",
           NEW kind, NEW at, NEW do, NEW build,
           job' = [kind |-> kind, at |-> at, do |-> do, build |-> build],
           \/ kind \in {"live", "still"} /\ at = "apply" /\ Todo(do, build) \in Requests0
           \/ kind = "start" /\ at = "load"
           \/ kind = "start" /\ at = "exec" /\ pending = <<>>
    PROVE  PfIInv'
<1>1. PfTypeOK'
  BY DEF PfIInv, PfTypeOK, TheOp
<1>2. JobInOrder'
  BY DEF JobInOrder
<1>3. QueueLeads' /\ InstalledStays'
  BY DEF PfIInv, QueueLeads, InstalledStays, TheFile
<1> QED BY <1>1, <1>2, <1>3 DEF PfIInv

LEMMA PfBegins ==
    ASSUME PfIInv, (\E todo \in Requests0 : Asks(todo)) \/ StartBegins \/ TakesBaseline
    PROVE  PfIInv'
<1>1. ASSUME NEW todo \in Requests0, Asks(todo)
      PROVE  PfIInv'
  <2>1. PICK kind \in {"live", "still"} :
          job' = [kind |-> kind, at |-> "apply", do |-> todo.do, build |-> todo.build]
    BY <1>1 DEF Asks
  <2>2. Todo(todo.do, todo.build) \in Requests0
    BY OpRequested
  <2>3. job.at # "swap" /\ UNCHANGED <<jar, backup, pending, asked>>
    BY <1>1 DEF Asks, NoJob
  <2> QED BY <2>1, <2>2, <2>3, PfJobBegins
<1>2. CASE StartBegins
  <2>1. job' = [kind |-> "start", at |-> "load", do |-> "none", build |-> 0]
    BY <1>2 DEF StartBegins, NoJob
  <2>2. job.at # "swap" /\ UNCHANGED <<jar, backup, pending, asked>>
    BY <1>2 DEF StartBegins, NoJob
  <2> QED BY <2>1, <2>2, PfJobBegins
<1>3. CASE TakesBaseline
  <2>1. job.at = "load" /\ pending = <<>> /\ UNCHANGED <<jar, backup, pending, asked>>
        /\ job' = [job EXCEPT !.at = "exec"]
    BY <1>3 DEF TakesBaseline
  <2>2. job' = [kind |-> job.kind, at |-> "exec", do |-> job.do, build |-> job.build]
        /\ job.kind = "start"
    BY <2>1 DEF PfIInv, PfTypeOK
  <2> QED BY <2>1, <2>2, PfJobBegins
<1> QED BY <1>1, <1>2, <1>3

\* What asked is after an assignment to some of its fields.
LEMMA AskedStays ==
    ASSUME PfTypeOK
    PROVE  asked = [jar |-> asked.jar, gone |-> asked.gone, hurt |-> asked.hurt,
                    woken |-> asked.woken, early |-> asked.early]
BY DEF PfTypeOK

LEMMA AppliesNowIInv ==
    ASSUME PfIInv, AppliesNow
    PROVE  PfIInv'
<1> DEFINE todo == TheOp
<1>1. /\ job.kind \in {"live", "still"} /\ job.at = "apply" /\ todo \in Requests0
      /\ Possible(todo, jar) /\ jar \in Jars /\ asked.jar \in Jars /\ pending' = pending
      /\ todo.do = job.do /\ todo.build = job.build
  BY DEF AppliesNow, PfIInv, PfTypeOK, TheOp, Todo
<1>2. PICK early \in BOOLEAN : early = (asked.early \/ pending # <<>>)
  OBVIOUS
<1>3. CASE job.do = "deploy" /\ jar.build # 0
  <2>1. /\ backup' = jar /\ jar' = NoJar /\ job' = [job EXCEPT !.at = "swap"]
        /\ asked' = asked
    BY <1>3 DEF AppliesNow
  <2>2. job' = [kind |-> job.kind, at |-> "swap", do |-> job.do, build |-> job.build]
    BY <2>1 DEF PfIInv, PfTypeOK
  <2>3. job.build \in Builds
    BY <1>1, <1>3, OpRequested
  <2>4. PfTypeOK'
    BY <1>1, <2>1, <2>2, NoJarIsJar DEF PfIInv, PfTypeOK
  <2>5. JobInOrder'
    BY <1>1, <1>3, <2>1, <2>2, <2>3 DEF JobInOrder
  <2>6. QueueLeads'
    <3>1. TheFile' = jar /\ TheFile = jar
      BY <1>1, <2>1, <2>2 DEF TheFile
    <3> QED BY <1>1, <2>1, <3>1 DEF PfIInv, QueueLeads
  <2> QED BY <2>2, <2>4, <2>5, <2>6 DEF PfIInv, InstalledStays
<1>4. CASE ~(job.do = "deploy" /\ jar.build # 0)
  <2> DEFINE r == Result(todo, jar)
  <2>1. PICK gone \in BOOLEAN : gone = Removes(todo, asked.gone)
    BY DEF Removes
  <2>2. /\ jar' = r /\ backup' = backup /\ job' = [job EXCEPT !.at = "flag"]
        /\ asked' = [asked EXCEPT !.jar = r, !.gone = gone, !.early = early]
    BY <1>2, <1>4, <2>1 DEF AppliesNow
  <2>3. r \in Jars /\ (r.build = 0 => todo.do = "uninstall")
    BY <1>1, ResultIs, ResultIsThere
  <2> HIDE DEF r
  <2>4. /\ job' = [kind |-> job.kind, at |-> "flag", do |-> job.do, build |-> job.build]
        /\ asked' = [jar |-> r, gone |-> gone, hurt |-> asked.hurt,
                     woken |-> asked.woken, early |-> early]
    BY <2>2, AskedStays DEF PfIInv, PfTypeOK
  <2>5. PfTypeOK'
    BY <1>1, <2>2, <2>3, <2>4 DEF PfIInv, PfTypeOK
  <2>6. JobInOrder'
    BY <1>1, <2>4 DEF JobInOrder
  <2>7. QueueLeads'
    <3>1. TheFile' = r /\ asked'.jar = r /\ asked'.early = early
      BY <2>2, <2>4 DEF TheFile
    <3>2. pending = <<>> => LeadsTo(pending, r, r) /\ LeadsBuild(pending, r.build, r.build)
      BY <2>3, QueueIsEmpty
    <3> QED BY <1>1, <1>2, <3>1, <3>2 DEF QueueLeads
  <2>8. InstalledStays'
    BY <2>1, <2>2, <2>3, <2>4 DEF InstalledStays, Removes
  <2> QED BY <2>5, <2>6, <2>7, <2>8 DEF PfIInv
<1> QED BY <1>3, <1>4

\* The operation is appended: the queue leads on from the file that is there.
LEMMA EnqueuesIInv ==
    ASSUME PfIInv, job.kind = "live", TheOp \in Requests0, NEW woken \in BOOLEAN, Enqueues(woken),
           jar' \in Jars, backup' \in Jars,
           jar'.build = 0 => job.do = "deploy" \/ (jar.build = 0 /\ job.at # "swap"),
           \/ asked.early \/ asked.hurt
           \/ /\ LeadsBuild(pending', jar'.build, Result(TheOp, asked.jar).build)
              /\ woken \/ LeadsTo(pending', jar', Result(TheOp, asked.jar))
    PROVE  PfIInv'
<1> DEFINE todo == TheOp
           r  == Result(todo, asked.jar)
<1>1. /\ todo \in Requests0 /\ asked.jar \in Jars /\ pending \in Seq(Requests0)
      /\ pending' = Append(pending, todo) /\ todo.do = job.do
      /\ asked' = [asked EXCEPT !.jar = r, !.woken = woken] /\ job' = [job EXCEPT !.at = "queued"]
  BY DEF Enqueues, PfIInv, PfTypeOK, TheOp, Todo
<1>2. r \in Jars
  BY <1>1, ResultIs
<1>3. /\ job' = [kind |-> job.kind, at |-> "queued", do |-> job.do, build |-> job.build]
      /\ asked' = [jar |-> r, gone |-> asked.gone, hurt |-> asked.hurt,
                   woken |-> woken, early |-> asked.early]
  <2> HIDE DEF r
  <2> QED BY <1>1, AskedStays DEF PfIInv, PfTypeOK
<1>4. TheFile' = jar'
  BY <1>3 DEF TheFile
<1>5. QueueLeads'
  <2>1. asked'.jar = r /\ asked'.woken = woken /\ asked'.early = asked.early /\ asked'.hurt = asked.hurt
    BY <1>3
  <2> QED BY <1>4, <2>1 DEF QueueLeads
<1>6. PfTypeOK'
  <2>1. pending' \in Seq(Requests0)
    <3> HIDE DEF todo
    <3> QED BY <1>1
  <2> HIDE DEF r
  <2> QED BY <1>2, <1>3, <2>1 DEF PfIInv, PfTypeOK
<1>7. JobInOrder'
  BY <1>3 DEF JobInOrder
<1>8. InstalledStays'
  <2>1. \A i \in DOMAIN pending : i \in DOMAIN pending' /\ pending'[i] = pending[i]
    <3> HIDE DEF todo
    <3> QED BY <1>1
  <2>2. Len(pending) + 1 \in DOMAIN pending' /\ pending'[Len(pending) + 1] = todo
    <3> HIDE DEF todo
    <3> QED BY <1>1
  <2>3. CASE job.do = "deploy"
    BY <1>1, <2>2, <2>3 DEF InstalledStays
  <2>4. CASE job.do # "deploy"
    BY <1>3, <2>1, <2>4 DEF PfIInv, InstalledStays
  <2> QED BY <2>3, <2>4
<1> QED BY <1>5, <1>6, <1>7, <1>8 DEF PfIInv

LEMMA QueuesIInv ==
    ASSUME PfIInv, Queues
    PROVE  PfIInv'
<1>1. /\ job.kind = "live" /\ job.at = "apply" /\ TheOp \in Requests0 /\ asked.woken \in BOOLEAN
      /\ jar \in Jars /\ asked.jar \in Jars /\ pending \in Seq(Requests0) /\ backup \in Jars
      /\ Enqueues(asked.woken) /\ UNCHANGED <<jar, backup>> /\ pending' = Append(pending, TheOp)
  BY DEF Queues, Enqueues, PfIInv, PfTypeOK
<1>2. TheFile = jar
  BY <1>1 DEF TheFile
<1>3. \/ asked.early \/ asked.hurt
      \/ /\ LeadsBuild(pending', jar.build, Result(TheOp, asked.jar).build)
         /\ asked.woken \/ LeadsTo(pending', jar, Result(TheOp, asked.jar))
  BY <1>1, <1>2, QueueGrows DEF PfIInv, QueueLeads
<1> QED BY <1>1, <1>3, EnqueuesIInv

\* The swap failed and the deployment is queued: it brings back what stays aside.
LEMMA SwapIsQueuedIInv ==
    ASSUME PfIInv, SwapIsQueued
    PROVE  PfIInv'
<1>1. /\ job.kind = "live" /\ job.at = "swap" /\ job.do = "deploy" /\ job.build \in Builds
      /\ backup \in Jars /\ backup.build # 0 /\ asked.jar \in Jars /\ pending \in Seq(Requests0)
      /\ backup' = NoJar /\ backup' \in Jars /\ TheFile = backup /\ jar = NoJar
      /\ asked.woken \in BOOLEAN /\ backup.on \in BOOLEAN
  BY NoJarIsJar, JarBuild DEF SwapIsQueued, PfIInv, PfTypeOK, JobInOrder, TheFile
<1>2. TheOp = [do |-> "deploy", build |-> job.build] /\ TheOp \in Requests0
  BY <1>1 DEF TheOp, Todo, Requests0
<1>3. CASE jar' = backup /\ Enqueues(asked.woken)
  <2>1. pending' = Append(pending, TheOp)
    BY <1>3 DEF Enqueues
  <2>2. \/ asked.early \/ asked.hurt
        \/ /\ LeadsBuild(pending', backup.build, Result(TheOp, asked.jar).build)
           /\ asked.woken \/ LeadsTo(pending', backup, Result(TheOp, asked.jar))
    BY <1>1, <1>2, <2>1, QueueGrows DEF PfIInv, QueueLeads
  <2> QED BY <1>1, <1>2, <1>3, <2>2, EnqueuesIInv
<1>4. CASE jar' = jar /\ Enqueues(asked.woken \/ ~backup.on \/ pending # <<>>)
  <2> DEFINE woken == asked.woken \/ ~backup.on \/ pending # <<>>
             r == Result(TheOp, asked.jar)
  <2>1. pending' = Append(pending, TheOp) /\ jar' = NoJar /\ woken \in BOOLEAN
    BY <1>1, <1>4 DEF Enqueues
  <2>2. r.build = job.build
    BY <1>1, <1>2, ResultIs DEF Made
  <2>3. ASSUME ~asked.early, ~asked.hurt
        PROVE  LeadsBuild(pending', NoJar.build, r.build)
    <3>1. LeadsBuild(pending, backup.build, asked.jar.build)
      BY <1>1, <2>3 DEF PfIInv, QueueLeads
    <3>2. NoJar.build \in Builds \cup {0}
      BY NoJarIsJar
    <3>3. PICK b \in Builds \cup {0} : LeadsBuild(pending, NoJar.build, b)
      BY <1>1, <3>1, <3>2, BuildsFromElsewhere
    <3> DEFINE k == [build |-> b, on |-> FALSE]
    <3>4. k \in Jars /\ k.build = b
      BY DEF Jars
    <3>5. Result(TheOp, k).build = job.build
      BY <1>2, <3>4, ResultIs DEF Made
    <3> HIDE DEF k, r
    <3>6. LeadsBuild(Append(pending, TheOp), NoJar.build, Result(TheOp, k).build)
      BY <1>1, <1>2, <3>3, <3>4, NoJarIsJar, QueueGrows
    <3> QED BY <2>1, <2>2, <3>5, <3>6
  <2>4. ASSUME ~asked.early, ~asked.hurt, ~woken
        PROVE  LeadsTo(pending', NoJar, r)
    <3>1. pending = <<>> /\ backup.on = TRUE /\ ~asked.woken
      BY <1>1, <2>4
    <3>2. asked.jar = backup
      BY <1>1, <2>4, <3>1, EmptyLeadsNowhere DEF PfIInv, QueueLeads
    <3>3. /\ Result(TheOp, NoJar) = [build |-> job.build, on |-> NoJar.build = 0 \/ NoJar.on]
          /\ r = [build |-> job.build, on |-> backup.build = 0 \/ backup.on]
      BY <1>1, <1>2, <3>2, NoJarIsJar, ResultIs
    <3>4. (NoJar.build = 0 \/ NoJar.on) = (backup.build = 0 \/ backup.on)
      BY <1>1, <3>1, NoJarIsJar
    <3>5. Result(TheOp, NoJar) = r
      BY <3>3, <3>4
    <3> HIDE DEF r
    <3>6. LeadsTo(<<>>, NoJar, NoJar) /\ <<>> \in Seq(Requests0)
      BY QueueIsEmpty, NoJarIsJar
    <3>7. LeadsTo(Append(<<>>, TheOp), NoJar, Result(TheOp, NoJar))
      BY <1>2, <3>6, NoJarIsJar, QueueGrows
    <3> QED BY <2>1, <3>1, <3>5, <3>7
  <2> HIDE DEF woken, r
  <2>5. Enqueues(woken)
    BY <1>4 DEF woken
  <2>6. \/ asked.early \/ asked.hurt
        \/ LeadsBuild(pending', jar'.build, r.build) /\ (woken \/ LeadsTo(pending', jar', r))
    BY <2>1, <2>3, <2>4
  <2> QED BY <1>1, <1>2, <2>1, <2>5, <2>6, NoJarIsJar, EnqueuesIInv DEF r
<1> QED BY <1>3, <1>4 DEF SwapIsQueued

LEMMA SwapsIInv ==
    ASSUME PfIInv, Swaps
    PROVE  PfIInv'
<1> DEFINE new == [build |-> job.build, on |-> backup.on]
<1>1. /\ job.at = "swap" /\ job.do = "deploy" /\ job.build \in Builds /\ job.build # 0
      /\ backup \in Jars /\ backup.build # 0 /\ TheFile = backup
      /\ jar' = new /\ backup' = NoJar /\ pending' = pending /\ job' = [job EXCEPT !.at = Swapped]
  BY BuildIsThere DEF Swaps, PfIInv, PfTypeOK, JobInOrder, TheFile
<1>2. new \in Jars /\ new.build = job.build
  BY <1>1 DEF Jars
<1>3. TheOp = [do |-> "deploy", build |-> job.build] /\ TheOp \in Requests0
  BY <1>1 DEF TheOp, Todo, Requests0
<1>4. Result(TheOp, backup) = new
  BY <1>1, <1>3, ResultIs DEF Jars
<1>5. Result(TheOp, new) = new
  BY <1>1, <1>3, <1>4, ResultIsFinal
<1> HIDE DEF new
<1>6. InstalledStays'
  BY <1>1, <1>2 DEF InstalledStays
<1>7. PICK early \in BOOLEAN : early = (asked.early \/ pending # <<>>)
  OBVIOUS
<1>8. CASE job.kind = "start"
  <2>1. /\ job' = [kind |-> job.kind, at |-> "drop", do |-> job.do, build |-> job.build]
        /\ asked' = asked
    BY <1>1, <1>8 DEF Swaps, Swapped, PfIInv, PfTypeOK
  <2>2. PfTypeOK'
    BY <1>1, <1>2, <1>8, <2>1, NoJarIsJar DEF PfIInv, PfTypeOK
  <2>3. pending # <<>> /\ Head(pending) = TheOp /\ TheOp' = TheOp
    BY <1>1, <1>8, <2>1 DEF PfIInv, JobInOrder, TheOp
  <2>4. JobInOrder'
    BY <1>1, <1>2, <1>5, <2>1, <2>3 DEF JobInOrder
  <2>5. TheFile' = new
    BY <1>1, <2>1 DEF TheFile
  <2>6. QueueLeads'
    <3>1. CASE asked.early \/ asked.hurt
      BY <2>1, <3>1 DEF QueueLeads
    <3>2. CASE ~(asked.early \/ asked.hurt)
      <4>1. Result(Head(pending), new) = Result(Head(pending), backup)
        BY <1>4, <1>5, <2>3
      <4>2. Made(Head(pending), new.build) = Made(Head(pending), backup.build)
        BY <1>3, <2>3 DEF Made
      <4>3. pending \in Seq(Requests0) /\ asked.jar \in Jars
        BY DEF PfIInv, PfTypeOK
      <4>4. /\ LeadsBuild(pending, new.build, asked.jar.build)
            /\ asked.woken \/ LeadsTo(pending, new, asked.jar)
        BY <1>1, <1>2, <2>3, <3>2, <4>1, <4>2, <4>3, QueueFromElsewhere DEF PfIInv, QueueLeads
      <4> QED BY <1>1, <2>1, <2>5, <4>4 DEF QueueLeads
    <3> QED BY <3>1, <3>2
  <2> QED BY <1>6, <2>2, <2>4, <2>6 DEF PfIInv
<1>9. CASE job.kind # "start"
  <2>1. /\ job' = [kind |-> job.kind, at |-> "flag", do |-> job.do, build |-> job.build]
        /\ asked' = [asked EXCEPT !.jar = new, !.early = early]
    BY <1>1, <1>9, <1>7 DEF Swaps, Swapped, PfIInv, PfTypeOK
  <2>2. asked' = [jar |-> new, gone |-> asked.gone, hurt |-> asked.hurt,
                  woken |-> asked.woken, early |-> early]
    BY <2>1, AskedStays DEF PfIInv
  <2>3. PfTypeOK'
    BY <1>1, <1>2, <1>9, <2>1, <2>2, NoJarIsJar DEF PfIInv, PfTypeOK
  <2>4. JobInOrder'
    BY <1>9, <2>1 DEF JobInOrder
  <2>5. QueueLeads'
    <3>1. TheFile' = new /\ asked'.jar = new /\ asked'.early = early
      BY <1>1, <2>1, <2>2 DEF TheFile
    <3>2. pending = <<>> => LeadsTo(pending, new, new) /\ LeadsBuild(pending, new.build, new.build)
      BY <1>2, QueueIsEmpty
    <3> QED BY <1>1, <1>7, <3>1, <3>2 DEF QueueLeads
  <2> QED BY <1>6, <2>3, <2>4, <2>5 DEF PfIInv
<1> QED BY <1>8, <1>9

LEMMA LoadsPendingIInv ==
    ASSUME PfIInv, LoadsPending
    PROVE  PfIInv'
<1> DEFINE todo == Head(pending)
<1>1. /\ job.at = "load" /\ job.kind = "start" /\ pending # <<>> /\ pending' = pending
      /\ pending \in Seq(Requests0) /\ todo \in Requests0 /\ Possible(todo, jar) /\ jar \in Jars
      /\ TheFile = jar /\ asked.jar \in Jars
  BY DEF LoadsPending, PfIInv, PfTypeOK, TheFile
<1>2. PICK gone \in BOOLEAN : gone = Removes(todo, asked.gone)
  BY <1>1 DEF Removes, PfIInv, PfTypeOK
<1>3. asked' = [jar |-> asked.jar, gone |-> gone, hurt |-> asked.hurt,
                woken |-> asked.woken, early |-> asked.early]
  BY <1>2, AskedStays DEF LoadsPending, PfIInv
<1>4. CASE todo.do = "deploy" /\ jar.build # 0
  <2>1. backup' = jar /\ jar' = NoJar
        /\ job' = [job EXCEPT !.at = "swap", !.do = todo.do, !.build = todo.build]
    BY <1>4 DEF LoadsPending
  <2>2. job' = [kind |-> "start", at |-> "swap", do |-> todo.do, build |-> todo.build]
    BY <1>1, <2>1 DEF PfIInv, PfTypeOK
  <2>3. TheOp' = todo /\ todo.build \in Builds
    BY <1>1, <1>4, <2>2, OpRequested DEF TheOp
  <2>4. PfTypeOK' /\ JobInOrder'
    <3>1. PfTypeOK'
      BY <1>1, <1>3, <2>1, <2>2, NoJarIsJar DEF PfIInv, PfTypeOK
    <3>2. JobInOrder'
      BY <1>1, <1>4, <2>1, <2>2, <2>3 DEF JobInOrder
    <3> QED BY <3>1, <3>2
  <2>5. TheFile' = jar
    BY <2>1, <2>2 DEF TheFile
  <2>6. QueueLeads'
    BY <1>1, <1>3, <2>5 DEF PfIInv, QueueLeads
  <2> QED BY <2>2, <2>4, <2>6 DEF PfIInv, InstalledStays
<1>5. CASE ~(todo.do = "deploy" /\ jar.build # 0)
  <2> DEFINE r == Result(todo, jar)
  <2>1. jar' = r /\ backup' = backup
        /\ job' = [job EXCEPT !.at = "drop", !.do = todo.do, !.build = todo.build]
    BY <1>5 DEF LoadsPending
  <2>2. job' = [kind |-> "start", at |-> "drop", do |-> todo.do, build |-> todo.build]
    BY <1>1, <2>1 DEF PfIInv, PfTypeOK
  <2>3. TheOp' = todo
    BY <1>1, <2>2, OpRequested DEF TheOp
  <2>4. /\ r \in Jars /\ Result(todo, r) = r /\ (r.build = 0 => todo.do = "uninstall")
        /\ r.build = Made(todo, jar.build) /\ Result(todo, r).build = Made(todo, r.build)
    BY <1>1, ResultIs, ResultIsFinal, ResultIsThere
  <2>5. PfTypeOK'
    BY <1>1, <1>3, <2>1, <2>2, <2>4 DEF PfIInv, PfTypeOK
  <2>6. JobInOrder'
    <3> HIDE DEF r
    <3> QED BY <1>1, <2>1, <2>2, <2>3, <2>4 DEF JobInOrder
  <2>7. QueueLeads'
    <3>1. TheFile' = r
      BY <2>1, <2>2 DEF TheFile
    <3>2. CASE asked.early \/ asked.hurt
      BY <1>3, <3>2 DEF QueueLeads
    <3>3. CASE ~(asked.early \/ asked.hurt)
      <4>1. Made(todo, r.build) = Made(todo, jar.build)
        BY <2>4
      <4>2. /\ LeadsBuild(pending, r.build, asked.jar.build)
            /\ asked.woken \/ LeadsTo(pending, r, asked.jar)
        BY <1>1, <2>4, <3>3, <4>1, QueueFromElsewhere DEF PfIInv, QueueLeads
      <4> HIDE DEF r
      <4> QED BY <1>1, <1>3, <3>1, <4>2 DEF QueueLeads
    <3> QED BY <3>2, <3>3
  <2>8. InstalledStays'
    BY <1>2, <1>3, <2>1, <2>4 DEF InstalledStays, Removes
  <2> QED BY <2>5, <2>6, <2>7, <2>8 DEF PfIInv
<1> QED BY <1>4, <1>5

LEMMA SavesPendingIInv ==
    ASSUME PfIInv, SavesPending
    PROVE  PfIInv'
<1>1. /\ job.at = "save" /\ job.kind = "start" /\ pending' = Tail(pending) /\ UNCHANGED <<jar, backup, asked>>
      /\ job' = [kind |-> "start", at |-> "load", do |-> job.do, build |-> job.build]
      /\ pending # <<>> /\ Head(pending) = TheOp /\ Result(TheOp, jar) = jar
      /\ (jar.build = 0 => job.do = "uninstall")
  BY DEF SavesPending, PfIInv, PfTypeOK, JobInOrder
<1>2. jar \in Jars /\ asked.jar \in Jars /\ pending \in Seq(Requests0) /\ TheFile = jar /\ TheFile' = jar
  BY <1>1 DEF PfIInv, PfTypeOK, TheFile
<1>3. PfTypeOK'
  <2>1. pending' \in Seq(Requests0)
    BY <1>1, <1>2
  <2> QED BY <1>1, <2>1 DEF PfIInv, PfTypeOK
<1>4. JobInOrder'
  BY <1>1 DEF JobInOrder
<1>5. QueueLeads'
  BY <1>1, <1>2, QueueShrinks DEF PfIInv, QueueLeads
<1>6. InstalledStays'
  <2>1. SUFFICES ASSUME jar.build = 0, ~asked.gone, ~asked.hurt
                 PROVE  \E i \in DOMAIN pending' : pending'[i].do = "deploy"
    BY <1>1 DEF InstalledStays
  <2>2. PICK i \in DOMAIN pending : pending[i].do = "deploy"
    BY <1>1, <2>1 DEF PfIInv, InstalledStays
  <2>3. TheOp.do = "uninstall"
    BY <1>1, <2>1 DEF TheOp, Todo
  <2>4. i # 1
    BY <1>1, <1>2, <2>2, <2>3
  <2>5. i - 1 \in DOMAIN pending' /\ pending'[i - 1] = pending[i]
    BY <1>1, <1>2, <2>2, <2>4
  <2> QED BY <2>2, <2>5
<1> QED BY <1>3, <1>4, <1>5, <1>6 DEF PfIInv

\* A crash, or a rollback that fails.
LEMMA BreaksOffIInv ==
    ASSUME PfIInv, BreaksOff
    PROVE  PfIInv'
<1> DEFINE cut == job.kind = "start" /\ job.at = "swap"
<1>1. PICK hurt \in BOOLEAN : hurt = (asked.hurt \/ (job.kind # "start" /\ job.at = "swap"))
  BY DEF PfIInv, PfTypeOK
<1>2. PICK woken \in BOOLEAN : woken = (asked.woken \/ (cut /\ ~backup.on))
  BY DEF PfIInv, PfTypeOK
<1>3. /\ jar' = jar /\ backup' = NoJar /\ pending' = pending /\ job' = NoJob
      /\ asked' = [asked EXCEPT !.hurt = hurt, !.woken = woken]
  BY <1>1, <1>2 DEF BreaksOff
<1>4. asked' = [jar |-> asked.jar, gone |-> asked.gone, hurt |-> hurt,
                woken |-> woken, early |-> asked.early]
  BY <1>3, AskedStays DEF PfIInv
<1>5. PfTypeOK' /\ JobInOrder'
  <2>1. PfTypeOK'
    BY <1>3, <1>4, NoJarIsJar DEF PfIInv, PfTypeOK, NoJob
  <2>2. JobInOrder'
    BY <1>3 DEF JobInOrder, NoJob
  <2> QED BY <2>1, <2>2
<1>6. TheFile' = jar
  BY <1>3 DEF TheFile, NoJob
<1>7. jar \in Jars /\ backup \in Jars /\ asked.jar \in Jars /\ pending \in Seq(Requests0)
  BY DEF PfIInv, PfTypeOK
<1>8. CASE job.at = "swap" /\ job.kind # "start"
  BY <1>1, <1>4, <1>5, <1>8 DEF PfIInv, QueueLeads, InstalledStays
<1>9. CASE cut
  <2>1. /\ pending # <<>> /\ Head(pending) = TheOp /\ job.do = "deploy" /\ jar = NoJar
        /\ job.build \in Builds /\ backup.build # 0 /\ TheFile = backup
    BY <1>9 DEF PfIInv, JobInOrder, TheFile
  <2>2. TheOp \in Requests0 /\ TheOp.do = "deploy" /\ TheOp.build = job.build
    BY <2>1 DEF TheOp, Todo, Requests0
  <2>3. InstalledStays'
    <3>1. 1 \in DOMAIN pending /\ pending[1].do = "deploy"
      BY <1>7, <2>1, <2>2
    <3> QED BY <1>3, <3>1 DEF InstalledStays
  <2>4. QueueLeads'
    <3>1. CASE asked.early \/ asked.hurt
      BY <1>1, <1>4, <3>1 DEF QueueLeads
    <3>2. CASE ~(asked.early \/ asked.hurt)
      <4>1. /\ LeadsBuild(pending, backup.build, asked.jar.build)
            /\ asked.woken \/ LeadsTo(pending, backup, asked.jar)
        BY <2>1, <3>2 DEF PfIInv, QueueLeads
      <4>2. Made(Head(pending), jar.build) = Made(Head(pending), backup.build)
        BY <2>1, <2>2 DEF Made
      <4>3. LeadsBuild(pending, jar.build, asked.jar.build)
        BY <1>7, <2>1, <4>1, <4>2, QueueFromElsewhere
      <4>4. woken \/ LeadsTo(pending, jar, asked.jar)
        <5> SUFFICES ASSUME ~woken PROVE LeadsTo(pending, jar, asked.jar)
          OBVIOUS
        <5>1. backup.on = TRUE /\ ~asked.woken
          BY <1>2, <1>7, <1>9 DEF Jars
        <5>2. /\ Result(TheOp, jar) = [build |-> job.build, on |-> jar.build = 0 \/ jar.on]
              /\ Result(TheOp, backup) = [build |-> job.build, on |-> backup.build = 0 \/ backup.on]
          BY <1>7, <2>2, ResultIs
        <5>3. (jar.build = 0 \/ jar.on) = (backup.build = 0 \/ backup.on)
          BY <2>1, <5>1, NoJarIsJar
        <5>4. Result(TheOp, jar) = Result(TheOp, backup)
          BY <5>2, <5>3
        <5> QED BY <1>7, <2>1, <4>1, <5>1, <5>4, QueueFromElsewhere
      <4> QED BY <1>3, <1>4, <1>6, <4>3, <4>4 DEF QueueLeads
    <3> QED BY <3>1, <3>2
  <2> QED BY <1>5, <2>3, <2>4 DEF PfIInv
<1>10. CASE job.at # "swap"
  <2>1. TheFile = jar /\ hurt = asked.hurt /\ woken = asked.woken
    BY <1>1, <1>2, <1>10 DEF TheFile, PfIInv, PfTypeOK
  <2>2. QueueLeads'
    BY <1>3, <1>4, <1>6, <2>1 DEF PfIInv, QueueLeads
  <2>3. InstalledStays'
    BY <1>3, <1>4, <1>10, <2>1 DEF PfIInv, InstalledStays
  <2> QED BY <1>5, <2>2, <2>3 DEF PfIInv
<1> QED BY <1>8, <1>9, <1>10

LEMMA DropsBundleIInv ==
    ASSUME PfIInv, DropsBundle
    PROVE  PfIInv'
<1>1. /\ job.at = "drop" /\ job.kind = "start" /\ UNCHANGED <<jar, backup, pending, asked>>
      /\ job' = [kind |-> "start", at |-> "save", do |-> job.do, build |-> job.build]
  BY DEF DropsBundle, PfIInv, PfTypeOK
<1>2. TheOp' = TheOp
  BY <1>1 DEF TheOp
<1>3. PfTypeOK'
  BY <1>1 DEF PfIInv, PfTypeOK
<1>4. JobInOrder'
  BY <1>1, <1>2 DEF PfIInv, JobInOrder
<1>5. QueueLeads' /\ InstalledStays'
  BY <1>1 DEF PfIInv, QueueLeads, InstalledStays, TheFile
<1> QED BY <1>3, <1>4, <1>5 DEF PfIInv

LEMMA PfInitIInv == PfInit => PfIInv
<1> SUFFICES ASSUME PfInit PROVE PfIInv
  OBVIOUS
<1>1. /\ jar = NoJar /\ backup = NoJar /\ pending = <<>> /\ job = NoJob
      /\ asked = [jar |-> NoJar, gone |-> TRUE, hurt |-> FALSE, woken |-> FALSE, early |-> FALSE]
  BY DEF PfInit, NoJar
<1>2. PfTypeOK
  <2>1. PICK yes \in BOOLEAN, no \in BOOLEAN : yes = TRUE /\ no = FALSE
    OBVIOUS
  <2>2. asked = [jar |-> NoJar, gone |-> yes, hurt |-> no, woken |-> no, early |-> no]
    BY <1>1, <2>1
  <2>3. asked \in [jar : Jars, gone : BOOLEAN, hurt : BOOLEAN, woken : BOOLEAN, early : BOOLEAN]
    BY <2>2, NoJarIsJar
  <2> QED BY <1>1, <2>3, NoJarIsJar DEF PfTypeOK, NoJob
<1>3. JobInOrder /\ InstalledStays
  BY <1>1 DEF JobInOrder, InstalledStays, NoJob
<1>4. QueueLeads
  BY <1>1, QueueIsEmpty, NoJarIsJar DEF QueueLeads, TheFile, NoJob
<1> QED BY <1>2, <1>3, <1>4 DEF PfIInv

LEMMA PfNextIInv == PfIInv /\ [PfNext]_pfVars => PfIInv'
<1> SUFFICES ASSUME PfIInv, [PfNext]_pfVars PROVE PfIInv'
  OBVIOUS
<1>1. CASE ReadsBaseline \/ Scans \/ ScanFails \/ TellsChanges \/ Stops \/ FreesFile \/ UNCHANGED pfVars
  <2>1. UNCHANGED <<jar, backup, pending, job, asked>>
    BY <1>1 DEF ReadsBaseline, Scans, ScanFails, TellsChanges, Stops, FreesFile, pfVars
  <2> QED BY <2>1, PfStutter
<1>2. CASE AppliesNow \/ Queues \/ Swaps \/ SwapIsQueued \/ LoadsPending \/ DropsBundle \/ SavesPending
  BY <1>2, AppliesNowIInv, QueuesIInv, SwapsIInv, SwapIsQueuedIInv, LoadsPendingIInv, DropsBundleIInv,
     SavesPendingIInv
<1>3. CASE PfDies \/ RollbackFails
  BY <1>3, BreaksOffIInv DEF PfDies, RollbackFails
<1>4. CASE RefusesRequest \/ Flags \/ PendingFails \/ ServerRuns \/ SwapFails \/ JobFails
  BY <1>4, PfJobEnds
<1>5. CASE (\E todo \in Requests0 : Asks(todo)) \/ StartBegins \/ TakesBaseline
  BY <1>5, PfBegins
<1> QED BY <1>1, <1>2, <1>3, <1>4, <1>5 DEF PfNext, PfStep

\* What the user asked for is neither lost nor undone: an installed plugin stays, and a
\* start brings the files to where the last request wants them, however long the
\* queue is, wherever the daemon crashed while it was applied and whichever rename,
\* rollback or other file operation failed; the exceptions are those that
\* InstalledStays and LastRequestWins name.
THEOREM PfRequestsAreKept == PfSpec => []RequestsAreKept
<1>1. PfIInv => RequestsAreKept
  <2> SUFFICES ASSUME PfIInv PROVE RequestsAreKept
    OBVIOUS
  <2>1. ASSUME job.at = "exec", ~asked.early, ~asked.hurt
        PROVE  jar.build = asked.jar.build /\ (jar.on = asked.jar.on \/ asked.woken)
    <3>1. pending = <<>> /\ TheFile = jar
      BY <2>1 DEF PfIInv, JobInOrder, TheFile
    <3> QED BY <2>1, <3>1, EmptyLeadsNowhere DEF PfIInv, QueueLeads
  <2> QED BY <2>1 DEF PfIInv, RequestsAreKept, LastRequestWins
<1> QED BY <1>1, PfInitIInv, PfNextIInv, PTL DEF PfSpec
=============================================================================
