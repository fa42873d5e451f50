----------------------- MODULE SessionManager_proofs -----------------------
(***************************************************************************)
(* Proofs about prism-sessiond: its types, and, as long as session.start   *)
(* requests of one instance are serialised, that an instance never has two *)
(* processes of the running service and that none of them is lost.         *)
(***************************************************************************)
EXTENDS SessionManager, TLAPS

\* A handler about to insert holds the host it started; without this the type
\* of watchers is not inductive.
InsertHasHost == \A c \in Callers : cpc[c] = "insert" => chost[c] \in Hosts

TypeInv == SessTypeOK /\ InsertHasHost

\* What may happen to the service besides a request to start a session.
ServiceMove ==
    \/ \E c \in Callers : CallerStep(c)
    \/ \E h \in Hosts : HostStep(h) \/ Exit(h) \/ KillHost(h) \/ OrphanKill(h)
    \/ \E h \in Hosts : AddClient(h) \/ RemoveClient(h)
    \/ \E h \in Hosts : StdinBlocks(h) \/ StdinUnblocks(h) \/ SubscribeBlocks(h)
    \/ ServiceCrash
    \/ UNCHANGED sessVars

\* Whoever asks, and as callers do that serialise the starts of an instance.
SessMove   == ServiceMove \/ \E c \in Callers, i \in Instances : StartRequest(c, i)
SerialMove == ServiceMove \/ \E c \in Callers, i \in Instances : ~Starting(i) /\ StartRequest(c, i)

LEMMA SessTypeStep == TypeInv /\ SessMove => TypeInv'
<1> SUFFICES ASSUME TypeInv, SessMove
             PROVE  TypeInv'
  OBVIOUS
<1> USE DEF TypeInv, InsertHasHost, SessTypeOK, Phases, CallerPCs, fileVars, hostVars, callerVars
<1>1. CASE \E c \in Callers, i \in Instances : StartRequest(c, i)
  BY <1>1 DEF StartRequest
<1>2. ASSUME NEW c \in Callers, Spawn(c)
      PROVE  TypeInv'
  <2>1. PICK h \in Hosts : Spawn(c)!2!(h)
    BY <1>2 DEF Spawn
  <2>2. listening' \in [Instances -> Hosts \cup {NoHost}]
    BY <2>1
  <2>3. stateFile' \in [Instances -> Hosts \cup {NoHost}]
    BY <2>1
  <2>4. /\ alive' \subseteq Hosts
        /\ cleaners' \subseteq Hosts
        /\ chost' \in [Callers -> Hosts \cup {NoHost}]
        /\ inst' \in [Hosts -> Instances \cup {NoInstance}]
        /\ phase' \in [Hosts -> Phases]
        /\ chost'[c] \in Hosts
        /\ \A d \in Callers \ {c} : chost'[d] = chost[d]
    BY <2>1
  <2>5. /\ cpc' \in [Callers -> CallerPCs]
        /\ \A d \in Callers \ {c} : cpc'[d] = cpc[d]
        /\ UNCHANGED <<sessions, doomed, watchers, clients, cinst, svcCrashes, stuck>>
    BY <1>2 DEF Spawn
  <2> QED BY <2>2, <2>3, <2>4, <2>5
<1>3. ASSUME NEW c \in Callers, SpawnFails(c)
      PROVE  TypeInv'
  BY <1>3 DEF SpawnFails
<1>4. ASSUME NEW c \in Callers, Insert(c)
      PROVE  TypeInv'
  BY <1>4 DEF Insert
<1>5. ASSUME NEW c \in Callers, Reply(c)
      PROVE  TypeInv'
  BY <1>5 DEF Reply
<1>6. ASSUME NEW h \in Hosts, HostStep(h)
      PROVE  TypeInv'
  BY <1>6 DEF HostStep, Finish, FinishDone, Watch, Cleanup
<1>7. ASSUME NEW h \in Hosts, Exit(h)
      PROVE  TypeInv'
  BY <1>7 DEF Exit
<1>8. ASSUME NEW h \in Hosts, KillHost(h)
      PROVE  TypeInv'
  BY <1>8 DEF KillHost
<1>9. ASSUME NEW h \in Hosts, OrphanKill(h)
      PROVE  TypeInv'
  BY <1>8, <1>9 DEF OrphanKill
<1>10. ASSUME NEW h \in Hosts, AddClient(h)
       PROVE  TypeInv'
  BY <1>10 DEF AddClient
<1>11. ASSUME NEW h \in Hosts, RemoveClient(h)
       PROVE  TypeInv'
  BY <1>11 DEF RemoveClient
<1>12. ASSUME NEW h \in Hosts, StdinBlocks(h) \/ StdinUnblocks(h) \/ SubscribeBlocks(h)
       PROVE  TypeInv'
  BY <1>12 DEF StdinBlocks, StdinUnblocks, SubscribeBlocks, Sticks
<1>13. CASE ServiceCrash
  BY <1>13 DEF ServiceCrash
<1>14. CASE UNCHANGED sessVars
  BY <1>14 DEF sessVars
<1> QED
  BY <1>1, <1>2, <1>3, <1>4, <1>5, <1>6, <1>7, <1>8, <1>9, <1>10, <1>11, <1>12, <1>13, <1>14
     DEF SessMove, ServiceMove, CallerStep

LEMMA TypeInvariant == SessSpec => []TypeInv
<1>1. SessInit => TypeInv
  BY SessionConstants DEF SessInit, TypeInv, InsertHasHost, SessTypeOK, Phases, CallerPCs
<1>2. [SessNext]_sessVars => SessMove
  BY DEF SessNext, SessMove, ServiceMove, Attach
<1> QED
  BY <1>1, <1>2, SessTypeStep, PTL DEF SessSpec

\* The variables keep their types whatever the callers do (Service, SessionHost).
THEOREM SessTypeCorrect == SessSpec => []SessTypeOK
<1>1. TypeInv => SessTypeOK
  BY DEF TypeInv
<1> QED
  BY <1>1, TypeInvariant, PTL

-----------------------------------------------------------------------------
(* The serial service.                                                     *)

\* A handler is between its check of the map and its insert.
InStart(c) == cpc[c] \in {"spawn", "insert"}

\* Someone will remove, or is about to insert, the entry of h.
Tracked(h) == h \in watchers \/ \E c \in Callers : cpc[c] = "insert" /\ chost[c] = h

WatchedInMap ==
    \A h \in watchers :
        /\ inst[h] \in Instances
        /\ sessions[inst[h]] = h
        /\ phase[h] \in {"serving", "exited", "done"}
MapIsWatched ==
    \A i \in Instances :
        sessions[i] # NoHost => sessions[i] \in watchers /\ inst[sessions[i]] = i
StartsOnFreeEntry ==
    \A c \in Callers : InStart(c) => cinst[c] \in Instances /\ sessions[cinst[c]] = NoHost
InsertsItsHost ==
    \A c \in Callers : cpc[c] = "insert" =>
        /\ inst[chost[c]] = cinst[c]
        /\ chost[c] \notin watchers
        /\ phase[chost[c]] \in {"serving", "exited", "done"}
OneStart ==
    \A c, d \in Callers : InStart(c) /\ InStart(d) /\ cinst[c] = cinst[d] => c = d
OpenIsTracked ==
    \A h \in Hosts : phase[h] \in {"serving", "exited"} => Tracked(h) /\ stateFile[inst[h]] = h
AliveIsServing == \A h \in alive : phase[h] \in {"serving", "lost"}

SerialInv ==
    /\ WatchedInMap
    /\ MapIsWatched
    /\ StartsOnFreeEntry
    /\ InsertsItsHost
    /\ OneStart
    /\ OpenIsTracked
    /\ AliveIsServing

\* A tracked host is the only tracked host of its instance.
LEMMA TrackedUnique ==
    ASSUME TypeInv, SerialInv, NEW g \in Hosts, NEW h \in Hosts,
           Tracked(g), Tracked(h), inst[g] = inst[h]
    PROVE  g = h /\ inst[h] \in Instances
<1> USE DEF SerialInv
<1>1. CASE g \in watchers /\ h \in watchers
  BY <1>1 DEF WatchedInMap
<1>2. CASE g \in watchers /\ h \notin watchers
  <2>1. PICK c \in Callers : cpc[c] = "insert" /\ chost[c] = h
    BY <1>2 DEF Tracked
  <2>2. sessions[inst[g]] = g /\ sessions[inst[h]] = NoHost
    BY <1>2, <2>1 DEF WatchedInMap, StartsOnFreeEntry, InsertsItsHost, InStart
  <2> QED BY <2>2, SessionConstants
<1>3. CASE g \notin watchers /\ h \in watchers
  <2>1. PICK c \in Callers : cpc[c] = "insert" /\ chost[c] = g
    BY <1>3 DEF Tracked
  <2>2. sessions[inst[h]] = h /\ sessions[inst[g]] = NoHost
    BY <1>3, <2>1 DEF WatchedInMap, StartsOnFreeEntry, InsertsItsHost, InStart
  <2> QED BY <2>2, SessionConstants
<1>4. CASE g \notin watchers /\ h \notin watchers
  <2>1. PICK c \in Callers : cpc[c] = "insert" /\ chost[c] = g
    BY <1>4 DEF Tracked
  <2>2. PICK d \in Callers : cpc[d] = "insert" /\ chost[d] = h
    BY <1>4 DEF Tracked
  <2>3. cinst[c] = inst[g] /\ cinst[d] = inst[h] /\ cinst[d] \in Instances
    BY <2>1, <2>2 DEF InsertsItsHost, StartsOnFreeEntry, InStart
  <2>4. c = d
    BY <2>1, <2>2, <2>3 DEF OneStart, InStart
  <2> QED BY <2>1, <2>2, <2>3, <2>4
<1> QED BY <1>1, <1>2, <1>3, <1>4

LEMMA SerialStep ==
    ASSUME TypeInv, SerialInv, SerialMove
    PROVE  SerialInv'
<1> USE DEF TypeInv, InsertHasHost, SessTypeOK, Phases, CallerPCs,
            fileVars, hostVars, callerVars
<1>1. ASSUME NEW c \in Callers, NEW i \in Instances, ~Starting(i), StartRequest(c, i)
      PROVE  SerialInv'
  <2> USE <1>1 DEF StartRequest, SerialInv
  <2>1. WatchedInMap' /\ MapIsWatched' /\ AliveIsServing'
    BY DEF WatchedInMap, MapIsWatched, AliveIsServing
  <2>2. StartsOnFreeEntry' /\ InsertsItsHost'
    BY DEF StartsOnFreeEntry, InsertsItsHost, InStart
  <2>3. OneStart'
    BY DEF OneStart, InStart, Starting
  <2>4. OpenIsTracked'
    BY DEF OpenIsTracked, Tracked
  <2> QED BY <2>1, <2>2, <2>3, <2>4
<1>2. ASSUME NEW c \in Callers, Spawn(c)
      PROVE  SerialInv'
  <2>1. PICK h \in Hosts : Spawn(c)!2!(h)
    BY <1>2 DEF Spawn
  <2>2. /\ cpc[c] = "spawn"
        /\ cpc' = [cpc EXCEPT ![c] = "insert"]
        /\ UNCHANGED <<sessions, doomed, watchers, clients, cinst, svcCrashes, stuck>>
    BY <1>2 DEF Spawn
  <2>3. h \notin alive /\ h \notin watchers /\ (\A d \in Callers : chost[d] # h)
        /\ phase[h] \in {"unused", "done"}
    BY <2>1 DEF Recyclable
  <2>4. cinst[c] \in Instances /\ sessions[cinst[c]] = NoHost
    BY <2>2 DEF SerialInv, StartsOnFreeEntry, InStart
  <2>5. chost' = [chost EXCEPT ![c] = h]
    BY <2>1
  <2>6. inst' = [inst EXCEPT ![h] = cinst[c]] /\ phase' = [phase EXCEPT ![h] = "serving"]
    BY <2>1
  <2>7. stateFile' = [stateFile EXCEPT ![cinst[c]] = h] /\ alive' = alive \cup {h}
    BY <2>1
  <2>8. WatchedInMap' /\ MapIsWatched'
    BY <2>2, <2>3, <2>6 DEF SerialInv, WatchedInMap, MapIsWatched
  <2>9. StartsOnFreeEntry'
    BY <2>2 DEF SerialInv, StartsOnFreeEntry, InStart
  <2>10. InsertsItsHost'
    BY <2>2, <2>3, <2>5, <2>6 DEF SerialInv, InsertsItsHost
  <2>11. OneStart'
    BY <2>2 DEF SerialInv, OneStart, InStart
  <2>12. AliveIsServing'
    BY <2>3, <2>6, <2>7 DEF SerialInv, AliveIsServing
  <2>13. OpenIsTracked'
    <3> SUFFICES ASSUME NEW g \in Hosts, phase'[g] \in {"serving", "exited"}
                 PROVE  Tracked(g)' /\ stateFile'[inst'[g]] = g
      BY DEF OpenIsTracked
    <3>1. CASE g = h
      BY <3>1, <2>2, <2>4, <2>5, <2>6, <2>7 DEF Tracked
    <3>2. CASE g # h
      <4>1. Tracked(g) /\ stateFile[inst[g]] = g /\ inst'[g] = inst[g]
        BY <3>2, <2>6 DEF SerialInv, OpenIsTracked
      <4>2. inst[g] # cinst[c]
        <5>1. CASE g \in watchers
          BY <5>1, <2>4, SessionConstants DEF SerialInv, WatchedInMap
        <5>2. CASE \E d \in Callers : cpc[d] = "insert" /\ chost[d] = g
          BY <5>2, <2>2 DEF SerialInv, InsertsItsHost, OneStart, InStart
        <5> QED BY <4>1, <5>1, <5>2 DEF Tracked
      <4>3. stateFile'[inst[g]] = stateFile[inst[g]]
        BY <4>2, <2>7
      <4>4. Tracked(g)'
        BY <4>1, <3>2, <2>2, <2>5 DEF Tracked
      <4> QED BY <4>1, <4>3, <4>4
    <3> QED BY <3>1, <3>2
  <2> QED BY <2>8, <2>9, <2>10, <2>11, <2>12, <2>13 DEF SerialInv
<1>3. ASSUME NEW c \in Callers, SpawnFails(c)
      PROVE  SerialInv'
  BY <1>3 DEF SpawnFails, SerialInv, WatchedInMap, MapIsWatched, StartsOnFreeEntry,
     InsertsItsHost, OneStart, OpenIsTracked, AliveIsServing, InStart, Tracked
<1>4. ASSUME NEW c \in Callers, Insert(c)
      PROVE  SerialInv'
  <2> USE <1>4 DEF Insert, SerialInv
  <2>1. /\ cinst[c] \in Instances
        /\ sessions[cinst[c]] = NoHost
        /\ inst[chost[c]] = cinst[c]
        /\ chost[c] \in Hosts
        /\ chost[c] \notin watchers
        /\ phase[chost[c]] \in {"serving", "exited", "done"}
    BY DEF StartsOnFreeEntry, InsertsItsHost, InStart
  <2>2. WatchedInMap'
    <3> SUFFICES ASSUME NEW h \in watchers'
                 PROVE  /\ inst[h] \in Instances
                        /\ sessions'[inst[h]] = h
                        /\ phase[h] \in {"serving", "exited", "done"}
      BY DEF WatchedInMap
    <3>1. CASE h = chost[c]
      BY <3>1, <2>1
    <3>2. CASE h \in watchers
      BY <3>2, <2>1, SessionConstants DEF WatchedInMap
    <3> QED BY <3>1, <3>2
  <2>3. MapIsWatched'
    BY <2>1 DEF MapIsWatched
  <2>4. StartsOnFreeEntry' /\ OneStart'
    BY <2>1 DEF StartsOnFreeEntry, OneStart, InStart
  <2>5. InsertsItsHost'
    <3> SUFFICES ASSUME NEW d \in Callers, cpc'[d] = "insert"
                 PROVE  /\ inst[chost[d]] = cinst[d]
                        /\ chost[d] \notin watchers'
                        /\ phase[chost[d]] \in {"serving", "exited", "done"}
      BY DEF InsertsItsHost
    <3>1. d # c /\ cpc[d] = "insert"
      OBVIOUS
    <3>2. cinst[d] # cinst[c]
      BY <3>1 DEF OneStart, InStart
    <3>3. inst[chost[d]] = cinst[d] /\ chost[d] # chost[c]
      BY <3>1, <3>2, <2>1 DEF InsertsItsHost
    <3> QED BY <3>1, <3>3 DEF InsertsItsHost
  <2>6. OpenIsTracked'
    BY DEF OpenIsTracked, Tracked
  <2>7. AliveIsServing'
    BY DEF AliveIsServing
  <2> QED BY <2>2, <2>3, <2>4, <2>5, <2>6, <2>7
<1>5. ASSUME NEW c \in Callers, Reply(c)
      PROVE  SerialInv'
  BY <1>5 DEF Reply, SerialInv, WatchedInMap, MapIsWatched, StartsOnFreeEntry,
     InsertsItsHost, OneStart, OpenIsTracked, AliveIsServing, InStart, Tracked
<1>6. ASSUME NEW h \in Hosts, Finish(h)
      PROVE  SerialInv'
  BY <1>6 DEF Finish, SerialInv, WatchedInMap, MapIsWatched, StartsOnFreeEntry,
     InsertsItsHost, OneStart, OpenIsTracked, AliveIsServing, InStart, Tracked
<1>7. ASSUME NEW h \in Hosts, FinishDone(h)
      PROVE  SerialInv'
  <2> USE <1>7 DEF FinishDone, SerialInv
  <2>1. /\ WatchedInMap' /\ MapIsWatched' /\ StartsOnFreeEntry'
        /\ InsertsItsHost' /\ OneStart' /\ AliveIsServing'
    BY DEF WatchedInMap, MapIsWatched, StartsOnFreeEntry, InsertsItsHost, OneStart,
       AliveIsServing, InStart
  <2>2. OpenIsTracked'
    <3> SUFFICES ASSUME NEW g \in Hosts, phase'[g] \in {"serving", "exited"}
                 PROVE  Tracked(g)' /\ stateFile'[inst[g]] = g
      BY DEF OpenIsTracked
    <3>1. g # h /\ phase[g] \in {"serving", "exited"}
      OBVIOUS
    <3>2. Tracked(g) /\ Tracked(h) /\ stateFile[inst[g]] = g
      BY <3>1 DEF OpenIsTracked
    <3>3. inst[g] # inst[h]
      BY <3>1, <3>2, TrackedUnique
    <3>4. Tracked(g)'
      BY <3>2 DEF Tracked
    <3> QED BY <3>2, <3>3, <3>4
  <2> QED BY <2>1, <2>2
<1>8. ASSUME NEW h \in Hosts, Watch(h)
      PROVE  SerialInv'
  <2> USE <1>8 DEF Watch, SerialInv
  <2>1. \A g \in watchers : g # h => inst[g] # inst[h]
    BY TrackedUnique DEF Tracked
  <2>2. WatchedInMap'
    BY <2>1 DEF WatchedInMap
  <2>3. MapIsWatched'
    BY DEF MapIsWatched, WatchedInMap
  <2>4. StartsOnFreeEntry' /\ InsertsItsHost' /\ OneStart' /\ AliveIsServing'
    BY DEF StartsOnFreeEntry, InsertsItsHost, OneStart, AliveIsServing, InStart
  <2>5. OpenIsTracked'
    BY DEF OpenIsTracked, Tracked
  <2> QED BY <2>2, <2>3, <2>4, <2>5
<1>9. ASSUME NEW h \in Hosts, Cleanup(h) \/ KillHost(h) \/ AddClient(h) \/ RemoveClient(h)
      PROVE  SerialInv'
  BY <1>9 DEF Cleanup, KillHost, AddClient, RemoveClient, SerialInv, WatchedInMap,
     MapIsWatched, StartsOnFreeEntry, InsertsItsHost, OneStart, OpenIsTracked,
     AliveIsServing, InStart, Tracked
<1>10. ASSUME NEW h \in Hosts, Exit(h)
       PROVE  SerialInv'
  BY <1>10 DEF Exit, SerialInv, WatchedInMap, MapIsWatched, StartsOnFreeEntry,
     InsertsItsHost, OneStart, OpenIsTracked, AliveIsServing, InStart, Tracked
<1>11. CASE ServiceCrash
  BY <1>11, SessionConstants
     DEF ServiceCrash, SerialInv, WatchedInMap, MapIsWatched, StartsOnFreeEntry,
         InsertsItsHost, OneStart, OpenIsTracked, AliveIsServing, InStart, Tracked
<1>12. CASE \/ \E h \in Hosts : StdinBlocks(h) \/ StdinUnblocks(h) \/ SubscribeBlocks(h)
            \/ UNCHANGED sessVars
  <2>1. UNCHANGED <<fileVars, hostVars, callerVars>>
    BY <1>12 DEF StdinBlocks, StdinUnblocks, SubscribeBlocks, Sticks, sessVars
  <2> QED
    BY <2>1 DEF SerialInv, WatchedInMap, MapIsWatched, StartsOnFreeEntry, InsertsItsHost, OneStart,
       OpenIsTracked, AliveIsServing, InStart, Tracked
<1> QED
  BY <1>1, <1>2, <1>3, <1>4, <1>5, <1>6, <1>7, <1>8, <1>9, <1>10, <1>11, <1>12
     DEF SerialMove, ServiceMove, CallerStep, HostStep, OrphanKill

LEMMA SerialInvariant ==
    ASSUME SerialStarts
    PROVE  SessSpec => []SerialInv
<1>1. SessInit => SerialInv
  BY SessionConstants
     DEF SessInit, SerialInv, WatchedInMap, MapIsWatched, StartsOnFreeEntry,
         InsertsItsHost, OneStart, OpenIsTracked, AliveIsServing, InStart, Tracked
<1>2. [SessNext]_sessVars => SerialMove
  BY DEF SessNext, SerialMove, ServiceMove, Attach
<1>3. TypeInv /\ SerialInv /\ [SessNext]_sessVars => SerialInv'
  BY <1>2, SerialStep
<1> QED
  BY <1>1, <1>3, TypeInvariant, PTL DEF SessSpec

\* The processes of the running service are the tracked hosts.
LEMMA SerialConsequences == TypeInv /\ SerialInv => AtMostOneProcess /\ NoLostProcess
<1> SUFFICES ASSUME TypeInv, SerialInv
             PROVE  AtMostOneProcess /\ NoLostProcess
  OBVIOUS
<1>1. AtMostOneProcess
  <2> SUFFICES ASSUME NEW h1 \in Owned, NEW h2 \in Owned, inst[h1] = inst[h2]
               PROVE  h1 = h2
    BY DEF AtMostOneProcess
  <2>1. h1 \in Hosts /\ h2 \in Hosts
    BY DEF TypeInv, SessTypeOK, Owned
  <2>2. Tracked(h1) /\ Tracked(h2)
    BY <2>1 DEF SerialInv, AliveIsServing, OpenIsTracked, Owned
  <2> QED BY <2>1, <2>2, TrackedUnique
<1>2. NoLostProcess
  BY DEF TypeInv, SessTypeOK, SerialInv, AliveIsServing, OpenIsTracked, Tracked,
     WatchedInMap, Owned, NoLostProcess
<1> QED
  BY <1>1, <1>2

\* While starts are serialised, no process of an instance is ever joined by a
\* second one of the same service (Service.start, Service.watch, Finish).
THEOREM SessAtMostOne ==
    ASSUME SerialStarts
    PROVE  SessSpec => []AtMostOneProcess
BY SerialConsequences, TypeInvariant, SerialInvariant, PTL

\* Under the same assumption the service never loses a process: it is in the
\* map or about to be, and its state file is there for the next service.
THEOREM SessNoLost ==
    ASSUME SerialStarts
    PROVE  SessSpec => []NoLostProcess
BY SerialConsequences, TypeInvariant, SerialInvariant, PTL

\* Both at once: there is one process of an instance, and the service knows it
\* (Service.start, Service.watch).
THEOREM SessProcessIsKnown ==
    ASSUME SerialStarts
    PROVE  SessSpec => []ProcessIsKnown
<1>1. AtMostOneProcess /\ NoLostProcess => ProcessIsKnown
  BY DEF ProcessIsKnown
<1> QED
  BY <1>1, SessAtMostOne, SessNoLost, PTL
=============================================================================
