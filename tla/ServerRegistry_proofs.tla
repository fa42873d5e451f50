------------------------ MODULE ServerRegistry_proofs -------------------------
(***************************************************************************)
(* Theorems about ServerRegistry: for any servers, instance counts, ports, *)
(* requests and deployments, and any number of failed writes, failed        *)
(* rollbacks and restarts of the daemon.                                    *)
(***************************************************************************)
EXTENDS ServerRegistry, WellFoundedInduction, TLAPS

ObjType  == [port : Ports \cup {NoPort}, managed : BOOLEAN, state : States,
             locked : BOOLEAN, op : Callers \cup Mirrors \cup {NoOne, Leaked}]
CallType == [at : {"idle", "found", "held", "start", "stop"}, o : Objs \cup {<<>>}]
DepType  == [at : {"idle", "locking", "reserved", "work", "release"},
             objs : SUBSET Objs, todo : SUBSET Objs, cur : Objs \cup {<<>>}, was : BOOLEAN]

MapsOK ==
    /\ inst \in [Ids -> Gens \cup {0}]
    /\ obj \in [Objs -> ObjType]
    /\ call \in [Callers -> CallType]
    /\ dep \in [Mirrors -> DepType]

\* Who works with an instance points to an object.
PointersOK ==
    /\ \A c \in Callers : call[c].at # "idle" => call[c].o \in Objs
    /\ \A s \in Mirrors : dep[s].at = "work" => dep[s].cur \in Objs

\* No step is between memory and disk, whatever request is under way.
ServersOK ==
    /\ servers = [s \in Servers |-> servers[s]]
    /\ \A s \in Servers : servers[s] \in Configs(s) \cup {NoConfig}
    /\ disk = servers
    /\ lost \subseteq Servers

SvcOK ==
    /\ svc.at \in {"idle", "create", "update", "delete"}
    /\ svc.at # "idle" => svc.s \in Servers /\ svc.new \in Configs(svc.s) \cup {NoConfig}
    /\ svc.at = "create" => servers[svc.s] = NoConfig
    /\ svc.at = "delete" => svc.new = NoConfig

\* An instance that left the map is not managed and has no port.
UnlistedOK ==
    \A o \in Objs : ~Listed(o) => obj[o].port = NoPort /\ obj[o].managed = FALSE

InUse(o) == Listed(o) /\ obj[o].managed = TRUE

\* Two managed instances never have the same port, those of servers whose rollback
\* failed included.
PortsOK == \A o, p \in Objs : InUse(o) /\ InUse(p) /\ obj[o].port = obj[p].port => o = p

\* The managed instances of the server are those of a configuration.
Matches(s, cfg) ==
    /\ \A k \in DOMAIN cfg : \E o \in Objs : o[1] = s /\ o[2] = k /\ InUse(o)
    /\ \A o \in Objs : o[1] = s /\ InUse(o) => o[2] \in DOMAIN cfg /\ obj[o].port = cfg[o[2]]

Works(s) == svc.at # "idle" /\ svc.s = s

\* The configuration that was applied last, saved or not yet.
MatchesOK ==
    \A s \in Servers :
        /\ Works(s) => Matches(s, svc.new)
        /\ ~Works(s) /\ s \notin lost => Matches(s, servers[s])

RegIInv ==
    /\ MapsOK
    /\ PointersOK
    /\ ServersOK
    /\ SvcOK
    /\ UnlistedOK
    /\ PortsOK
    /\ MatchesOK
-----------------------------------------------------------------------------
(* Ids, objects and configurations.                                        *)

LEMMA MakeId ==
    ASSUME NEW s \in Servers, NEW k \in 1 .. MaxCount[s] PROVE <<s, k>> \in Ids
BY DEF Ids

LEMMA IdParts ==
    ASSUME NEW i \in Ids
    PROVE  i[1] \in Servers /\ i[2] \in 1 .. MaxCount[i[1]] /\ i = <<i[1], i[2]>>
<1>1. PICK s \in Servers : i \in {s} \X (1 .. MaxCount[s])
  BY DEF Ids
<1>2. PICK k \in 1 .. MaxCount[s] : i = <<s, k>>
  BY <1>1
<1> QED
  BY <1>2

LEMMA MakeObj ==
    ASSUME NEW i \in Ids, NEW g \in Gens PROVE <<i[1], i[2], g>> \in Objs
BY DEF Objs

LEMMA ObjParts ==
    ASSUME NEW o \in Objs
    PROVE  /\ o[1] \in Servers /\ o[2] \in 1 .. MaxCount[o[1]] /\ o[3] \in Gens
           /\ Id(o) \in Ids /\ Id(o)[1] = o[1] /\ Id(o)[2] = o[2]
           /\ o = <<o[1], o[2], o[3]>>
<1>1. PICK i \in Ids, g \in Gens : o = <<i[1], i[2], g>>
  BY DEF Objs
<1>2. i[1] \in Servers /\ i[2] \in 1 .. MaxCount[i[1]] /\ i = <<i[1], i[2]>>
  BY IdParts
<1>3. o[1] = i[1] /\ o[2] = i[2] /\ o[3] = g /\ Id(o) = <<o[1], o[2]>>
  BY <1>1 DEF Id
<1>4. Id(o) = i
  BY <1>2, <1>3
<1> QED
  BY <1>1, <1>2, <1>3, <1>4

LEMMA SameObj ==
    ASSUME NEW o \in Objs, NEW p \in Objs, o[1] = p[1], o[2] = p[2], o[3] = p[3]
    PROVE  o = p
BY ObjParts, Zenon

LEMMA ConfigParts ==
    ASSUME NEW s \in Servers, NEW cfg \in Configs(s) \cup {NoConfig}
    PROVE  DOMAIN cfg \subseteq 1 .. MaxCount[s] /\ \A k \in DOMAIN cfg : cfg[k] \in Ports
<1>0. MaxCount[s] \in Nat \ {0}
  BY RegistryConstants
<1>1. CASE cfg = NoConfig
  BY <1>1 DEF NoConfig
<1>2. CASE cfg \in Configs(s)
  <2>1. PICK n \in 1 .. MaxCount[s] : cfg \in [1 .. n -> Ports]
    BY <1>2 DEF Configs
  <2> QED
    BY <1>0, <2>1
<1> QED
  BY <1>1, <1>2

\* Nobody is the object of nothing.
LEMMA GensAreNot0 == Gens \subseteq Nat /\ 0 \notin Gens /\ 1 \in Gens
BY RegistryConstants

LEMMA BlankType == Blank \in ObjType /\ Blank.port = NoPort /\ Blank.managed = FALSE
BY DEF Blank, ObjType, States

LEMMA LeastBy ==
    ASSUME NEW R, IsWellFoundedOn(R, Nat), \A x, y \in Nat : y < x => <<y, x>> \in R,
           NEW T \in SUBSET Nat, T # {}
    PROVE \E n \in T : \A m \in T : n <= m
<1>2. \E x \in T : \A y \in T : ~ (<<y, x>> \in R)
  BY WFMin
<1>3. PICK x \in T : \A y \in T : ~ (<<y, x>> \in R)
  BY <1>2
<1>4. ASSUME NEW y \in T PROVE x <= y
  <2>1. ~ (y < x)
    BY <1>3, Zenon
  <2> QED
    BY <2>1
<1> QED
  BY <1>4

LEMMA LeastNatural ==
    ASSUME NEW T \in SUBSET Nat, T # {} PROVE \E n \in T : \A m \in T : n <= m
<1> DEFINE R == OpToRel(<, Nat)
<1>1. IsWellFoundedOn(R, Nat)
  BY NatLessThanWellFounded
<1>3. \A x, y \in Nat : y < x => <<y, x>> \in R
  BY DEF R, OpToRel
<1> HIDE DEF R
<1> QED
  BY <1>1, <1>3, LeastBy, Zenon

\* The generation of an instance: that of the map, or one nobody points to.
LEMMA NewGenDoes ==
    ASSUME MapsOK, NEW i \in Ids, inst[i] # 0 \/ \E g \in Gens : Free(<<i[1], i[2], g>>)
    PROVE  /\ NewGen(i) \in Gens
           /\ inst[i] # 0 => NewGen(i) = inst[i]
           /\ inst[i] = 0 => Free(<<i[1], i[2], NewGen(i)>>)
<1>1. CASE inst[i] # 0
  BY <1>1 DEF NewGen, MapsOK
<1>2. CASE inst[i] = 0
  <2> DEFINE T == {g \in Gens : Free(<<i[1], i[2], g>>)}
  <2>1. T \in SUBSET Nat /\ T # {}
    BY <1>2, GensAreNot0
  <2>2. NewGen(i) = Min(T)
    BY <1>2 DEF NewGen
  <2>3. T \subseteq Gens /\ \A g \in T : Free(<<i[1], i[2], g>>)
    OBVIOUS
  <2> HIDE DEF T
  <2>4. Min(T) \in T
    <3>1. \E n \in T : \A m \in T : n <= m
      BY <2>1, LeastNatural, Zenon
    <3> QED
      BY <3>1 DEF Min
  <2> QED
    BY <1>2, <2>2, <2>3, <2>4
<1> QED
  BY <1>1, <1>2
-----------------------------------------------------------------------------
(* What a change of the configuration does to each object.                 *)

\* The new object or the old one of an instance of the configuration.
Taken(o, s, cfg) == o[1] = s /\ o[2] \in DOMAIN cfg /\ o[3] = NewGen(Id(o))

Rewrites(s, cfg, gone) ==
    /\ inst' \in [Ids -> Gens \cup {0}]
    /\ obj' \in [Objs -> ObjType]
    /\ \A o \in Objs : o[1] # s => obj'[o] = obj[o] /\ (Listed(o)' <=> Listed(o))
    /\ \A o \in Objs : Taken(o, s, cfg) =>
         /\ Listed(o)'
         /\ obj'[o] = [obj[o] EXCEPT !.port = cfg[o[2]], !.managed = TRUE]
         /\ Listed(o) \/ obj[o] = Blank
    /\ \A o \in Objs : o[1] = s /\ o[2] \in DOMAIN cfg /\ ~Taken(o, s, cfg) =>
         ~Listed(o)' /\ ~Listed(o) /\ obj'[o] = obj[o]
    /\ \A o \in gone :
         ~Listed(o)' /\ obj'[o] = [obj[o] EXCEPT !.port = NoPort, !.managed = FALSE]
    /\ \A o \in Objs \ gone : o[1] = s /\ o[2] \notin DOMAIN cfg =>
         /\ Listed(o)' <=> Listed(o)
         /\ obj'[o] = IF Listed(o) THEN [obj[o] EXCEPT !.managed = FALSE] ELSE obj[o]
    /\ \A k \in DOMAIN cfg : \E o \in Objs : o[2] = k /\ Taken(o, s, cfg)

LEMMA RewrittenDoes ==
    ASSUME MapsOK, NEW s \in Servers, NEW cfg \in Configs(s) \cup {NoConfig},
           Room(s, cfg), NEW gone \in SUBSET Own(s), \A o \in gone : o[2] \notin DOMAIN cfg,
           Rewritten(s, cfg, gone)
    PROVE  Rewrites(s, cfg, gone)
<1>1. DOMAIN cfg \subseteq 1 .. MaxCount[s] /\ \A k \in DOMAIN cfg : cfg[k] \in Ports
  BY ConfigParts
<1>2. ASSUME NEW i \in Ids, i[1] = s, i[2] \in DOMAIN cfg
      PROVE  /\ NewGen(i) \in Gens
             /\ inst[i] # 0 => NewGen(i) = inst[i]
             /\ inst[i] = 0 => Free(<<i[1], i[2], NewGen(i)>>)
  <2>1. inst[<<s, i[2]>>] # 0 \/ \E g \in Gens : Free(<<s, i[2], g>>)
    BY <1>2 DEF Room
  <2>2. i = <<s, i[2]>>
    BY <1>2, IdParts, Zenon
  <2>3. inst[i] # 0 \/ \E g \in Gens : Free(<<i[1], i[2], g>>)
    BY <1>2, <2>1, <2>2, Zenon
  <2> QED
    BY <2>3, NewGenDoes
<1>3. gone \subseteq Objs /\ \A o \in gone : o[1] = s /\ Listed(o)
  BY DEF Own
<1>4. ASSUME NEW o \in Objs
      PROVE  /\ Id(o) \in Ids /\ Id(o)[1] = o[1] /\ Id(o)[2] = o[2] /\ o[3] \in Gens /\ o[3] # 0
             /\ o = <<Id(o)[1], Id(o)[2], o[3]>>
  BY ObjParts, GensAreNot0
<1>5. /\ inst' = [i \in Ids |->
                  IF i[1] # s THEN inst[i]
                  ELSE IF i[2] \in DOMAIN cfg THEN NewGen(i)
                  ELSE IF <<i[1], i[2], inst[i]>> \in gone THEN 0 ELSE inst[i]]
      /\ obj' = [o \in Objs |->
                 IF o[1] # s THEN obj[o]
                 ELSE IF o[2] \in DOMAIN cfg /\ NewGen(Id(o)) = o[3]
                   THEN [obj[o] EXCEPT !.port = cfg[o[2]], !.managed = TRUE]
                 ELSE IF o \in gone THEN [obj[o] EXCEPT !.port = NoPort, !.managed = FALSE]
                 ELSE IF Listed(o) THEN [obj[o] EXCEPT !.managed = FALSE] ELSE obj[o]]
  BY DEF Rewritten
<1>6. inst' \in [Ids -> Gens \cup {0}]
  BY <1>2, <1>5 DEF MapsOK
<1>7. obj' \in [Objs -> ObjType]
  <2>1. ASSUME NEW o \in Objs PROVE obj[o] \in ObjType
    BY DEF MapsOK
  <2>2. ASSUME NEW r \in ObjType, NEW x \in Ports \cup {NoPort}, NEW m \in BOOLEAN
        PROVE  [r EXCEPT !.port = x, !.managed = m] \in ObjType /\ [r EXCEPT !.managed = m] \in ObjType
    BY DEF ObjType
  <2>3. ASSUME NEW o \in Objs PROVE obj'[o] \in ObjType
    <3>1. CASE o[1] = s /\ o[2] \in DOMAIN cfg /\ NewGen(Id(o)) = o[3]
      <4>1. obj'[o] = [obj[o] EXCEPT !.port = cfg[o[2]], !.managed = TRUE]
        BY <1>5, <3>1
      <4>2. cfg[o[2]] \in Ports
        BY <1>1, <3>1
      <4> QED
        BY <2>1, <2>2, <4>1, <4>2
    <3>2. CASE ~(o[1] = s /\ o[2] \in DOMAIN cfg /\ NewGen(Id(o)) = o[3])
      <4>1. obj'[o] \in {obj[o], [obj[o] EXCEPT !.port = NoPort, !.managed = FALSE],
                         [obj[o] EXCEPT !.managed = FALSE]}
        BY <1>5, <3>2
      <4> QED
        BY <2>1, <2>2, <4>1
    <3> QED
      BY <3>1, <3>2
  <2> QED
    BY <1>5, <2>3
<1>8. ASSUME NEW o \in Objs, o[1] # s PROVE obj'[o] = obj[o] /\ (Listed(o)' <=> Listed(o))
  BY <1>4, <1>5, <1>8 DEF Listed, Id
<1>9. ASSUME NEW o \in Objs, Taken(o, s, cfg)
      PROVE  /\ Listed(o)'
             /\ obj'[o] = [obj[o] EXCEPT !.port = cfg[o[2]], !.managed = TRUE]
             /\ Listed(o) \/ obj[o] = Blank
  <2>1. o[1] = s /\ o[2] \in DOMAIN cfg /\ o[3] = NewGen(Id(o))
    BY <1>9 DEF Taken
  <2>2. inst'[Id(o)] = NewGen(Id(o))
    BY <1>4, <1>5, <2>1
  <2>3. obj'[o] = [obj[o] EXCEPT !.port = cfg[o[2]], !.managed = TRUE]
    BY <1>5, <2>1
  <2>4. CASE inst[Id(o)] # 0
    <3>1. NewGen(Id(o)) = inst[Id(o)]
      BY <1>2, <1>4, <2>1, <2>4
    <3> QED
      BY <2>1, <2>2, <2>3, <3>1 DEF Listed, Id
  <2>5. CASE inst[Id(o)] = 0
    <3>1. Free(<<Id(o)[1], Id(o)[2], NewGen(Id(o))>>)
      BY <1>2, <1>4, <2>1, <2>5
    <3>2. Free(o)
      BY <1>4, <2>1, <3>1, Zenon
    <3> QED
      BY <2>1, <2>2, <2>3, <3>2 DEF Listed, Id, Free
  <2> QED
    BY <2>4, <2>5
<1>10. ASSUME NEW o \in Objs, o[1] = s, o[2] \in DOMAIN cfg, ~Taken(o, s, cfg)
       PROVE  ~Listed(o)' /\ ~Listed(o) /\ obj'[o] = obj[o]
  <2>1. o[3] # NewGen(Id(o))
    BY <1>10 DEF Taken
  <2>2. inst'[Id(o)] = NewGen(Id(o))
    BY <1>4, <1>5, <1>10
  <2>3. ~Listed(o)
    BY <1>2, <1>4, <1>10, <2>1 DEF Listed
  <2>4. o \notin gone
    BY <1>10
  <2>5. obj'[o] = obj[o]
    BY <1>5, <1>10, <2>1, <2>3, <2>4
  <2> QED
    BY <2>1, <2>2, <2>3, <2>5 DEF Listed, Id
<1>11. ASSUME NEW o \in gone
       PROVE  ~Listed(o)' /\ obj'[o] = [obj[o] EXCEPT !.port = NoPort, !.managed = FALSE]
  <2>1. o \in Objs /\ o[1] = s /\ Listed(o) /\ o[2] \notin DOMAIN cfg
    BY <1>3
  <2>2. <<Id(o)[1], Id(o)[2], inst[Id(o)]>> = o
    BY <1>4, <2>1 DEF Listed
  <2>3. inst'[Id(o)] = 0
    BY <1>4, <1>5, <2>1, <2>2
  <2>4. obj'[o] = [obj[o] EXCEPT !.port = NoPort, !.managed = FALSE]
    BY <1>5, <2>1
  <2> QED
    BY <1>4, <2>1, <2>3, <2>4 DEF Listed, Id
<1>12. ASSUME NEW o \in Objs \ gone, o[1] = s, o[2] \notin DOMAIN cfg
       PROVE  /\ Listed(o)' <=> Listed(o)
              /\ obj'[o] = IF Listed(o) THEN [obj[o] EXCEPT !.managed = FALSE] ELSE obj[o]
  <2>1. obj'[o] = IF Listed(o) THEN [obj[o] EXCEPT !.managed = FALSE] ELSE obj[o]
    BY <1>5, <1>12
  <2>2. inst'[Id(o)] = IF <<Id(o)[1], Id(o)[2], inst[Id(o)]>> \in gone THEN 0 ELSE inst[Id(o)]
    BY <1>4, <1>5, <1>12
  <2>3. CASE Listed(o)
    <3>1. <<Id(o)[1], Id(o)[2], inst[Id(o)]>> = o
      BY <1>4, <2>3 DEF Listed
    <3>2. inst'[Id(o)] = inst[Id(o)]
      BY <1>12, <2>2, <3>1
    <3> QED
      BY <2>1, <2>3, <3>2 DEF Listed, Id
  <2>4. CASE ~Listed(o)
    <3>1. inst'[Id(o)] = 0 \/ inst'[Id(o)] = inst[Id(o)]
      BY <2>2
    <3> QED
      BY <1>4, <2>1, <2>4, <3>1 DEF Listed, Id
  <2> QED
    BY <2>3, <2>4
<1>13. ASSUME NEW k \in DOMAIN cfg PROVE \E o \in Objs : o[2] = k /\ Taken(o, s, cfg)
  <2>1. <<s, k>> \in Ids /\ <<s, k>>[1] = s /\ <<s, k>>[2] = k
    BY <1>1, MakeId
  <2>2. NewGen(<<s, k>>) \in Gens
    BY <1>2, <2>1
  <2>3. PICK g \in Gens : g = NewGen(<<s, k>>)
    BY <2>2
  <2>4. <<s, k, g>> \in Objs
    <3>1. <<<<s, k>>[1], <<s, k>>[2], g>> \in Objs
      BY <2>1, MakeObj, Zenon
    <3> QED
      BY <3>1
  <2>5. PICK o \in Objs : o = <<s, k, g>>
    BY <2>4
  <2>6. o[1] = s /\ o[2] = k /\ o[3] = g /\ Id(o) = <<s, k>>
    BY <2>5 DEF Id
  <2> QED
    BY <2>3, <2>6 DEF Taken
<1> QED
  BY <1>6, <1>7, <1>8, <1>9, <1>10, <1>11, <1>12, <1>13 DEF Rewrites
-----------------------------------------------------------------------------
(* What each kind of step keeps.                                           *)

\* The two promises of WorkIsSpared, of one step.
SparesBusy ==
    \A o \in Objs :
        \/ obj[o].op \in {NoOne, Leaked} /\ ~obj[o].locked
        \/ [obj'[o] EXCEPT !.state = "", !.op = NoOne, !.locked = FALSE]
             = [obj[o] EXCEPT !.state = "", !.op = NoOne, !.locked = FALSE]
        \/ Listed(o) /\ ~Listed(o)' /\ svc'.at \in {"delete", "idle"}
        \/ Restart

SparesRunning ==
    \A o \in Objs : Listed(o) /\ obj[o].state = "running" => Listed(o)' \/ Restart

\* The map and the configuration of its instances.
ConfigInv == MapsOK /\ UnlistedOK /\ PortsOK

ObjsTypes == inst' \in [Ids -> Gens \cup {0}] /\ obj' \in [Objs -> ObjType]

OthersMatch(s) ==
    \A t \in Servers \ {s} : \A cfg : Matches(t, cfg) => Matches(t, cfg)'

Alike(o) == obj'[o].port = obj[o].port /\ obj'[o].managed = obj[o].managed

\* A step that changes no configuration.
Quiet == inst' = inst /\ obj' \in [Objs -> ObjType] /\ \A o \in Objs : Alike(o)

LEMMA AlikeIsSame ==
    ASSUME NEW r \in ObjType, NEW q \in ObjType, r.port = q.port, r.managed = q.managed
    PROVE  [r EXCEPT !.state = "", !.op = NoOne, !.locked = FALSE]
             = [q EXCEPT !.state = "", !.op = NoOne, !.locked = FALSE]
BY DEF ObjType

LEMMA QuietKeeps ==
    ASSUME ConfigInv, Quiet
    PROVE  /\ ObjsTypes /\ UnlistedOK' /\ PortsOK'
           /\ \A s \in Servers : \A cfg : Matches(s, cfg) => Matches(s, cfg)'
           /\ SparesBusy /\ SparesRunning
<1>1. \A o \in Objs : (Listed(o)' <=> Listed(o)) /\ Alike(o)
  BY DEF Quiet, Listed, Id
<1>2. \A o \in Objs : InUse(o)' <=> InUse(o)
  BY <1>1 DEF InUse, Alike
<1>3. ObjsTypes
  BY DEF ObjsTypes, Quiet, ConfigInv, MapsOK
<1>4. UnlistedOK'
  BY <1>1 DEF ConfigInv, UnlistedOK, Alike
<1>5. PortsOK'
  BY <1>1, <1>2 DEF ConfigInv, PortsOK, Alike
<1>6. ASSUME NEW s \in Servers, NEW cfg, Matches(s, cfg) PROVE Matches(s, cfg)'
  BY <1>1, <1>2, <1>6 DEF Matches, Alike
<1>7. SparesBusy
  <2>1. ASSUME NEW o \in Objs
        PROVE  [obj'[o] EXCEPT !.state = "", !.op = NoOne, !.locked = FALSE]
                 = [obj[o] EXCEPT !.state = "", !.op = NoOne, !.locked = FALSE]
    BY <1>1, AlikeIsSame DEF Alike, Quiet, ConfigInv, MapsOK
  <2> QED
    BY <2>1 DEF SparesBusy
<1>8. SparesRunning
  BY <1>1 DEF SparesRunning
<1> QED
  BY <1>3, <1>4, <1>5, <1>6, <1>7, <1>8

\* ApplyServer: what it takes over has the ports of the new configuration, which no
\* instance in the map of another server has.
LEMMA AppliesKeeps ==
    ASSUME ConfigInv, NEW s \in Servers, NEW cfg \in Configs(s) \cup {NoConfig}, Applies(s, cfg)
    PROVE  /\ ObjsTypes /\ UnlistedOK' /\ PortsOK' /\ Matches(s, cfg)' /\ OthersMatch(s)
           /\ SparesBusy /\ SparesRunning
<1> DEFINE gone == {o \in Own(s) : o[2] \notin DOMAIN cfg /\ obj[o].state = "stopped"}
<1>1. Rewrites(s, cfg, gone)
  BY RewrittenDoes DEF Applies, ConfigInv
<1>2. \A o \in Objs : o[1] = s /\ Listed(o) => obj[o].op = NoOne /\ obj[o].locked = FALSE
  BY DEF Applies, Own, ConfigInv, MapsOK, ObjType
<1>3. \A o \in Objs : Listed(o) /\ o[1] # s => \A k \in DOMAIN cfg : obj[o].port # cfg[k]
  BY DEF Applies, Validates
<1>4. \A k, l \in DOMAIN cfg : cfg[k] = cfg[l] => k = l
  BY DEF Applies, Validates
<1>5. \A o \in gone : o \in Objs /\ o[1] = s /\ Listed(o) /\ o[2] \notin DOMAIN cfg
                        /\ obj[o].state = "stopped"
  BY DEF Own
<1> HIDE DEF gone
<1>6. ObjsTypes
  BY <1>1 DEF Rewrites, ObjsTypes
<1>7. \A o \in Objs : obj[o] \in ObjType
  BY DEF ConfigInv, MapsOK
<1>8. ASSUME NEW o \in Objs
      PROVE  \/ o[1] # s /\ obj'[o] = obj[o] /\ (Listed(o)' <=> Listed(o))
             \/ /\ Taken(o, s, cfg) /\ Listed(o)'
                /\ obj'[o] = [obj[o] EXCEPT !.port = cfg[o[2]], !.managed = TRUE]
                /\ Listed(o) \/ obj[o] = Blank
             \/ ~Taken(o, s, cfg) /\ ~Listed(o)' /\ ~Listed(o) /\ obj'[o] = obj[o]
             \/ /\ o \in gone /\ ~Taken(o, s, cfg) /\ ~Listed(o)'
                /\ obj'[o] = [obj[o] EXCEPT !.port = NoPort, !.managed = FALSE]
             \/ /\ ~Taken(o, s, cfg) /\ Listed(o) /\ Listed(o)' /\ o[1] = s
                /\ obj'[o] = [obj[o] EXCEPT !.managed = FALSE]
  <2>1. CASE o[1] # s
    BY <1>1, <2>1 DEF Rewrites
  <2>2. CASE Taken(o, s, cfg)
    BY <1>1, <2>2 DEF Rewrites
  <2>3. CASE o[1] = s /\ o[2] \in DOMAIN cfg /\ ~Taken(o, s, cfg)
    BY <1>1, <2>3 DEF Rewrites
  <2>4. CASE o \in gone
    BY <1>1, <1>5, <2>4 DEF Rewrites, Taken
  <2>5. CASE o \notin gone /\ o[1] = s /\ o[2] \notin DOMAIN cfg
    BY <1>1, <2>5 DEF Rewrites, Taken
  <2> QED
    BY <2>1, <2>2, <2>3, <2>4, <2>5
\* What is in use afterwards: the instances of other servers, and those that were taken.
<1>9. ASSUME NEW o \in Objs, InUse(o)'
      PROVE  \/ o[1] # s /\ InUse(o) /\ obj'[o].port = obj[o].port
             \/ Taken(o, s, cfg) /\ obj'[o].port = cfg[o[2]]
  <2>1. Listed(o)' /\ obj'[o].managed = TRUE
    BY <1>9 DEF InUse
  <2> QED
    BY <1>7, <1>8, <2>1 DEF InUse, ObjType
<1>10. \A o \in Objs : Taken(o, s, cfg) => InUse(o)' /\ obj'[o].port = cfg[o[2]]
  <2>1. ASSUME NEW o \in Objs, Taken(o, s, cfg) PROVE InUse(o)' /\ obj'[o].port = cfg[o[2]]
    <3>1. Listed(o)' /\ obj'[o] = [obj[o] EXCEPT !.port = cfg[o[2]], !.managed = TRUE]
      BY <1>1, <2>1 DEF Rewrites
    <3>2. obj'[o].port = cfg[o[2]] /\ obj'[o].managed = TRUE
      BY <1>7, <3>1 DEF ObjType
    <3> QED
      BY <3>1, <3>2 DEF InUse
  <2> QED
    BY <2>1
<1>11. UnlistedOK'
  <2>1. ASSUME NEW o \in Objs, ~Listed(o)'
        PROVE  obj'[o].port = NoPort /\ obj'[o].managed = FALSE
    <3>1. ~Listed(o) => obj[o].port = NoPort /\ obj[o].managed = FALSE
      BY DEF ConfigInv, UnlistedOK
    <3> QED
      BY <1>7, <1>8, <2>1, <3>1 DEF ObjType
  <2> QED
    BY <2>1 DEF UnlistedOK
<1>12. PortsOK'
  <2> SUFFICES ASSUME NEW o \in Objs, NEW p \in Objs, InUse(o)', InUse(p)', obj'[o].port = obj'[p].port
               PROVE  o = p
    BY DEF PortsOK
  <2>1. CASE o[1] # s /\ p[1] # s
    <3>1. InUse(o) /\ InUse(p) /\ obj[o].port = obj[p].port
      BY <1>9, <2>1 DEF Taken
    <3> QED
      BY <3>1 DEF ConfigInv, PortsOK
  <2>2. CASE o[1] = s /\ p[1] = s
    <3>1. Taken(o, s, cfg) /\ Taken(p, s, cfg) /\ cfg[o[2]] = cfg[p[2]]
      BY <1>9, <2>2
    <3>2. o[2] = p[2] /\ o[1] = p[1] /\ Id(o) = Id(p)
      BY <1>4, <3>1 DEF Taken, Id
    <3> QED
      BY <3>1, <3>2, SameObj DEF Taken
  <2>3. CASE o[1] # s /\ p[1] = s
    <3>1. InUse(o) /\ Taken(p, s, cfg) /\ obj[o].port = cfg[p[2]]
      BY <1>9, <2>3 DEF Taken
    <3> QED
      BY <1>3, <2>3, <3>1 DEF InUse, Taken
  <2>4. CASE o[1] = s /\ p[1] # s
    <3>1. InUse(p) /\ Taken(o, s, cfg) /\ obj[p].port = cfg[o[2]]
      BY <1>9, <2>4 DEF Taken
    <3> QED
      BY <1>3, <2>4, <3>1 DEF InUse, Taken
  <2> QED
    BY <2>1, <2>2, <2>3, <2>4
<1>13. Matches(s, cfg)'
  <2>1. ASSUME NEW k \in DOMAIN cfg PROVE \E o \in Objs : o[1] = s /\ o[2] = k /\ InUse(o)'
    <3>1. PICK o \in Objs : o[2] = k /\ Taken(o, s, cfg)
      BY <1>1 DEF Rewrites
    <3> QED
      BY <1>10, <3>1 DEF Taken
  <2>2. ASSUME NEW o \in Objs, o[1] = s, InUse(o)'
        PROVE  o[2] \in DOMAIN cfg /\ obj'[o].port = cfg[o[2]]
    BY <1>9, <2>2 DEF Taken
  <2> QED
    BY <2>1, <2>2 DEF Matches
<1>14. OthersMatch(s)
  <2>1. ASSUME NEW o \in Objs, o[1] # s
        PROVE  (InUse(o)' <=> InUse(o)) /\ obj'[o].port = obj[o].port
    <3>1. obj'[o] = obj[o] /\ (Listed(o)' <=> Listed(o))
      BY <1>1, <2>1 DEF Rewrites
    <3> QED
      BY <3>1 DEF InUse
  <2>2. ASSUME NEW t \in Servers \ {s}, NEW c, Matches(t, c) PROVE Matches(t, c)'
    BY <2>1, <2>2 DEF Matches
  <2> QED
    BY <2>2 DEF OthersMatch
<1>15. SparesBusy
  <2>1. ASSUME NEW o \in Objs, ~(obj[o].op \in {NoOne, Leaked} /\ ~obj[o].locked)
        PROVE  obj'[o] = obj[o]
    <3>1. o[1] = s => ~Listed(o)
      BY <1>2, <2>1
    <3>2. obj[o] # Blank
      BY <2>1 DEF Blank
    <3> QED
      BY <1>5, <1>8, <3>1, <3>2 DEF Taken
  <2> QED
    BY <2>1 DEF SparesBusy
<1>16. SparesRunning
  <2>1. ASSUME NEW o \in Objs, Listed(o), obj[o].state = "running" PROVE Listed(o)'
    BY <1>5, <1>8, <2>1
  <2> QED
    BY <2>1 DEF SparesRunning
<1> QED
  BY <1>6, <1>11, <1>12, <1>13, <1>14, <1>15, <1>16

\* RemoveServer: nothing of the server stays in the map.
LEMMA RemovesKeeps ==
    ASSUME ConfigInv, NEW s \in Servers, Removes(s), svc'.at \in {"delete", "idle"}
    PROVE  /\ ObjsTypes /\ UnlistedOK' /\ PortsOK' /\ Matches(s, NoConfig)' /\ OthersMatch(s)
           /\ SparesBusy /\ SparesRunning
<1>1. /\ inst' = [i \in Ids |-> IF i[1] = s THEN 0 ELSE inst[i]]
      /\ obj' = [o \in Objs |-> IF o \in Own(s)
                                  THEN [obj[o] EXCEPT !.port = NoPort, !.managed = FALSE]
                                  ELSE obj[o]]
  BY DEF Removes
<1>2. \A o \in Objs : obj[o] \in ObjType
  BY DEF ConfigInv, MapsOK
<1>3. \A o \in Objs : Id(o) \in Ids /\ Id(o)[1] = o[1] /\ o[3] # 0
  BY ObjParts, GensAreNot0
<1>4. ASSUME NEW o \in Objs
      PROVE  \/ o[1] # s /\ obj'[o] = obj[o] /\ (Listed(o)' <=> Listed(o))
             \/ o[1] = s /\ ~Listed(o)' /\ ~Listed(o) /\ obj'[o] = obj[o]
             \/ /\ o[1] = s /\ ~Listed(o)' /\ Listed(o)
                /\ obj'[o] = [obj[o] EXCEPT !.port = NoPort, !.managed = FALSE]
  <2>1. CASE o[1] # s
    BY <1>1, <1>3, <2>1 DEF Own, Listed, Id
  <2>2. CASE o[1] = s
    <3>1. ~Listed(o)'
      BY <1>1, <1>3, <2>2 DEF Listed, Id
    <3> QED
      BY <1>1, <2>2, <3>1 DEF Own
  <2> QED
    BY <2>1, <2>2
<1>5. ObjsTypes
  <2>1. ASSUME NEW o \in Objs PROVE obj'[o] \in ObjType
    <3>1. obj[o] \in ObjType /\ [obj[o] EXCEPT !.port = NoPort, !.managed = FALSE] \in ObjType
      BY <1>2 DEF ObjType
    <3>2. obj'[o] \in {obj[o], [obj[o] EXCEPT !.port = NoPort, !.managed = FALSE]}
      BY <1>4
    <3> QED
      BY <3>1, <3>2
  <2>2. inst' \in [Ids -> Gens \cup {0}]
    BY <1>1 DEF ConfigInv, MapsOK
  <2> QED
    BY <1>1, <2>1, <2>2 DEF ObjsTypes
<1>6. UnlistedOK'
  <2>1. ASSUME NEW o \in Objs, ~Listed(o)'
        PROVE  obj'[o].port = NoPort /\ obj'[o].managed = FALSE
    <3>1. ~Listed(o) => obj[o].port = NoPort /\ obj[o].managed = FALSE
      BY DEF ConfigInv, UnlistedOK
    <3> QED
      BY <1>2, <1>4, <2>1, <3>1 DEF ObjType
  <2> QED
    BY <2>1 DEF UnlistedOK
<1>7. \A o \in Objs : /\ InUse(o)' => o[1] # s
                      /\ o[1] # s => (InUse(o)' <=> InUse(o)) /\ obj'[o].port = obj[o].port
  BY <1>4 DEF InUse
<1>8. PortsOK'
  BY <1>7 DEF PortsOK, ConfigInv
<1>9. Matches(s, NoConfig)'
  BY <1>7 DEF Matches, NoConfig
<1>10. OthersMatch(s)
  <2>1. ASSUME NEW t \in Servers \ {s}, NEW c, Matches(t, c) PROVE Matches(t, c)'
    BY <1>7, <2>1 DEF Matches
  <2> QED
    BY <2>1 DEF OthersMatch
<1>11. SparesBusy
  BY <1>4 DEF SparesBusy
<1>12. SparesRunning
  <2>1. \A o \in Objs : o[1] = s /\ Listed(o) => obj[o].state = "stopped"
    BY DEF Removes, Removable, Own
  <2> QED
    BY <1>4, <2>1 DEF SparesRunning
<1> QED
  BY <1>5, <1>6, <1>8, <1>9, <1>10, <1>11, <1>12
-----------------------------------------------------------------------------
(* Requests and deployments: they change no configuration.                 *)

LEMMA OneObject ==
    ASSUME MapsOK, NEW o \in Objs, NEW r \in ObjType, r.port = obj[o].port,
           r.managed = obj[o].managed, inst' = inst, obj' = [obj EXCEPT ![o] = r]
    PROVE  Quiet
<1>1. obj' \in [Objs -> ObjType]
  BY DEF MapsOK
<1>2. ASSUME NEW p \in Objs PROVE Alike(p)
  <2>1. CASE p = o
    BY <2>1 DEF MapsOK, Alike
  <2>2. CASE p # o
    BY <2>2 DEF MapsOK, Alike
  <2> QED
    BY <2>1, <2>2
<1> QED
  BY <1>1, <1>2 DEF Quiet

LEMMA ManyObjects ==
    ASSUME MapsOK, NEW T, NEW h \in Callers \cup Mirrors \cup {NoOne, Leaked}, NEW b \in BOOLEAN,
           inst' = inst,
           \/ obj' = [o \in Objs |-> IF o \in T THEN [obj[o] EXCEPT !.op = h] ELSE obj[o]]
           \/ obj' = [o \in Objs |-> IF o \in T THEN [obj[o] EXCEPT !.op = h, !.locked = b] ELSE obj[o]]
    PROVE  Quiet
<1>1. ASSUME NEW r \in ObjType
      PROVE  /\ [r EXCEPT !.op = h] \in ObjType /\ [r EXCEPT !.op = h, !.locked = b] \in ObjType
             /\ [r EXCEPT !.op = h].port = r.port /\ [r EXCEPT !.op = h].managed = r.managed
             /\ [r EXCEPT !.op = h, !.locked = b].port = r.port
             /\ [r EXCEPT !.op = h, !.locked = b].managed = r.managed
  BY DEF ObjType
<1>2. \A o \in Objs : obj[o] \in ObjType
  BY DEF MapsOK
<1>3. ASSUME NEW o \in Objs PROVE obj'[o] \in ObjType /\ Alike(o)
  <2>1. obj'[o] \in {obj[o], [obj[o] EXCEPT !.op = h], [obj[o] EXCEPT !.op = h, !.locked = b]}
    OBVIOUS
  <2> QED
    BY <1>1, <1>2, <2>1 DEF Alike
<1>4. obj' \in [Objs -> ObjType]
  <2>1. obj' = [o \in Objs |-> obj'[o]]
    OBVIOUS
  <2> QED
    BY <1>3, <2>1
<1> QED
  BY <1>3, <1>4 DEF Quiet

\* The object of an operation that ends, or of a process that exits.
LEMMA InStateDoes ==
    ASSUME MapsOK, UnlistedOK, NEW o \in Objs, NEW state \in States
    PROVE  /\ InState(o, state) \in ObjType
           /\ InState(o, state).port = obj[o].port /\ InState(o, state).managed = obj[o].managed
<1>1. obj[o] \in ObjType
  BY DEF MapsOK
<1>2. CASE Listed(o) \/ state = "running"
  <2>1. InState(o, state) = [obj[o] EXCEPT !.op = NoOne, !.state = state]
    BY <1>2 DEF InState
  <2> QED
    BY <1>1, <2>1 DEF ObjType
<1>3. CASE ~(Listed(o) \/ state = "running")
  <2>1. InState(o, state) = Blank
    BY <1>3 DEF InState
  <2>2. obj[o].port = NoPort /\ obj[o].managed = FALSE
    BY <1>3 DEF UnlistedOK
  <2> QED
    BY <2>1, <2>2, BlankType
<1> QED
  BY <1>2, <1>3

Others == UNCHANGED <<servers, disk, svc, lost>>

LEMMA QuietInv ==
    ASSUME RegIInv, Quiet, Others, call' \in [Callers -> CallType], dep' \in [Mirrors -> DepType],
           PointersOK'
    PROVE  RegIInv' /\ SparesBusy /\ SparesRunning
<1>1. ConfigInv
  BY DEF RegIInv, ConfigInv
<1>2. /\ ObjsTypes /\ UnlistedOK' /\ PortsOK' /\ SparesBusy /\ SparesRunning
      /\ \A s \in Servers : \A cfg : Matches(s, cfg) => Matches(s, cfg)'
  BY <1>1, QuietKeeps
<1>3. MapsOK'
  BY <1>2 DEF ObjsTypes, MapsOK
<1>4. ServersOK' /\ SvcOK'
  BY DEF RegIInv, ServersOK, SvcOK, Others
<1>5. MatchesOK'
  <2>1. svc' = svc /\ servers' = servers /\ lost' = lost
    BY DEF Others
  <2>2. ASSUME NEW s \in Servers
        PROVE  /\ Works(s) => Matches(s, svc.new)'
               /\ ~Works(s) /\ s \notin lost => Matches(s, servers[s])'
    <3>1. Works(s) => Matches(s, svc.new)
      BY DEF RegIInv, MatchesOK
    <3>2. ~Works(s) /\ s \notin lost => Matches(s, servers[s])
      BY DEF RegIInv, MatchesOK
    <3>3. \A cfg : Matches(s, cfg) => Matches(s, cfg)'
      BY <1>2
    <3>4. PICK new : new = svc.new
      OBVIOUS
    <3>5. PICK old : old = servers[s]
      OBVIOUS
    <3>6. /\ Works(s) => Matches(s, new)'
          /\ ~Works(s) /\ s \notin lost => Matches(s, old)'
      BY <3>1, <3>2, <3>3, <3>4, <3>5
    <3> QED
      BY <2>1, <3>4, <3>5, <3>6
  <2>3. \A s \in Servers : Works(s)' <=> Works(s)
    BY <2>1 DEF Works
  <2> QED
    BY <2>1, <2>2, <2>3 DEF MatchesOK
<1> QED
  BY <1>2, <1>3, <1>4, <1>5 DEF RegIInv
\* Nothing moves but who works with what.
LEMMA NoObject ==
    ASSUME MapsOK, UNCHANGED <<inst, obj>> PROVE Quiet
BY DEF MapsOK, Quiet, Alike

LEMMA CallTypes ==
    ASSUME RegIInv, NEW c \in Callers, NEW r \in CallType, r.at # "idle" => r.o \in Objs,
           call' = [call EXCEPT ![c] = r], dep' = dep
    PROVE  call' \in [Callers -> CallType] /\ dep' \in [Mirrors -> DepType] /\ PointersOK'
<1>1. call \in [Callers -> CallType] /\ dep \in [Mirrors -> DepType]
  BY DEF RegIInv, MapsOK
<1>2. call' \in [Callers -> CallType] /\ dep' \in [Mirrors -> DepType]
  BY <1>1
<1>3. ASSUME NEW d \in Callers, call'[d].at # "idle" PROVE call'[d].o \in Objs
  <2>1. CASE d = c
    BY <1>1, <1>3, <2>1
  <2>2. CASE d # c
    BY <1>1, <1>3, <2>2 DEF RegIInv, PointersOK
  <2> QED
    BY <2>1, <2>2
<1> QED
  BY <1>2, <1>3 DEF RegIInv, PointersOK

LEMMA CallStepInv ==
    ASSUME RegIInv, NEW c \in Callers,
           (\E i \in Operated : Lookup(c, i)) \/ CallStep(c)
    PROVE  RegIInv' /\ SparesBusy /\ SparesRunning
<1>0. MapsOK /\ UnlistedOK
  BY DEF RegIInv
<1>1. call[c] \in CallType /\ NoCall \in CallType /\ NoCall.at = "idle"
  BY <1>0 DEF MapsOK, NoCall, CallType
<1>2. call[c].at # "idle" => call[c].o \in Objs /\ obj[call[c].o] \in ObjType
  BY <1>0 DEF RegIInv, PointersOK, MapsOK
<1>3. \A r \in CallType : \A at \in {"held", "start", "stop"} :
        /\ [r EXCEPT !.at = at] \in CallType
        /\ [r EXCEPT !.at = at].o = r.o
  BY DEF CallType
<1>4. CASE \E i \in Operated : Lookup(c, i)
  <2>1. PICK o \in Objs : call' = [call EXCEPT ![c] = [at |-> "found", o |-> o]]
    BY <1>4 DEF Lookup, Found
  <2>2. [at |-> "found", o |-> o] \in CallType
    BY DEF CallType
  <2>3. UNCHANGED <<servers, disk, inst, obj, dep, svc, lost>>
    BY <1>4 DEF Lookup
  <2> QED
    BY <1>0, <2>1, <2>2, <2>3, CallTypes, NoObject, QuietInv DEF Others
<1>5. CASE TryLock(c)
  <2>1. /\ call[c].at = "found" /\ UNCHANGED <<servers, disk, inst, dep, svc, lost>>
        /\ call[c].o \in Objs
    BY <1>2, <1>5 DEF TryLock
  <2>2. CASE obj[call[c].o].op = NoOne
    <3>1. obj' = [obj EXCEPT ![call[c].o].op = c] /\ call' = [call EXCEPT ![c].at = "held"]
      BY <1>5, <2>2 DEF TryLock
    <3>2. obj' = [obj EXCEPT ![call[c].o] = [obj[call[c].o] EXCEPT !.op = c]]
      BY <3>1
    <3>3. /\ [obj[call[c].o] EXCEPT !.op = c] \in ObjType
          /\ [obj[call[c].o] EXCEPT !.op = c].port = obj[call[c].o].port
          /\ [obj[call[c].o] EXCEPT !.op = c].managed = obj[call[c].o].managed
      BY <1>2, <2>1 DEF ObjType
    <3>4. Quiet
      BY <1>0, <2>1, <3>2, <3>3, OneObject
    <3>5. call' = [call EXCEPT ![c] = [call[c] EXCEPT !.at = "held"]]
      BY <3>1
    <3>6. /\ [call[c] EXCEPT !.at = "held"] \in CallType
          /\ [call[c] EXCEPT !.at = "held"].o \in Objs
      BY <1>1, <1>3, <2>1
    <3>7. call' \in [Callers -> CallType] /\ dep' \in [Mirrors -> DepType] /\ PointersOK'
      BY <2>1, <3>5, <3>6, CallTypes
    <3> QED
      BY <2>1, <3>4, <3>7, QuietInv DEF Others
  <2>3. CASE obj[call[c].o].op # NoOne
    <3>1. call' = [call EXCEPT ![c] = NoCall] /\ obj' = obj
      BY <1>5, <2>3 DEF TryLock
    <3> QED
      BY <1>0, <1>1, <2>1, <3>1, CallTypes, NoObject, QuietInv DEF Others
  <2> QED
    BY <2>2, <2>3
<1>6. ASSUME NEW state \in States, Returns(c, state), call[c].at # "idle",
             UNCHANGED <<servers, disk, inst, dep, svc, lost>>
      PROVE  RegIInv' /\ SparesBusy /\ SparesRunning
  <2>1. /\ obj' = [obj EXCEPT ![call[c].o] = InState(call[c].o, state)]
        /\ call' = [call EXCEPT ![c] = NoCall] /\ call[c].o \in Objs
    BY <1>2, <1>6 DEF Returns
  <2>2. Quiet
    BY <1>0, <1>6, <2>1, InStateDoes, OneObject
  <2> QED
    BY <1>1, <1>6, <2>1, <2>2, CallTypes, QuietInv DEF Others
<1>7. CASE Refused(c)
  <2>1. obj[call[c].o].state \in States /\ call[c].at # "idle"
    BY <1>2, <1>7 DEF Refused, ObjType
  <2> QED
    BY <1>6, <1>7, <2>1 DEF Refused
<1>8. CASE Ends(c)
  <2>1. PICK state \in States : Returns(c, state)
    BY <1>8 DEF Ends, States
  <2> QED
    BY <1>6, <1>8, <2>1 DEF Ends
<1>9. CASE Enters(c)
  <2>1. /\ call[c].at = "held" /\ call[c].o \in Objs
        /\ UNCHANGED <<servers, disk, inst, dep, svc, lost>>
    BY <1>2, <1>9 DEF Enters
  <2>2. PICK to \in {"starting", "stopping"}, at \in {"start", "stop"} :
          /\ obj' = [obj EXCEPT ![call[c].o].state = to]
          /\ call' = [call EXCEPT ![c].at = at]
    BY <1>9 DEF Enters
  <2>3. obj' = [obj EXCEPT ![call[c].o] = [obj[call[c].o] EXCEPT !.state = to]]
    BY <2>2
  <2>4. /\ [obj[call[c].o] EXCEPT !.state = to] \in ObjType
        /\ [obj[call[c].o] EXCEPT !.state = to].port = obj[call[c].o].port
        /\ [obj[call[c].o] EXCEPT !.state = to].managed = obj[call[c].o].managed
    BY <1>2, <2>1 DEF ObjType, States
  <2>5. Quiet
    BY <1>0, <2>1, <2>3, <2>4, OneObject
  <2>6. call' = [call EXCEPT ![c] = [call[c] EXCEPT !.at = at]]
    BY <2>2
  <2>7. [call[c] EXCEPT !.at = at] \in CallType /\ [call[c] EXCEPT !.at = at].o \in Objs
    BY <1>1, <1>3, <2>1
  <2>8. call' \in [Callers -> CallType] /\ dep' \in [Mirrors -> DepType] /\ PointersOK'
    BY <2>1, <2>6, <2>7, CallTypes
  <2> QED
    BY <2>1, <2>5, <2>8, QuietInv DEF Others
<1> QED
  BY <1>4, <1>5, <1>7, <1>8, <1>9 DEF CallStep

LEMMA ExitInv ==
    ASSUME RegIInv, NEW o \in Objs, Exit(o)
    PROVE  RegIInv' /\ SparesBusy /\ SparesRunning
<1>0. MapsOK /\ UnlistedOK /\ obj[o] \in ObjType
  BY DEF RegIInv, MapsOK
<1>1. UNCHANGED <<servers, disk, inst, call, dep, svc, lost>>
  BY DEF Exit
<1>2. PICK r : r = IF Listed(o) \/ obj[o].op # NoOne THEN [obj[o] EXCEPT !.state = "failed"] ELSE Blank
  OBVIOUS
<1>3. obj' = [obj EXCEPT ![o] = r]
  BY <1>2 DEF Exit
<1>4. r \in ObjType /\ r.port = obj[o].port /\ r.managed = obj[o].managed
  <2>1. CASE Listed(o) \/ obj[o].op # NoOne
    BY <1>0, <1>2, <2>1 DEF ObjType, States
  <2>2. CASE ~(Listed(o) \/ obj[o].op # NoOne)
    <3>1. obj[o].port = NoPort /\ obj[o].managed = FALSE
      BY <1>0, <2>2 DEF UnlistedOK
    <3> QED
      BY <1>2, <2>2, <3>1, BlankType
  <2> QED
    BY <2>1, <2>2
<1>5. Quiet
  BY <1>0, <1>1, <1>3, <1>4, OneObject
<1>6. call' \in [Callers -> CallType] /\ dep' \in [Mirrors -> DepType] /\ PointersOK'
  BY <1>0, <1>1 DEF MapsOK, RegIInv, PointersOK
<1> QED
  BY <1>1, <1>5, <1>6, QuietInv DEF Others
LEMMA DepTypes ==
    ASSUME RegIInv, NEW s \in Mirrors, NEW r \in DepType, r.at = "work" => r.cur \in Objs,
           dep' = [dep EXCEPT ![s] = r], call' = call
    PROVE  call' \in [Callers -> CallType] /\ dep' \in [Mirrors -> DepType] /\ PointersOK'
<1>1. call \in [Callers -> CallType] /\ dep \in [Mirrors -> DepType]
  BY DEF RegIInv, MapsOK
<1>2. call' \in [Callers -> CallType] /\ dep' \in [Mirrors -> DepType]
  BY <1>1
<1>3. ASSUME NEW t \in Mirrors, dep'[t].at = "work" PROVE dep'[t].cur \in Objs
  <2>1. CASE t = s
    BY <1>1, <1>3, <2>1
  <2>2. CASE t # s
    BY <1>1, <1>3, <2>2 DEF RegIInv, PointersOK
  <2> QED
    BY <2>1, <2>2
<1> QED
  BY <1>2, <1>3 DEF RegIInv, PointersOK

LEMMA DepWork ==
    ASSUME RegIInv, NEW s \in Mirrors,
           \/ \E slots \in SUBSET (1 .. MaxCount[s]) : DepReserves(s, slots)
           \/ \E o \in Objs : DepTakes(s, o)
           \/ DepLocks(s) \/ DepSlotEnds(s)
    PROVE  RegIInv' /\ SparesBusy /\ SparesRunning
<1>0. MapsOK /\ dep[s] \in DepType
  BY DEF RegIInv, MapsOK
<1>1. CASE \E slots \in SUBSET (1 .. MaxCount[s]) : DepReserves(s, slots)
  <2>1. PICK slots \in SUBSET (1 .. MaxCount[s]) : DepReserves(s, slots)
    BY <1>1
  <2>2. PICK targets : targets = UNION {Found(<<s, k>>) : k \in slots}
    OBVIOUS
  <2>3. targets \in SUBSET Objs
    BY <2>2 DEF Found
  <2>4. /\ obj' = [o \in Objs |-> IF o \in targets THEN [obj[o] EXCEPT !.op = s] ELSE obj[o]]
        /\ dep' = [dep EXCEPT ![s].at = "locking", ![s].objs = targets, ![s].todo = targets]
        /\ UNCHANGED <<servers, disk, inst, call, svc, lost>>
    BY <2>1, <2>2 DEF DepReserves
  <2>5. Quiet
    BY <1>0, <2>4, ManyObjects
  <2>6. dep' = [dep EXCEPT ![s] = [dep[s] EXCEPT !.at = "locking", !.objs = targets, !.todo = targets]]
    BY <1>0, <2>4 DEF MapsOK
  <2>7. call' \in [Callers -> CallType] /\ dep' \in [Mirrors -> DepType] /\ PointersOK'
    <3>1. PICK r : r = [dep[s] EXCEPT !.at = "locking", !.objs = targets, !.todo = targets]
      OBVIOUS
    <3>2. r \in DepType /\ r.at # "work"
      BY <1>0, <2>3, <3>1 DEF DepType
    <3> QED
      BY <2>4, <2>6, <3>1, <3>2, DepTypes
  <2> QED
    BY <2>4, <2>5, <2>7, QuietInv DEF Others
<1>2. CASE DepLocks(s)
  <2>1. /\ obj' = [o \in Objs |-> IF o \in dep[s].objs
                                    THEN [obj[o] EXCEPT !.op = NoOne, !.locked = TRUE] ELSE obj[o]]
        /\ dep' = [dep EXCEPT ![s] = [dep[s] EXCEPT !.at = "reserved"]]
        /\ UNCHANGED <<servers, disk, inst, call, svc, lost>>
    BY <1>2 DEF DepLocks
  <2>2. Quiet
    <3>1. PICK yes \in BOOLEAN : yes = TRUE
      OBVIOUS
    <3> QED
      BY <1>0, <2>1, <3>1, ManyObjects
  <2>3. call' \in [Callers -> CallType] /\ dep' \in [Mirrors -> DepType] /\ PointersOK'
    <3>1. PICK r : r = [dep[s] EXCEPT !.at = "reserved"]
      OBVIOUS
    <3>2. r \in DepType /\ r.at # "work"
      BY <1>0, <3>1 DEF DepType
    <3> QED
      BY <2>1, <3>1, <3>2, DepTypes
  <2> QED
    BY <2>1, <2>2, <2>3, QuietInv DEF Others
<1>3. CASE \E o \in Objs : DepTakes(s, o)
  <2>1. PICK o \in Objs : DepTakes(s, o)
    BY <1>3
  <2>2. PICK p \in dep[s].todo :
          dep' = [dep EXCEPT ![s].at = "work", ![s].todo = @ \ {p}, ![s].cur = o,
                             ![s].was = (obj[o].state = "running")]
    BY <2>1 DEF DepTakes
  <2>3. PICK was \in BOOLEAN : was = (obj[o].state = "running")
    OBVIOUS
  <2>4. dep' = [dep EXCEPT ![s] = [dep[s] EXCEPT !.at = "work", !.todo = dep[s].todo \ {p}, !.cur = o,
                                                 !.was = was]]
    BY <1>0, <2>2, <2>3 DEF MapsOK
  <2>5. dep[s].todo \ {p} \in SUBSET Objs
    BY <1>0 DEF DepType
  <2>6. /\ obj' = [obj EXCEPT ![o].op = s, ![o].state = "deploying"]
        /\ UNCHANGED <<servers, disk, inst, call, svc, lost>>
    BY <2>1 DEF DepTakes
  <2>7. obj' = [obj EXCEPT ![o] = [obj[o] EXCEPT !.op = s, !.state = "deploying"]]
    BY <1>0, <2>6 DEF MapsOK
  <2>8. /\ [obj[o] EXCEPT !.op = s, !.state = "deploying"] \in ObjType
        /\ [obj[o] EXCEPT !.op = s, !.state = "deploying"].port = obj[o].port
        /\ [obj[o] EXCEPT !.op = s, !.state = "deploying"].managed = obj[o].managed
    BY <1>0 DEF MapsOK, ObjType, States
  <2>9. Quiet
    BY <1>0, <2>6, <2>7, <2>8, OneObject
  <2>10. call' \in [Callers -> CallType] /\ dep' \in [Mirrors -> DepType] /\ PointersOK'
    <3>1. PICK r : r = [dep[s] EXCEPT !.at = "work", !.todo = dep[s].todo \ {p}, !.cur = o, !.was = was]
      OBVIOUS
    <3>2. r \in DepType /\ r.cur \in Objs
      BY <1>0, <2>5, <3>1 DEF DepType
    <3> QED
      BY <2>4, <2>6, <3>1, <3>2, DepTypes
  <2> QED
    BY <2>6, <2>9, <2>10, QuietInv DEF Others
<1>4. CASE DepSlotEnds(s)
  <2>1. /\ dep[s].at = "work" /\ dep[s].cur \in Objs
        /\ dep' = [dep EXCEPT ![s].at = "reserved", ![s].cur = <<>>, ![s].was = FALSE]
        /\ UNCHANGED <<servers, disk, inst, call, svc, lost>>
    BY <1>4 DEF DepSlotEnds, RegIInv, PointersOK
  <2>2. PICK state \in States :
          obj' = [obj EXCEPT ![dep[s].cur].op = NoOne, ![dep[s].cur].state = state]
    BY <1>4 DEF DepSlotEnds, States
  <2>3. PICK o \in Objs : o = dep[s].cur
    BY <2>1
  <2>4. obj' = [obj EXCEPT ![o] = [obj[o] EXCEPT !.op = NoOne, !.state = state]]
    BY <1>0, <2>2, <2>3 DEF MapsOK
  <2>5. /\ [obj[o] EXCEPT !.op = NoOne, !.state = state] \in ObjType
        /\ [obj[o] EXCEPT !.op = NoOne, !.state = state].port = obj[o].port
        /\ [obj[o] EXCEPT !.op = NoOne, !.state = state].managed = obj[o].managed
    <3>1. obj[o] \in ObjType
      BY <1>0 DEF MapsOK
    <3> QED
      BY <3>1 DEF ObjType
  <2>6. Quiet
    BY <1>0, <2>1, <2>3, <2>4, <2>5, OneObject
  <2>7. PICK no \in BOOLEAN : no = FALSE
    OBVIOUS
  <2>8. dep' = [dep EXCEPT ![s] = [dep[s] EXCEPT !.at = "reserved", !.cur = <<>>, !.was = no]]
    BY <1>0, <2>1, <2>7 DEF MapsOK
  <2>9. call' \in [Callers -> CallType] /\ dep' \in [Mirrors -> DepType] /\ PointersOK'
    <3>1. PICK r : r = [dep[s] EXCEPT !.at = "reserved", !.cur = <<>>, !.was = no]
      OBVIOUS
    <3>2. r \in DepType /\ r.at # "work"
      BY <1>0, <3>1 DEF DepType
    <3> QED
      BY <2>1, <2>8, <3>1, <3>2, DepTypes
  <2> QED
    BY <2>1, <2>6, <2>9, QuietInv DEF Others
<1> QED
  BY <1>1, <1>2, <1>3, <1>4

LEMMA DepRest ==
    ASSUME RegIInv, NEW s \in Mirrors,
           (\E o \in Objs : DepSlotFails(s, o)) \/ DepEnds(s) \/ DepReleases(s)
    PROVE  RegIInv' /\ SparesBusy /\ SparesRunning
<1>0. MapsOK /\ dep[s] \in DepType
  BY DEF RegIInv, MapsOK
<1>1. CASE \E o \in Objs : DepSlotFails(s, o)
  <2>1. PICK o \in Objs : DepSlotFails(s, o)
    BY <1>1
  <2>2. /\ dep[s].at = "reserved" /\ dep' = [dep EXCEPT ![s] = [dep[s] EXCEPT !.todo = dep[s].todo \ {o}]]
        /\ UNCHANGED <<servers, disk, inst, obj, call, svc, lost>>
    BY <1>0, <2>1 DEF DepSlotFails, MapsOK
  <2>3. dep[s].todo \ {o} \in SUBSET Objs
    BY <1>0 DEF DepType
  <2>4. call' \in [Callers -> CallType] /\ dep' \in [Mirrors -> DepType] /\ PointersOK'
    <3>1. PICK r : r = [dep[s] EXCEPT !.todo = dep[s].todo \ {o}]
      OBVIOUS
    <3>2. r \in DepType /\ r.at # "work"
      BY <1>0, <2>2, <2>3, <3>1 DEF DepType
    <3> QED
      BY <2>2, <3>1, <3>2, DepTypes
  <2> QED
    BY <1>0, <2>2, <2>4, NoObject, QuietInv DEF Others
<1>2. CASE DepEnds(s)
  <2>1. /\ dep' = [dep EXCEPT ![s] = [dep[s] EXCEPT !.at = "release", !.todo = {}]]
        /\ UNCHANGED <<servers, disk, inst, obj, call, svc, lost>>
    BY <1>0, <1>2 DEF DepEnds, MapsOK
  <2>2. call' \in [Callers -> CallType] /\ dep' \in [Mirrors -> DepType] /\ PointersOK'
    <3>1. PICK r : r = [dep[s] EXCEPT !.at = "release", !.todo = {}]
      OBVIOUS
    <3>2. r \in DepType /\ r.at # "work"
      BY <1>0, <3>1 DEF DepType
    <3> QED
      BY <2>1, <3>1, <3>2, DepTypes
  <2> QED
    BY <1>0, <2>1, <2>2, NoObject, QuietInv DEF Others
<1>3. CASE DepReleases(s)
  <2>1. PICK o \in dep[s].objs :
          /\ obj' = [obj EXCEPT ![o].locked = FALSE]
          /\ dep' = [dep EXCEPT ![s] = IF dep[s].objs = {o} THEN NoTask
                                       ELSE [dep[s] EXCEPT !.objs = dep[s].objs \ {o}]]
    BY <1>3 DEF DepReleases
  <2>2. o \in Objs /\ dep[s].at = "release" /\ UNCHANGED <<servers, disk, inst, call, svc, lost>>
    BY <1>0, <1>3 DEF DepReleases, DepType
  <2>3. PICK no \in BOOLEAN : no = FALSE
    OBVIOUS
  <2>4. obj' = [obj EXCEPT ![o] = [obj[o] EXCEPT !.locked = no]]
    BY <1>0, <2>1, <2>3 DEF MapsOK
  <2>5. /\ [obj[o] EXCEPT !.locked = no] \in ObjType
        /\ [obj[o] EXCEPT !.locked = no].port = obj[o].port
        /\ [obj[o] EXCEPT !.locked = no].managed = obj[o].managed
    BY <1>0, <2>2 DEF MapsOK, ObjType
  <2>6. Quiet
    BY <1>0, <2>2, <2>4, <2>5, OneObject
  <2>7. PICK r : r = IF dep[s].objs = {o} THEN NoTask ELSE [dep[s] EXCEPT !.objs = dep[s].objs \ {o}]
    OBVIOUS
  <2>8. dep' = [dep EXCEPT ![s] = r]
    BY <2>1, <2>7, Zenon
  <2>9. r \in DepType /\ r.at # "work"
    <3>1. CASE dep[s].objs = {o}
      BY <2>7, <3>1 DEF NoTask, DepType
    <3>2. CASE dep[s].objs # {o}
      <4>1. dep[s].objs \ {o} \in SUBSET Objs
        BY <1>0 DEF DepType
      <4> QED
        BY <1>0, <2>2, <2>7, <3>2, <4>1 DEF DepType
    <3> QED
      BY <3>1, <3>2
  <2>10. call' \in [Callers -> CallType] /\ dep' \in [Mirrors -> DepType] /\ PointersOK'
    BY <2>2, <2>8, <2>9, DepTypes
  <2> QED
    BY <2>2, <2>6, <2>10, QuietInv DEF Others
<1> QED
  BY <1>1, <1>2, <1>3
-----------------------------------------------------------------------------
(* Requests that change the servers.                                       *)

\* A request about s changed its instances: what it leaves, given what the request does.
LEMMA ServiceInv ==
    ASSUME RegIInv, NEW s \in Servers, ObjsTypes, UnlistedOK', PortsOK', OthersMatch(s),
           UNCHANGED <<call, dep>>, ServersOK', SvcOK',
           \A t \in Servers \ {s} :
               (Works(t)' <=> Works(t)) /\ (t \in lost' <=> t \in lost) /\ servers'[t] = servers[t],
           \A t \in Servers \ {s} : ~Works(t),
           Works(s)' => Matches(s, svc.new)',
           ~Works(s)' /\ s \notin lost' => Matches(s, servers[s])'
    PROVE  RegIInv'
<1>1. MapsOK'
  BY DEF RegIInv, MapsOK, ObjsTypes
<1>2. PointersOK'
  BY DEF RegIInv, PointersOK
<1>3. ASSUME NEW t \in Servers
      PROVE  /\ Works(t)' => Matches(t, svc.new)'
             /\ ~Works(t)' /\ t \notin lost' => Matches(t, servers[t])'
  <2>1. CASE t = s
    BY <2>1
  <2>2. CASE t # s
    <3>1. ~Works(t) /\ ~Works(t)'
      BY <2>2
    <3>2. ASSUME t \notin lost' PROVE Matches(t, servers[t])'
      <4>1. Matches(t, servers[t])
        BY <2>2, <3>1, <3>2 DEF RegIInv, MatchesOK
      <4>2. PICK old : old = servers[t]
        OBVIOUS
      <4>3. Matches(t, old)'
        BY <2>2, <4>1, <4>2 DEF OthersMatch
      <4>4. servers'[t] = old
        BY <2>2, <4>2
      <4> QED
        BY <4>3, <4>4
    <3> QED
      BY <3>1, <3>2
  <2> QED
    BY <2>1, <2>2
<1>4. MatchesOK'
  BY <1>3 DEF MatchesOK
<1> QED
  BY <1>1, <1>2, <1>4 DEF RegIInv
LEMMA SvcFacts ==
    ASSUME RegIInv
    PROVE  /\ svc.at = "idle" => \A t \in Servers : ~Works(t)
           /\ svc.at # "idle" =>
                /\ svc.s \in Servers /\ svc.new \in Configs(svc.s) \cup {NoConfig}
                /\ \A t \in Servers \ {svc.s} : ~Works(t)
                /\ Matches(svc.s, svc.new)
BY DEF RegIInv, SvcOK, Works, MatchesOK

LEMMA SvcBegins ==
    ASSUME RegIInv, NEW s \in Servers, NEW cfg \in Configs(s) \cup {NoConfig},
           NEW at \in {"create", "update", "delete"}, svc.at = "idle",
           svc' = [at |-> at, s |-> s, new |-> cfg], UNCHANGED <<servers, disk, call, dep, lost>>,
           at = "create" => servers[s] = NoConfig, at = "delete" => cfg = NoConfig,
           ObjsTypes, UnlistedOK', PortsOK', OthersMatch(s), Matches(s, cfg)'
    PROVE  RegIInv'
<1>1. svc'.at = at /\ svc'.s = s /\ svc'.new = cfg
  OBVIOUS
<1>2. SvcOK'
  BY <1>1 DEF SvcOK
<1>3. ServersOK'
  BY DEF RegIInv, ServersOK
<1>4. \A t \in Servers : ~Works(t)
  BY SvcFacts
<1>5. \A t \in Servers \ {s} : ~Works(t)'
  BY <1>1 DEF Works
<1>6. Works(s)' /\ Matches(s, svc.new)'
  BY <1>1 DEF Works
<1> QED
  BY <1>2, <1>3, <1>4, <1>5, <1>6, ServiceInv

LEMMA SvcEnds ==
    ASSUME RegIInv, svc.at # "idle", NEW s \in Servers, s = svc.s, svc' = NoWork,
           UNCHANGED <<call, dep>>, ServersOK',
           \A t \in Servers \ {s} : (t \in lost' <=> t \in lost) /\ servers'[t] = servers[t],
           ObjsTypes, UnlistedOK', PortsOK', OthersMatch(s),
           s \notin lost' => Matches(s, servers[s])'
    PROVE  RegIInv'
<1>1. svc'.at = "idle"
  BY DEF NoWork
<1>2. SvcOK'
  BY <1>1 DEF SvcOK
<1>3. \A t \in Servers : ~Works(t)'
  BY <1>1 DEF Works
<1>4. \A t \in Servers \ {s} : ~Works(t)
  BY SvcFacts
<1> QED
  BY <1>2, <1>3, <1>4, ServiceInv

\* The mutexes of instances stay taken, and nothing else.
LEMMA LeaksAreQuiet ==
    ASSUME MapsOK, NEW s, NEW cfg, ApplyLeaks(s, cfg) PROVE Quiet
<1>1. PICK T : obj' = [p \in Objs |-> IF p \in T THEN [obj[p] EXCEPT !.op = Leaked] ELSE obj[p]]
  <2>1. PICK o \in Own(s), before \in SUBSET Own(s) :
            obj' = [p \in Objs |-> IF p \in before \cup {o}
                                     THEN [obj[p] EXCEPT !.op = Leaked] ELSE obj[p]]
    BY DEF ApplyLeaks
  <2> QED
    BY <2>1
<1>2. inst' = inst
  BY DEF ApplyLeaks
<1>3. PICK b \in BOOLEAN : TRUE
  OBVIOUS
<1> QED
  BY <1>1, <1>2, <1>3, ManyObjects

LEMMA QuietKeepsAll ==
    ASSUME RegIInv, Quiet
    PROVE  /\ ObjsTypes /\ UnlistedOK' /\ PortsOK' /\ \A s \in Servers : OthersMatch(s)
           /\ \A s \in Servers : \A cfg : Matches(s, cfg) => Matches(s, cfg)'
           /\ SparesBusy /\ SparesRunning
<1>1. ConfigInv
  BY DEF RegIInv, ConfigInv
<1> QED
  BY <1>1, QuietKeeps DEF OthersMatch

LEMMA BeginsInv ==
    ASSUME RegIInv, NEW s \in Servers, NEW cfg \in Configs(s),
           Create(s, cfg) \/ Update(s, cfg) \/ Delete(s)
    PROVE  RegIInv' /\ SparesBusy /\ SparesRunning
<1>0. ConfigInv /\ svc.at = "idle"
  BY DEF RegIInv, ConfigInv, Create, Update, Delete
<1>1. CASE Create(s, cfg) \/ Update(s, cfg)
  <2>1. PICK at \in {"create", "update"} :
          /\ svc' = [at |-> at, s |-> s, new |-> cfg]
          /\ at = "create" => servers[s] = NoConfig
    BY <1>1 DEF Create, Update
  <2>2. Applies(s, cfg) /\ UNCHANGED <<servers, disk, call, dep, lost>>
    BY <1>1 DEF Create, Update
  <2>3. /\ ObjsTypes /\ UnlistedOK' /\ PortsOK' /\ Matches(s, cfg)' /\ OthersMatch(s)
        /\ SparesBusy /\ SparesRunning
    BY <1>0, <2>2, AppliesKeeps
  <2> QED
    BY <1>0, <2>1, <2>2, <2>3, SvcBegins
<1>2. CASE Delete(s)
  <2>1. /\ svc' = [at |-> "delete", s |-> s, new |-> NoConfig] /\ Removes(s)
        /\ UNCHANGED <<servers, disk, call, dep, lost>>
    BY <1>2 DEF Delete
  <2>2. svc'.at \in {"delete", "idle"}
    BY <2>1
  <2>3. /\ ObjsTypes /\ UnlistedOK' /\ PortsOK' /\ Matches(s, NoConfig)' /\ OthersMatch(s)
        /\ SparesBusy /\ SparesRunning
    BY <1>0, <2>1, <2>2, RemovesKeeps
  <2> QED
    BY <1>0, <2>1, <2>3, SvcBegins
<1> QED
  BY <1>1, <1>2

LEMMA UpdateLeaksInv ==
    ASSUME RegIInv, NEW s \in Servers, NEW cfg \in Configs(s), UpdateLeaks(s, cfg)
    PROVE  RegIInv' /\ SparesBusy /\ SparesRunning
<1>1. Quiet /\ Others
  BY LeaksAreQuiet DEF RegIInv, UpdateLeaks, Others
<1>2. call' \in [Callers -> CallType] /\ dep' \in [Mirrors -> DepType] /\ PointersOK'
  BY DEF RegIInv, MapsOK, PointersOK, UpdateLeaks
<1> QED
  BY <1>1, <1>2, QuietInv

LEMMA SavesInv ==
    ASSUME RegIInv, Saves \/ DeleteDone
    PROVE  RegIInv' /\ SparesBusy /\ SparesRunning
<1>1. /\ svc.at # "idle" /\ svc' = NoWork /\ UNCHANGED <<inst, obj, call, dep>>
      /\ lost' = lost \ {svc.s}
  BY DEF Saves, DeleteDone
<1>a. PICK s \in Servers : s = svc.s
  BY <1>1, SvcFacts
<1>b. PICK new \in Configs(s) \cup {NoConfig} : new = svc.new
  BY <1>1, <1>a, SvcFacts
<1>2. s = svc.s /\ new = svc.new /\ new \in Configs(s) \cup {NoConfig}
  BY <1>a, <1>b
<1>3. /\ disk' = [disk EXCEPT ![s] = new]
      /\ servers' = [servers EXCEPT ![s] = new]
  BY <1>2 DEF Saves, DeleteDone, RegIInv, SvcOK
<1>4. Quiet
  BY <1>1, NoObject DEF RegIInv
<1>5. servers'[s] = new /\ \A t \in Servers \ {s} : servers'[t] = servers[t]
  BY <1>3 DEF RegIInv, ServersOK
<1>6. ServersOK'
  <2>1. servers' = [t \in Servers |-> servers'[t]]
    BY <1>3 DEF RegIInv, ServersOK
  <2>2. \A t \in Servers : servers'[t] \in Configs(t) \cup {NoConfig}
    BY <1>2, <1>5 DEF RegIInv, ServersOK
  <2> QED
    BY <1>1, <1>3, <2>1, <2>2 DEF RegIInv, ServersOK
<1>7. Matches(s, new)
  BY <1>1, <1>2, SvcFacts
<1>8. Matches(s, new)'
  BY <1>4, <1>7, QuietKeepsAll
<1>9. Matches(s, servers[s])'
  BY <1>5, <1>8
<1>10. RegIInv'
  BY <1>1, <1>2, <1>4, <1>5, <1>6, <1>9, QuietKeepsAll, SvcEnds
<1> QED
  BY <1>4, <1>10, QuietKeepsAll

LEMMA FailsInv ==
    ASSUME RegIInv, CreateFails \/ UpdateFails \/ DeleteFails
    PROVE  RegIInv' /\ SparesBusy /\ SparesRunning
<1>1. svc.at # "idle" /\ svc' = NoWork /\ UNCHANGED <<servers, disk, call, dep>>
  BY DEF CreateFails, UpdateFails, DeleteFails
<1>a. PICK s \in Servers : s = svc.s
  BY <1>1, SvcFacts
<1>b. PICK old \in Configs(s) \cup {NoConfig} : old = servers[s]
  BY <1>a DEF RegIInv, ServersOK
<1>2. s = svc.s /\ old = servers[s] /\ old \in Configs(s) \cup {NoConfig}
  BY <1>a, <1>b
<1>3. ConfigInv /\ MapsOK
  BY DEF RegIInv, ConfigInv
<1>4. svc'.at = "idle"
  BY <1>1 DEF NoWork
<1>5. lost' \in {lost, lost \cup {s}, lost \ {s}}
  BY <1>2 DEF CreateFails, UpdateFails, DeleteFails
<1>6. ServersOK'
  BY <1>1, <1>2, <1>5 DEF RegIInv, ServersOK
<1>7. \A t \in Servers \ {s} : (t \in lost' <=> t \in lost) /\ servers'[t] = servers[t]
  BY <1>1, <1>5
<1>8. \/ CreateFails /\ Removes(s)
      \/ Applies(s, old)
      \/ ApplyLeaks(s, old) /\ s \in lost'
      \/ UNCHANGED <<inst, obj>> /\ s \in lost'
  BY <1>2 DEF CreateFails, UpdateFails, DeleteFails
<1>9. CASE CreateFails /\ Removes(s)
  <2>1. servers[s] = NoConfig
    BY <1>2, <1>9 DEF CreateFails, RegIInv, SvcOK
  <2>2. /\ ObjsTypes /\ UnlistedOK' /\ PortsOK' /\ Matches(s, NoConfig)' /\ OthersMatch(s)
        /\ SparesBusy /\ SparesRunning
    BY <1>3, <1>4, <1>9, RemovesKeeps
  <2>3. Matches(s, servers[s])'
    BY <1>1, <2>1, <2>2
  <2> QED
    BY <1>1, <1>2, <1>6, <1>7, <2>2, <2>3, SvcEnds
<1>10. CASE Applies(s, old)
  <2>1. /\ ObjsTypes /\ UnlistedOK' /\ PortsOK' /\ Matches(s, old)' /\ OthersMatch(s)
        /\ SparesBusy /\ SparesRunning
    BY <1>3, <1>10, AppliesKeeps
  <2>2. Matches(s, servers[s])'
    BY <1>1, <1>2, <2>1
  <2> QED
    BY <1>1, <1>2, <1>6, <1>7, <2>1, <2>2, SvcEnds
<1>11. CASE (ApplyLeaks(s, old) \/ UNCHANGED <<inst, obj>>) /\ s \in lost'
  <2>1. Quiet
    BY <1>3, <1>11, LeaksAreQuiet, NoObject
  <2> QED
    BY <1>1, <1>2, <1>6, <1>7, <1>11, <2>1, QuietKeepsAll, SvcEnds
<1> QED
  BY <1>8, <1>9, <1>10, <1>11
-----------------------------------------------------------------------------
(* The start of a daemon.                                                  *)

\* NewManager: the instances of the files, which the loader found to be distinct.
LEMMA LoadsInv ==
    ASSUME \A s \in Servers : disk[s] \in Configs(s) \cup {NoConfig}, Loadable(disk), disk' = disk, NEW processes,
           inst' = LoadedInst(disk), obj' = LoadedObj(disk, processes)
    PROVE  /\ ObjsTypes /\ UnlistedOK' /\ PortsOK'
           /\ \A s \in Servers : Matches(s, disk[s])'
<1>1. ASSUME NEW o \in Objs
      PROVE  /\ o[1] \in Servers /\ o[2] \in 1 .. MaxCount[o[1]] /\ o[3] \in Gens
             /\ Id(o) \in Ids /\ Id(o)[1] = o[1] /\ Id(o)[2] = o[2] /\ o[3] # 0
  BY ObjParts, GensAreNot0
<1>2. \A s \in Servers : DOMAIN disk[s] \subseteq 1 .. MaxCount[s] /\ \A k \in DOMAIN disk[s] : disk[s][k] \in Ports
  BY ConfigParts
<1>3. inst' \in [Ids -> Gens \cup {0}]
  BY GensAreNot0 DEF LoadedInst
<1>4. ASSUME NEW o \in Objs
      PROVE  Listed(o)' <=> o[3] = 1 /\ o[2] \in DOMAIN disk[o[1]]
  <2>1. inst'[Id(o)] = IF o[2] \in DOMAIN disk[o[1]] THEN 1 ELSE 0
    BY <1>1 DEF LoadedInst
  <2> QED
    BY <1>1, <2>1 DEF Listed, Id
<1>5. ASSUME NEW o \in Objs
      PROVE  /\ obj'[o] \in ObjType
             /\ Listed(o)' => obj'[o].managed = TRUE /\ obj'[o].port = disk[o[1]][o[2]]
             /\ ~Listed(o)' => obj'[o].managed = FALSE /\ obj'[o].port = NoPort
  <2>1. CASE Listed(o)'
    <3>1. PICK state \in States :
            obj'[o] = [Blank EXCEPT !.port = disk[o[1]][o[2]], !.managed = TRUE, !.state = state]
      BY <1>4, <2>1 DEF LoadedObj, States
    <3>2. disk[o[1]][o[2]] \in Ports
      BY <1>1, <1>2, <1>4, <2>1
    <3> QED
      BY <2>1, <3>1, <3>2 DEF Blank, ObjType
  <2>2. CASE ~Listed(o)'
    <3>1. obj'[o] = Blank
      BY <1>4, <2>2 DEF LoadedObj
    <3> QED
      BY <2>2, <3>1, BlankType
  <2> QED
    BY <2>1, <2>2
<1>6. ObjsTypes
  <2>1. obj' = [o \in Objs |-> obj'[o]]
    BY DEF LoadedObj
  <2> QED
    BY <1>3, <1>5, <2>1 DEF ObjsTypes
<1>7. UnlistedOK'
  BY <1>5 DEF UnlistedOK
<1>8. \A o \in Objs : InUse(o)' => Listed(o)'
  BY DEF InUse
<1>9. PortsOK'
  <2> SUFFICES ASSUME NEW o \in Objs, NEW p \in Objs, Listed(o)', Listed(p)', obj'[o].port = obj'[p].port
               PROVE  o = p
    BY <1>8 DEF PortsOK
  <2>1. /\ o[2] \in DOMAIN disk[o[1]] /\ p[2] \in DOMAIN disk[p[1]]
        /\ disk[o[1]][o[2]] = disk[p[1]][p[2]] /\ o[3] = p[3]
    <3>1. /\ o[2] \in DOMAIN disk[o[1]] /\ p[2] \in DOMAIN disk[p[1]]
          /\ o[3] = 1 /\ p[3] = 1
      BY <1>4
    <3>2. obj'[o].port = disk[o[1]][o[2]] /\ obj'[p].port = disk[p[1]][p[2]]
      BY <1>5
    <3> QED
      BY <3>1, <3>2
  <2>2. <<o[1], o[2]>> = <<p[1], p[2]>>
    BY <1>1, <2>1 DEF Loadable
  <2> QED
    BY <2>1, <2>2, SameObj
<1>10. ASSUME NEW s \in Servers PROVE Matches(s, disk[s])'
  <2>1. ASSUME NEW k \in DOMAIN disk[s] PROVE \E o \in Objs : o[1] = s /\ o[2] = k /\ InUse(o)'
    <3>1. <<s, k>> \in Ids
      BY <1>2, MakeId
    <3>2. PICK one \in Gens : one = 1
      BY GensAreNot0
    <3>3. PICK o \in Objs : o = <<s, k, one>>
      <4>1. PICK i \in Ids : i = <<s, k>>
        BY <3>1
      <4>2. <<i[1], i[2], one>> \in Objs
        BY MakeObj
      <4> QED
        BY <4>1, <4>2
    <3>4. o[1] = s /\ o[2] = k /\ o[3] = 1
      BY <3>2, <3>3
    <3> QED
      BY <1>4, <1>5, <3>4 DEF InUse
  <2>2. ASSUME NEW o \in Objs, o[1] = s, InUse(o)'
        PROVE  o[2] \in DOMAIN disk[s] /\ obj'[o].port = disk[s][o[2]]
    BY <1>4, <1>5, <2>2 DEF InUse
  <2> QED
    BY <2>1, <2>2 DEF Matches
<1> QED
  BY <1>6, <1>7, <1>9, <1>10

LEMMA RestartInv ==
    ASSUME RegIInv, Restart
    PROVE  RegIInv' /\ SparesBusy /\ SparesRunning
<1>1. /\ Loadable(disk) /\ servers' = disk /\ inst' = LoadedInst(disk) /\ disk' = disk
      /\ call' = [c \in Callers |-> NoCall] /\ dep' = [s \in Mirrors |-> NoTask]
      /\ svc' = NoWork /\ lost' = {}
      /\ \E processes : obj' = LoadedObj(disk, processes)
  BY DEF Restart
<1>2. disk = servers /\ \A s \in Servers : disk[s] \in Configs(s) \cup {NoConfig}
  BY DEF RegIInv, ServersOK
<1>3. ObjsTypes /\ UnlistedOK' /\ PortsOK' /\ \A s \in Servers : Matches(s, disk[s])'
  BY <1>1, <1>2, LoadsInv
<1>4. NoCall \in CallType /\ NoCall.at = "idle" /\ NoTask \in DepType /\ NoTask.at # "work"
  BY DEF NoCall, NoTask, CallType, DepType
<1>5. MapsOK' /\ PointersOK'
  BY <1>1, <1>3, <1>4 DEF MapsOK, PointersOK, ObjsTypes
<1>6. ServersOK'
  BY <1>1, <1>2 DEF RegIInv, ServersOK
<1>7. svc'.at = "idle"
  BY <1>1 DEF NoWork
<1>8. SvcOK'
  BY <1>7 DEF SvcOK
<1>9. MatchesOK'
  <2>1. \A s \in Servers : Matches(s, servers[s])'
    BY <1>1, <1>2, <1>3
  <2> QED
    BY <1>7, <2>1 DEF MatchesOK, Works
<1> QED
  BY <1>3, <1>5, <1>6, <1>8, <1>9 DEF RegIInv, SparesBusy, SparesRunning

LEMMA RegInitInv == RegInit => RegIInv
<1> SUFFICES ASSUME RegInit PROVE RegIInv
  OBVIOUS
<1>1. /\ servers = [s \in Servers |-> NoConfig] /\ disk = servers /\ lost = {} /\ svc = NoWork
      /\ inst = LoadedInst(disk) /\ obj = LoadedObj(disk, {})
      /\ call = [c \in Callers |-> NoCall] /\ dep = [s \in Mirrors |-> NoTask]
  BY DEF RegInit
<1>2. ASSUME NEW o \in Objs PROVE o[1] \in Servers /\ Id(o) \in Ids /\ o[3] # 0
  BY ObjParts, GensAreNot0
<1>3. ASSUME NEW i \in Ids PROVE inst[i] = 0
  <2>1. i[1] \in Servers
    BY IdParts
  <2>2. i[2] \notin DOMAIN disk[i[1]]
    BY <1>1, <2>1 DEF NoConfig
  <2> QED
    BY <1>1, <2>2 DEF LoadedInst
<1>4. ASSUME NEW o \in Objs PROVE obj[o] = Blank /\ ~Listed(o)
  <2>1. o[2] \notin DOMAIN disk[o[1]]
    BY <1>1, <1>2 DEF NoConfig
  <2>2. obj[o] = Blank
    BY <1>1, <2>1 DEF LoadedObj
  <2> QED
    BY <1>2, <1>3, <2>2 DEF Listed
<1>5. NoCall \in CallType /\ NoCall.at = "idle" /\ NoTask \in DepType /\ NoTask.at # "work"
  BY DEF NoCall, NoTask, CallType, DepType
<1>6. MapsOK /\ PointersOK
  <2>1. inst = [i \in Ids |-> inst[i]]
    BY <1>1 DEF LoadedInst
  <2>4. obj = [o \in Objs |-> obj[o]]
    <3>1. LoadedObj(disk, {}) = [o \in Objs |-> LoadedObj(disk, {})[o]]
      BY DEF LoadedObj
    <3> QED
      BY <1>1, <3>1, Zenon
  <2>2. inst \in [Ids -> Gens \cup {0}] /\ obj \in [Objs -> ObjType]
    BY <1>3, <1>4, <2>1, <2>4, BlankType
  <2> QED
    BY <1>1, <1>5, <2>2 DEF MapsOK, PointersOK
<1>7. UnlistedOK /\ PortsOK
  BY <1>4, BlankType DEF UnlistedOK, PortsOK, InUse
<1>8. ServersOK /\ SvcOK
  BY <1>1 DEF ServersOK, SvcOK, NoWork
<1>9. MatchesOK
  <2>1. ASSUME NEW s \in Servers PROVE Matches(s, servers[s]) /\ ~Works(s)
    BY <1>1, <1>4 DEF Matches, Works, NoWork, NoConfig, InUse
  <2> QED
    BY <2>1 DEF MatchesOK
<1> QED
  BY <1>6, <1>7, <1>8, <1>9 DEF RegIInv

LEMMA RegStepInv ==
    ASSUME RegIInv, [RegNext]_regVars
    PROVE  RegIInv' /\ SparesBusy /\ SparesRunning
<1>1. ASSUME NEW s \in Servers, NEW cfg \in Configs(s), Create(s, cfg) \/ Update(s, cfg)
      PROVE  RegIInv' /\ SparesBusy /\ SparesRunning
  BY <1>1, BeginsInv
<1>2. ASSUME NEW s \in Servers, Delete(s) PROVE RegIInv' /\ SparesBusy /\ SparesRunning
  <2>1. PICK cfg \in Configs(s) : TRUE
    BY <1>2 DEF Delete, RegIInv, ServersOK
  <2> QED
    BY <1>2, <2>1, BeginsInv
<1>3. ASSUME NEW s \in Servers, NEW cfg \in Configs(s), UpdateLeaks(s, cfg)
      PROVE  RegIInv' /\ SparesBusy /\ SparesRunning
  BY <1>3, UpdateLeaksInv
<1>4. CASE ServiceStep
  BY <1>4, SavesInv, FailsInv DEF ServiceStep
<1>5. CASE \E c \in Callers : (\E i \in Operated : Lookup(c, i)) \/ CallStep(c)
  BY <1>5, CallStepInv
<1>6. CASE \E o \in Objs : Exit(o)
  BY <1>6, ExitInv
<1>7. CASE \E s \in Mirrors : \/ \E slots \in SUBSET (1 .. MaxCount[s]) : DepReserves(s, slots)
                              \/ \E o \in Objs : DepTakes(s, o)
                              \/ DepLocks(s) \/ DepSlotEnds(s)
  BY <1>7, DepWork
<1>8. CASE \E s \in Mirrors : (\E o \in Objs : DepSlotFails(s, o)) \/ DepEnds(s) \/ DepReleases(s)
  BY <1>8, DepRest
<1>9. CASE Restart
  BY <1>9, RestartInv
<1>10. CASE UNCHANGED regVars
  <2>1. Quiet /\ Others
    BY <1>10, NoObject DEF regVars, RegIInv, Others
  <2>2. call' \in [Callers -> CallType] /\ dep' \in [Mirrors -> DepType] /\ PointersOK'
    BY <1>10 DEF regVars, RegIInv, MapsOK, PointersOK
  <2> QED
    BY <2>1, <2>2, QuietInv
<1>11. RegNext =>
         \/ \E s \in Servers : \E cfg \in Configs(s) : Create(s, cfg) \/ Update(s, cfg) \/ UpdateLeaks(s, cfg)
         \/ \E s \in Servers : Delete(s)
         \/ ServiceStep
         \/ \E c \in Callers : (\E i \in Operated : Lookup(c, i)) \/ CallStep(c)
         \/ \E o \in Objs : Exit(o)
         \/ \E s \in Mirrors : \/ \E slots \in SUBSET (1 .. MaxCount[s]) : DepReserves(s, slots)
                               \/ \E o \in Objs : DepTakes(s, o)
                               \/ DepLocks(s) \/ DepSlotEnds(s)
         \/ \E s \in Mirrors : (\E o \in Objs : DepSlotFails(s, o)) \/ DepEnds(s) \/ DepReleases(s)
         \/ Restart
  BY DEF RegNext, DepStep
<1> QED
  BY <1>1, <1>2, <1>3, <1>4, <1>5, <1>6, <1>7, <1>8, <1>9, <1>10, <1>11

-----------------------------------------------------------------------------
(* What the service, the disk and the supervisor hold between two requests   *)
(* is the same, whichever write failed, whatever was in use meanwhile and     *)
(* whenever the daemon was restarted (Create, Update, Delete, ApplyServer).   *)
THEOREM RegistryIsInOrder == RegSpec => []RegInv
<1>1. ASSUME RegIInv PROVE RegInv
  <2>1. RegTypeOK
    BY <1>1 DEF RegIInv, MapsOK, ServersOK, SvcOK, RegTypeOK, ObjType, CallType, DepType
  <2>2. MemoryIsDisk
    BY <1>1 DEF RegIInv, ServersOK, MemoryIsDisk
  <2>3. ASSUME Idle, NEW s \in Servers \ lost
        PROVE  /\ {o[2] : o \in {p \in Own(s) : obj[p].managed}} = DOMAIN servers[s]
               /\ \A o \in Own(s) : obj[o].managed => obj[o].port = servers[s][o[2]]
    <3>1. Matches(s, servers[s])
      BY <1>1, <2>3 DEF Idle, RegIInv, MatchesOK, Works
    <3>2. \A o \in Objs : obj[o].managed \in BOOLEAN
      BY <1>1 DEF RegIInv, MapsOK, ObjType
    <3>3. \A o : o \in Own(s) /\ obj[o].managed <=> o \in Objs /\ o[1] = s /\ InUse(o)
      BY <3>2 DEF Own, InUse
    <3> QED
      BY <3>1, <3>3 DEF Matches
  <2> QED
    BY <2>1, <2>2, <2>3 DEF RegInv, RegistryIsConfig
<1> QED
  BY <1>1, RegInitInv, RegStepInv, PTL DEF RegSpec

(* A daemon that is restarted can load what it saved: two servers never name  *)
(* the same port, unless a rollback failed (validateServerLocked, NewManager). *)
THEOREM RegDaemonRestarts == RegSpec => []DaemonRestarts
<1>1. ASSUME RegIInv PROVE DaemonRestarts
  <2> DEFINE files == [s \in Servers |-> IF s \in lost \cup {svc.s} THEN NoConfig ELSE disk[s]]
  <2>1. ASSUME NEW s \in Servers, NEW k \in DOMAIN files[s]
        PROVE  \E o \in Objs : o[1] = s /\ o[2] = k /\ InUse(o) /\ obj[o].port = files[s][k]
    <3>1. s \notin lost \cup {svc.s} /\ files[s] = disk[s]
      BY <2>1 DEF NoConfig
    <3>2. Matches(s, servers[s]) /\ files[s] = servers[s]
      BY <1>1, <3>1 DEF RegIInv, MatchesOK, ServersOK, Works
    <3> QED
      BY <2>1, <3>2 DEF Matches
  <2> HIDE DEF files
  <2>2. ASSUME NEW s \in Servers, NEW t \in Servers, NEW k \in DOMAIN files[s], NEW l \in DOMAIN files[t],
               files[s][k] = files[t][l]
        PROVE  <<s, k>> = <<t, l>>
    <3>1. PICK o \in Objs : o[1] = s /\ o[2] = k /\ InUse(o) /\ obj[o].port = files[s][k]
      BY <2>1
    <3>2. PICK p \in Objs : p[1] = t /\ p[2] = l /\ InUse(p) /\ obj[p].port = files[t][l]
      BY <2>1
    <3>3. o = p
      BY <1>1, <2>2, <3>1, <3>2 DEF RegIInv, PortsOK
    <3> QED
      BY <3>1, <3>2, <3>3
  <2>3. Loadable(files)
    BY <2>2 DEF Loadable
  <2> QED
    BY <2>3 DEF DaemonRestarts, files
<1> QED
  BY <1>1, RegInitInv, RegStepInv, PTL DEF RegSpec

(* A change of the configuration spares what is at work or runs: it leaves    *)
(* the configuration of an instance alone that an operation or a deployment   *)
(* works with, and keeps an instance in the map that runs (the TryLock of     *)
(* ApplyServer, deploymentLockError, RemoveServer).                           *)
THEOREM RegWorkIsSpared == RegSpec => WorkIsSpared
<1>1. RegIInv /\ [RegNext]_regVars =>
        [\A o \in Objs :
            \/ obj[o].op \in {NoOne, Leaked} /\ ~obj[o].locked
            \/ [obj'[o] EXCEPT !.state = "", !.op = NoOne, !.locked = FALSE]
                 = [obj[o] EXCEPT !.state = "", !.op = NoOne, !.locked = FALSE]
            \/ Listed(o) /\ ~Listed(o)' /\ svc'.at \in {"delete", "idle"}
            \/ Restart]_regVars
  BY RegStepInv DEF SparesBusy
<1>2. RegIInv /\ [RegNext]_regVars =>
        [\A o \in Objs : Listed(o) /\ obj[o].state = "running" => Listed(o)' \/ Restart]_regVars
  BY RegStepInv DEF SparesRunning
<1> QED
  BY <1>1, <1>2, RegInitInv, RegStepInv, PTL DEF RegSpec, WorkIsSpared, BusyKeepsConfig, RunningStays
=============================================================================
