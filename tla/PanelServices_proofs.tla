------------------------- MODULE PanelServices_proofs -------------------------
(***************************************************************************)
(* Theorems about services of the panel: Accounts, FileOperations, FileSync*)
(* and PluginRepository.                                                   *)
(***************************************************************************)
EXTENDS Accounts, FileOperations, FileSync, PluginRepository,
        WellFoundedInduction, TLAPS

-----------------------------------------------------------------------------
(***************************************************************************)
(* Accounts: whatever requests overlap, for any number of them and any users*)
(* and sessions, somebody stays who can manage the panel, and the sessions *)
(* of a user end with what ends them.                                      *)
(***************************************************************************)

Idle      == {"idle", "login", "initialise"}
TargetPCs == {"update", "delete", "create", "password", "own_password", "sign_out", "key",
              "rotate", "revoke", "override", "steward", "others", "commit"}
PCs       == Idle \cup TargetPCs \cup {"sign_in", "mark", "known", "save_group", "drop_group"}

UserRows     == [status : {"none", "active", "disabled", "deleted"}, group : Groups, age : Nat,
             gone : BOOLEAN]
Sessions == [status : {"none", "live", "revoked"}, user : Users \cup {NoUser}, since : Nat]
Requests == [pc : PCs, who : Users \cup {NoUser}, as : Groups, token : Tokens \cup {NoToken},
             target : Users \cup {NoUser}, group : Groups,
             status : {"active", "disabled", "deleted"}, grant : {"none", "allow", "deny"}]

AccTypeOK ==
    /\ account \in [Users -> UserRows]
    /\ rowLock \in [Users -> AccRequests \cup {Unlocked}]
    /\ sessionRow \in [Tokens -> Sessions]
    /\ web \in [AccRequests -> Requests]
    /\ founders \subseteq Users

SomeoneExists == \E u \in Users : Exists(u)

\* Who a request acts for, on whom, and with which session.
KnowsItsUser(r) ==
    /\ web[r].pc # "idle" => web[r].who \in Users
    /\ web[r].pc \in TargetPCs => web[r].target \in Users
    /\ web[r].pc \in {"update", "delete"} => Exists(web[r].target)
    /\ web[r].pc \in {"sign_in", "mark"} => Exists(web[r].who)
    /\ web[r].pc = "own_password" => web[r].target = web[r].who
    /\ web[r].token # NoToken => /\ sessionRow[web[r].token].status # "none"
                                 /\ sessionRow[web[r].token].user = web[r].who
    /\ web[r].pc \notin Idle => SomeoneExists

\* A request that takes a super administrator away.
Removes(r) ==
    IsSuper(web[r].target) /\ (web[r].group # "super_admin" \/ web[r].status # "active")

\* A request that changes a user's row holds it, and with it the row of a super
\* administrator who stays.
HoldsRows(r) ==
    /\ web[r].pc \in {"others", "commit"} => rowLock[web[r].target] = r
    /\ web[r].pc = "commit" /\ Removes(r) =>
         \E u \in Users : u # web[r].target /\ IsSuper(u) /\ rowLock[u] = r

RequestOK(r) == KnowsItsUser(r) /\ HoldsRows(r)

SessionsOK ==
    \A t \in Tokens : sessionRow[t].status = "live" =>
        /\ sessionRow[t].user \in Users
        /\ Exists(sessionRow[t].user)
        /\ sessionRow[t].since = account[sessionRow[t].user].age

LocksExist == \A u \in Users : rowLock[u] # Unlocked => Exists(u)

AdminStays == SomeoneExists => \E u \in Users : IsSuper(u)

FoundersOK ==
    /\ \A u \in founders : Exists(u)
    /\ \A u, v \in founders : u = v

AccInv ==
    /\ AccTypeOK
    /\ \A r \in AccRequests : RequestOK(r)
    /\ SessionsOK
    /\ LocksExist
    /\ AdminStays
    /\ FoundersOK

-----------------------------------------------------------------------------
(* What other requests may rely on.                                        *)

\* What a step does to a user's row, a lock or a session that q has to do with.
Leaves(q) ==
    /\ \A u \in Users : Exists(u) => Exists(u)'
    /\ \A u \in Users : rowLock[u] = q => rowLock'[u] = q /\ IsSuper(u)' = IsSuper(u)
    /\ \A t \in Tokens : sessionRow[t].status # "none" =>
                           sessionRow'[t].status # "none" /\ sessionRow'[t].user = sessionRow[t].user

LEMMA LeftAlone ==
    ASSUME AccInv, NEW q \in AccRequests, web'[q] = web[q], Leaves(q)
    PROVE  RequestOK(q)'
<1> DEFINE w == web[q]
<1>1. w \in Requests /\ RequestOK(q)
  BY DEF AccInv, AccTypeOK
<1>2. SomeoneExists => SomeoneExists'
  BY DEF Leaves, SomeoneExists
<1>3. KnowsItsUser(q)'
  BY <1>1, <1>2 DEF RequestOK, KnowsItsUser, Leaves, Requests, TargetPCs
<1>4. HoldsRows(q)'
  <2>1. w.pc \in {"others", "commit"} => w.target \in Users /\ rowLock[w.target] = q
    BY <1>1 DEF RequestOK, KnowsItsUser, HoldsRows, TargetPCs
  <2>2. w.pc \in {"others", "commit"} => rowLock'[w.target] = q
    BY <2>1 DEF Leaves
  <2>3. ASSUME w.pc = "commit", Removes(q)'
        PROVE  \E u \in Users : u # w.target /\ IsSuper(u)' /\ rowLock'[u] = q
    <3>1. Removes(q)
      BY <2>1, <2>3 DEF Leaves, Removes
    <3>2. PICK u \in Users : u # w.target /\ IsSuper(u) /\ rowLock[u] = q
      BY <1>1, <2>3, <3>1 DEF RequestOK, HoldsRows
    <3> QED
      BY <3>2 DEF Leaves
  <2> QED
    BY <2>2, <2>3 DEF HoldsRows
<1> QED
  BY <1>3, <1>4 DEF RequestOK

LEMMA IdleIsOK ==
    ASSUME NEW r \in AccRequests, web'[r] = NoRequest
    PROVE  RequestOK(r)'
BY DEF NoRequest, RequestOK, KnowsItsUser, HoldsRows, TargetPCs, Idle

\* A step that changes no user and may end sessions.
Ages ==
    /\ sessionRow' \in [Tokens -> Sessions]
    /\ \A t \in Tokens :
         \/ sessionRow'[t] = sessionRow[t]
         \/ /\ sessionRow[t].status = "live" /\ sessionRow'[t].status = "revoked"
            /\ sessionRow'[t].user = sessionRow[t].user

LEMMA RevokesAges == ASSUME AccTypeOK, NEW S, sessionRow' = Revokes(S) PROVE Ages
<1>1. ASSUME NEW t \in Tokens
      PROVE  /\ [sessionRow[t] EXCEPT !.status = "revoked"] \in Sessions
             /\ [sessionRow[t] EXCEPT !.status = "revoked"].status = "revoked"
             /\ [sessionRow[t] EXCEPT !.status = "revoked"].user = sessionRow[t].user
  BY DEF AccTypeOK, Sessions
<1> QED
  BY <1>1 DEF Ages, Revokes, AccTypeOK

LEMMA QuietStep ==
    ASSUME AccInv, UNCHANGED <<account, founders>>, Ages,
           rowLock' \in [Users -> AccRequests \cup {Unlocked}], LocksExist',
           web' \in [AccRequests -> Requests],
           \A q \in AccRequests :
               \/ RequestOK(q)'
               \/ web'[q] = web[q] /\ \A u \in Users : rowLock[u] = q => rowLock'[u] = q
    PROVE  AccInv'
<1>1. AccTypeOK'
  BY DEF AccInv, AccTypeOK, Ages
<1>2. \A u \in Users : Exists(u)' = Exists(u) /\ IsSuper(u)' = IsSuper(u)
  BY DEF Exists, IsSuper, SignsIn
<1>3. \A t \in Tokens : sessionRow[t].status # "none" =>
           sessionRow'[t].status # "none" /\ sessionRow'[t].user = sessionRow[t].user
  BY DEF Ages
<1>4. ASSUME NEW q \in AccRequests PROVE RequestOK(q)'
  <2>1. CASE web'[q] = web[q] /\ \A u \in Users : rowLock[u] = q => rowLock'[u] = q
    BY <1>2, <1>3, <2>1, LeftAlone DEF Leaves
  <2> QED
    BY <2>1
<1>5. SessionsOK'
  BY DEF AccInv, SessionsOK, Ages, Exists
<1>6. AdminStays' /\ FoundersOK'
  BY <1>2 DEF AccInv, AdminStays, FoundersOK, SomeoneExists, AccTypeOK
<1> QED
  BY <1>1, <1>4, <1>5, <1>6 DEF AccInv

\* A request that ends, by whatever statement.
LEMMA EndsStep ==
    ASSUME AccInv, NEW r \in AccRequests, RequestEnds(r), UNCHANGED <<account, founders>>, Ages,
           rowLock' \in [Users -> AccRequests \cup {Unlocked}],
           \A u \in Users : /\ rowLock'[u] \in {rowLock[u], Unlocked}
                            /\ rowLock[u] # r => rowLock'[u] = rowLock[u]
    PROVE  AccInv'
<1>1. web' = [web EXCEPT ![r] = NoRequest] /\ NoRequest \in Requests
  BY DEF RequestEnds, NoRequest, Requests, PCs, Idle, Groups
<1>2. web'[r] = NoRequest /\ web' \in [AccRequests -> Requests]
  BY <1>1 DEF AccInv, AccTypeOK
<1>3. RequestOK(r)'
  BY <1>2, IdleIsOK
<1>4. \A q \in AccRequests \ {r} : /\ web'[q] = web[q]
                                  /\ \A u \in Users : rowLock[u] = q => rowLock'[u] = q
  BY <1>1, AccountConstants DEF AccInv, AccTypeOK
<1>5. LocksExist'
  BY DEF AccInv, LocksExist, Exists
<1> QED
  BY <1>2, <1>3, <1>4, <1>5, QuietStep

\* A request that goes on to something it knows its user for.
LEMMA GoesOn ==
    ASSUME AccInv, NEW r \in AccRequests, NEW new \in Requests, web' = [web EXCEPT ![r] = new],
           UNCHANGED <<account, founders>>, Ages, rowLock' = rowLock,
           KnowsItsUser(r)', new.pc \notin {"others", "commit"}
    PROVE  AccInv'
<1>1. /\ web'[r] = new /\ web' \in [AccRequests -> Requests]
      /\ \A q \in AccRequests \ {r} : web'[q] = web[q]
      /\ rowLock' \in [Users -> AccRequests \cup {Unlocked}]
  BY DEF AccInv, AccTypeOK
<1>2. RequestOK(r)' /\ LocksExist'
  BY <1>1 DEF RequestOK, HoldsRows, AccInv, LocksExist, Exists
<1> QED
  BY <1>1, <1>2, QuietStep

LEMMA NothingAges == ASSUME AccTypeOK, sessionRow' = sessionRow PROVE Ages
BY DEF Ages, AccTypeOK

-----------------------------------------------------------------------------
(* Signing in.                                                             *)

LEMMA LoginInv ==
    ASSUME AccInv, NEW r \in AccRequests,
           \/ \E u \in Users : LoginArrives(r, u)
           \/ ChecksPassword(r)
           \/ MarksLogin(r)
           \/ Logout(r)
    PROVE  AccInv'
<1>0. AccTypeOK /\ KnowsItsUser(r) /\ web[r] \in Requests
  BY DEF AccInv, RequestOK, AccTypeOK
<1>1. ASSUME NEW u \in Users, LoginArrives(r, u) PROVE AccInv'
  <2> DEFINE new == [NoRequest EXCEPT !.who = u,
                       !.pc = IF \E v \in Users : Exists(v) THEN "login" ELSE "initialise"]
  <2>1. /\ web' = [web EXCEPT ![r] = new] /\ UNCHANGED <<account, rowLock, sessionRow, founders>>
    BY <1>1 DEF LoginArrives
  <2>2. /\ new \in Requests /\ new.who = u /\ new.token = NoToken
        /\ new.pc \in {"login", "initialise"}
    BY DEF NoRequest, Requests, PCs, Idle, Groups
  <2> HIDE DEF new
  <2>3. web'[r] = new
    BY <1>0, <2>1 DEF AccTypeOK
  <2>4. KnowsItsUser(r)'
    BY <2>2, <2>3 DEF KnowsItsUser, TargetPCs, Idle
  <2> QED
    BY <1>0, <2>1, <2>2, <2>4, GoesOn, NothingAges
<1>2. CASE ChecksPassword(r)
  <2>1. CASE RequestEnds(r)
    BY <1>0, <1>2, <2>1, EndsStep, NothingAges DEF ChecksPassword, AccTypeOK
  <2>2. CASE SignsIn(web[r].who) /\ web' = ReadsOn(r, "sign_in")
    <3> DEFINE new == [web[r] EXCEPT !.pc = "sign_in"]
    <3>1. /\ web[r].pc = "login"
          /\ web' = [web EXCEPT ![r] = new] /\ UNCHANGED <<account, rowLock, sessionRow, founders>>
      BY <1>2, <2>2 DEF ChecksPassword, ReadsOn, At
    <3>2. /\ new \in Requests /\ new.who = web[r].who /\ new.token = web[r].token
          /\ new.pc = "sign_in"
      BY <1>0 DEF Requests, PCs
    <3> HIDE DEF new
    <3>3. web'[r] = new
      BY <1>0, <3>1 DEF AccTypeOK
    <3>4. web[r].who \in Users /\ Exists(web[r].who) /\ SomeoneExists
      BY <1>0, <2>2, <3>1 DEF KnowsItsUser, SignsIn, Exists, SomeoneExists
    <3>5. KnowsItsUser(r)'
      BY <1>0, <3>1, <3>2, <3>3, <3>4 DEF KnowsItsUser, TargetPCs, Exists, SomeoneExists
    <3> QED
      BY <1>0, <3>1, <3>2, <3>5, GoesOn, NothingAges
  <2> QED
    BY <1>2, <2>1, <2>2 DEF ChecksPassword
<1>3. CASE MarksLogin(r)
  <2>1. RequestEnds(r) /\ UNCHANGED <<account, rowLock, founders>>
    BY <1>3 DEF MarksLogin
  <2>2. Ages
    BY <1>0, <1>3, NothingAges, RevokesAges DEF MarksLogin
  <2> QED
    BY <1>0, <2>1, <2>2, EndsStep DEF AccTypeOK
<1>4. CASE Logout(r)
  <2>1. RequestEnds(r) /\ UNCHANGED <<account, rowLock, founders>>
    BY <1>4 DEF Logout
  <2>2. Ages
    BY <1>0, <1>4, RevokesAges DEF Logout
  <2> QED
    BY <1>0, <2>1, <2>2, EndsStep DEF AccTypeOK
<1> QED
  BY <1>1, <1>2, <1>3, <1>4

\* A session is opened for the user as he is at the moment.
LEMMA OpensSessionInv ==
    ASSUME AccInv, NEW r \in AccRequests, NEW t \in Tokens, OpensSession(r, t)
    PROVE  AccInv'
<1> DEFINE u   == web[r].who
           new == [status |-> "live", user |-> u, since |-> account[u].age]
           req == [web[r] EXCEPT !.pc = "mark", !.token = t]
<1>0. AccTypeOK /\ KnowsItsUser(r) /\ web[r] \in Requests
  BY DEF AccInv, RequestOK, AccTypeOK
<1>1. /\ web[r].pc = "sign_in" /\ sessionRow[t].status = "none"
      /\ sessionRow' = [sessionRow EXCEPT ![t] = new]
      /\ web' = [web EXCEPT ![r].pc = "mark", ![r].token = t]
      /\ UNCHANGED <<account, rowLock, founders>>
  BY DEF OpensSession, At
<1>2. u \in Users /\ Exists(u) /\ SomeoneExists
  BY <1>0, <1>1 DEF KnowsItsUser, Idle
<1>3. new \in Sessions /\ new.status = "live" /\ new.user = u /\ new.since = account[u].age
  BY <1>0, <1>2 DEF Sessions, AccTypeOK, UserRows
<1>4. /\ web'[r] \in Requests /\ web'[r].pc = "mark" /\ web'[r].token = t /\ web'[r].who = u
      /\ web' \in [AccRequests -> Requests]
      /\ \A q \in AccRequests \ {r} : web'[q] = web[q]
  BY <1>0, <1>1 DEF AccTypeOK, Requests, PCs
<1> HIDE DEF new, u
<1>5. /\ sessionRow' \in [Tokens -> Sessions]
      /\ sessionRow'[t] = new /\ \A s \in Tokens \ {t} : sessionRow'[s] = sessionRow[s]
  BY <1>0, <1>1, <1>3 DEF AccTypeOK
<1>6. AccTypeOK'
  BY <1>0, <1>1, <1>4, <1>5 DEF AccTypeOK
<1>7. \A v \in Users : Exists(v)' = Exists(v) /\ IsSuper(v)' = IsSuper(v)
  BY <1>1 DEF Exists, IsSuper, SignsIn
<1>8. ASSUME NEW q \in AccRequests PROVE RequestOK(q)'
  <2>1. CASE q = r
    BY <1>2, <1>3, <1>4, <1>5, <1>7, <2>1
       DEF RequestOK, KnowsItsUser, HoldsRows, TargetPCs, SomeoneExists
  <2>2. CASE q # r
    <3>1. Leaves(q)
      BY <1>1, <1>5, <1>7, <1>3 DEF Leaves
    <3> QED
      BY <1>4, <2>2, <3>1, LeftAlone
  <2> QED
    BY <2>1, <2>2
<1>9. SessionsOK'
  BY <1>1, <1>2, <1>3, <1>5 DEF AccInv, SessionsOK, Exists
<1>10. AdminStays' /\ FoundersOK'
  BY <1>1, <1>7 DEF AccInv, AdminStays, FoundersOK, SomeoneExists, AccTypeOK
<1>11. LocksExist'
  BY <1>1 DEF AccInv, LocksExist, Exists
<1> QED
  BY <1>6, <1>8, <1>9, <1>10, <1>11 DEF AccInv

-----------------------------------------------------------------------------
(* Requests come, and decide what to do.                                   *)

LEMMA ComesInv ==
    ASSUME AccInv, NEW r \in AccRequests,
           \/ \E u \in Users : ComesWithKey(r, u)
           \/ \E t \in Tokens : ComesWithSession(r, t)
    PROVE  AccInv'
<1>0. AccTypeOK /\ SessionsOK
  BY DEF AccInv
<1>1. PICK u \in Users, t \in Tokens \cup {NoToken} :
        /\ RequestComes(r, u, t)
        /\ t # NoToken => sessionRow[t].status # "none" /\ sessionRow[t].user = u
  BY <1>0, AccountConstants DEF ComesWithKey, ComesWithSession, SessionsOK
<1> DEFINE new == [NoRequest EXCEPT !.pc = "known", !.who = u, !.token = t,
                                    !.as = account[u].group]
<1>2. /\ web' = [web EXCEPT ![r] = new] /\ SignsIn(u)
      /\ UNCHANGED <<account, rowLock, sessionRow, founders>>
  BY <1>1 DEF RequestComes
<1>3. account[u].group \in Groups
  BY <1>0 DEF AccTypeOK, UserRows
<1>4. new \in Requests /\ new.who = u /\ new.token = t /\ new.pc = "known"
  BY <1>3 DEF NoRequest, Requests, PCs, Groups
<1> HIDE DEF new
<1>5. web'[r] = new
  BY <1>0, <1>2 DEF AccTypeOK
<1>6. Exists(u)' /\ SomeoneExists'
  BY <1>2 DEF SignsIn, Exists, SomeoneExists
<1>7. KnowsItsUser(r)'
  BY <1>1, <1>2, <1>4, <1>5, <1>6 DEF KnowsItsUser, TargetPCs
<1> QED
  BY <1>0, <1>2, <1>4, <1>7, GoesOn, NothingAges

Decided == {"update", "delete", "create", "password", "own_password", "sign_out", "key",
            "rotate", "revoke", "override", "steward", "save_group", "drop_group"}

LEMMA DecidesInv ==
    ASSUME AccInv, NEW r \in AccRequests, NEW pc \in Decided, NEW u \in Users \cup {NoUser},
           NEW g \in Groups, NEW s \in {"active", "disabled", "deleted"},
           NEW d \in {"none", "allow", "deny"}, Decides(r, pc, u, g, s, d),
           u = NoUser => pc \in {"save_group", "drop_group"},
           pc \in {"update", "delete"} => Exists(u),
           pc = "own_password" => u = web[r].who
    PROVE  AccInv'
<1> DEFINE new == [web[r] EXCEPT !.pc = pc, !.target = u, !.group = g, !.status = s, !.grant = d]
<1>0. AccTypeOK /\ KnowsItsUser(r) /\ web[r] \in Requests
  BY DEF AccInv, RequestOK, AccTypeOK
<1>1. /\ web[r].pc = "known"
      /\ web' = [web EXCEPT ![r] = new] /\ UNCHANGED <<account, rowLock, sessionRow, founders>>
  BY <1>0 DEF Decides, At, AccTypeOK
<1>2. /\ new \in Requests /\ new.pc = pc /\ new.target = u
      /\ new.who = web[r].who /\ new.token = web[r].token
  <2>1. pc \in PCs
    BY DEF PCs, TargetPCs, Decided
  <2> QED
    BY <1>0, <2>1 DEF Requests
<1> HIDE DEF new
<1>3. web'[r] = new
  BY <1>0, <1>1 DEF AccTypeOK
<1>4. web[r].who \in Users /\ SomeoneExists
  BY <1>0, <1>1 DEF KnowsItsUser, Idle
<1>5. SomeoneExists' /\ (pc \in {"update", "delete"} => Exists(u)')
  BY <1>1, <1>4 DEF SomeoneExists, Exists
<1>6. pc \in TargetPCs => u \in Users
  BY DEF TargetPCs
<1>7. KnowsItsUser(r)'
  BY <1>0, <1>1, <1>2, <1>3, <1>4, <1>5, <1>6 DEF KnowsItsUser, Decided
<1>8. new.pc \notin {"others", "commit"}
  BY <1>2 DEF Decided
<1> QED
  BY <1>0, <1>1, <1>2, <1>7, <1>8, GoesOn, NothingAges

LEMMA BeginsInv ==
    ASSUME AccInv, NEW r \in AccRequests, BeginsRequest(r)
    PROVE  AccInv'
<1>0. KnowsItsUser(r)
  BY DEF AccInv, RequestOK
<1>1. /\ "observer" \in Groups /\ "staff" \in Groups
      /\ \A p \in {"update", "delete", "create", "password", "own_password", "sign_out", "key",
                   "rotate", "revoke", "override", "steward", "save_group", "drop_group"} :
             p \in Decided
  BY DEF Groups, Decided
<1>2. ASSUME NEW u \in Users, NEW g \in Groups, NEW s \in {"active", "disabled"},
             AsksUpdate(r, u, g, s)
      PROVE  AccInv'
  BY <1>1, <1>2, AccountConstants, DecidesInv DEF AsksUpdate, Manageable
<1>3. ASSUME NEW u \in Users, AsksDelete(r, u) PROVE AccInv'
  BY <1>1, <1>3, AccountConstants, DecidesInv DEF AsksDelete, Manageable
<1>4. ASSUME NEW u \in Users, NEW g \in Groups, AsksCreate(r, u, g) PROVE AccInv'
  BY <1>1, <1>4, AccountConstants, DecidesInv DEF AsksCreate
<1>5. ASSUME NEW u \in Users,
             AsksPassword(r, u) \/ AsksSignOut(r, u) \/ AsksSteward(r, u)
      PROVE  AccInv'
  BY <1>1, <1>5, AccountConstants, DecidesInv DEF AsksPassword, AsksSignOut, AsksSteward
<1>6. ASSUME NEW u \in Users, NEW pc \in {"key", "rotate", "revoke"}, AsksKey(r, u, pc)
      PROVE  AccInv'
  BY <1>1, <1>6, AccountConstants, DecidesInv DEF AsksKey
<1>7. ASSUME NEW u \in Users, NEW wanted \in BOOLEAN, AsksPermission(r, u, wanted)
      PROVE  AccInv'
  <2> DEFINE d == CASE wanted = GroupGrants(account[u].group) -> "none"
                    [] wanted -> "allow"
                    [] OTHER -> "deny"
  <2>1. d \in {"none", "allow", "deny"} /\ Decides(r, "override", u, "observer", "active", d)
    BY <1>7 DEF AsksPermission
  <2> HIDE DEF d
  <2> QED
    BY <1>1, <2>1, AccountConstants, DecidesInv
<1>8. CASE ChangesOwnPassword(r)
  <2>1. web[r].who \in Users
    BY <1>0, <1>8 DEF ChangesOwnPassword, Decides, At, KnowsItsUser
  <2> QED
    BY <1>1, <1>8, <2>1, AccountConstants, DecidesInv DEF ChangesOwnPassword
<1>9. ASSUME NEW pc \in {"save_group", "drop_group"}, NEW manages \in BOOLEAN,
             AsksGroup(r, pc, manages)
      PROVE  AccInv'
  BY <1>1, <1>9, AccountConstants, DecidesInv DEF AsksGroup
<1> QED
  BY <1>2, <1>3, <1>4, <1>5, <1>6, <1>7, <1>8, <1>9 DEF BeginsRequest

-----------------------------------------------------------------------------
(* What requests write.                                                    *)

\* What changes no user's row and ends the request.
LEMMA WritesElsewhereInv ==
    ASSUME AccInv, NEW r \in AccRequests,
           \/ RevokesSessions(r) \/ SavesKey(r) \/ SavesOverride(r) \/ SavesGroup(r)
           \/ DropsGroup(r) \/ SetsSteward(r) \/ RequestErrs(r)
    PROVE  AccInv'
<1>0. AccTypeOK
  BY DEF AccInv
<1>1. RequestEnds(r) /\ UNCHANGED <<account, founders>>
  BY DEF RevokesSessions, SavesKey, SavesOverride, SavesGroup, DropsGroup, SetsSteward,
         RequestErrs
<1>2. sessionRow' = sessionRow \/ sessionRow' = Revokes(TokensOf(web[r].target))
  BY DEF RevokesSessions, SavesKey, SavesOverride, SavesGroup, DropsGroup, SetsSteward,
         RequestErrs
<1>3. rowLock' = rowLock \/ rowLock' = Released(r)
  BY DEF RevokesSessions, SavesKey, SavesOverride, SavesGroup, DropsGroup, SetsSteward,
         RequestErrs
<1>4. Ages
  BY <1>0, <1>2, NothingAges, RevokesAges
<1>5. /\ rowLock' \in [Users -> AccRequests \cup {Unlocked}]
      /\ \A u \in Users : /\ rowLock'[u] \in {rowLock[u], Unlocked}
                          /\ rowLock[u] # r => rowLock'[u] = rowLock[u]
  BY <1>0, <1>3 DEF Released, AccTypeOK
<1> QED
  BY <1>1, <1>4, <1>5, EndsStep

\* The row is taken; only a request that takes no super administrator away commits next.
LEMMA LocksUserInv ==
    ASSUME AccInv, NEW r \in AccRequests, LocksUser(r)
    PROVE  AccInv'
<1> DEFINE u  == web[r].target
           pc == IF /\ account[u].group = "super_admin" /\ account[u].status = "active"
                    /\ web[r].group # "super_admin" \/ web[r].status # "active"
                 THEN "others" ELSE "commit"
<1>0. AccTypeOK /\ KnowsItsUser(r) /\ web[r] \in Requests /\ LocksExist
  BY DEF AccInv, RequestOK, AccTypeOK
<1>1. /\ web[r].pc \in {"update", "delete"} /\ rowLock[u] = Unlocked
      /\ rowLock' = [rowLock EXCEPT ![u] = r] /\ web' = [web EXCEPT ![r].pc = pc]
      /\ UNCHANGED <<account, sessionRow, founders>>
  BY DEF LocksUser, ReadsOn
<1>2. u \in Users /\ Exists(u)
  BY <1>0, <1>1 DEF KnowsItsUser, TargetPCs
<1>3. /\ web' \in [AccRequests -> Requests]
      /\ web'[r] = [web[r] EXCEPT !.pc = pc]
      /\ \A q \in AccRequests \ {r} : web'[q] = web[q]
  BY <1>0, <1>1 DEF AccTypeOK, Requests, PCs, TargetPCs
<1>4. /\ web'[r].pc = pc /\ web'[r].target = u /\ web'[r].group = web[r].group
      /\ web'[r].status = web[r].status /\ web'[r].who = web[r].who
      /\ web'[r].token = web[r].token
  BY <1>0, <1>3 DEF Requests
<1>5. /\ rowLock' \in [Users -> AccRequests \cup {Unlocked}]
      /\ rowLock'[u] = r /\ \A v \in Users \ {u} : rowLock'[v] = rowLock[v]
  BY <1>0, <1>1, <1>2 DEF AccTypeOK
<1>6. KnowsItsUser(r)'
  BY <1>0, <1>1, <1>2, <1>4 DEF KnowsItsUser, Idle, SomeoneExists, Exists
<1>7. pc = "commit" => ~Removes(r)'
  BY <1>1, <1>4 DEF Removes, IsSuper, SignsIn
<1>8. RequestOK(r)'
  BY <1>4, <1>5, <1>6, <1>7 DEF RequestOK, HoldsRows
<1>9. \A q \in AccRequests \ {r} : /\ web'[q] = web[q]
                                  /\ \A v \in Users : rowLock[v] = q => rowLock'[v] = q
  BY <1>1, <1>3, <1>5, AccountConstants
<1>10. LocksExist'
  BY <1>0, <1>1, <1>2, <1>5 DEF LocksExist, Exists
<1>11. Ages
  BY <1>0, <1>1, NothingAges
<1> QED
  BY <1>1, <1>3, <1>5, <1>8, <1>9, <1>10, <1>11, QuietStep

\* The other super administrators are held, one of them at least, or the request ends.
LEMMA LocksOthersInv ==
    ASSUME AccInv, NEW r \in AccRequests, LocksOthers(r)
    PROVE  AccInv'
<1> DEFINE admins == {u \in Users : IsSuper(u)}
           u      == web[r].target
<1>0. AccTypeOK /\ RequestOK(r) /\ web[r] \in Requests /\ LocksExist
  BY DEF AccInv, AccTypeOK
<1>1. /\ web[r].pc = "others" /\ UNCHANGED <<account, sessionRow, founders>>
      /\ \A v \in admins : rowLock[v] \in {Unlocked, r}
  BY DEF LocksOthers, At
<1>2. Ages
  BY <1>0, <1>1, NothingAges
<1>3. CASE admins \subseteq {u}
  <2>1. RequestEnds(r) /\ rowLock' = Released(r)
    BY <1>3 DEF LocksOthers
  <2>2. /\ rowLock' \in [Users -> AccRequests \cup {Unlocked}]
        /\ \A v \in Users : /\ rowLock'[v] \in {rowLock[v], Unlocked}
                            /\ rowLock[v] # r => rowLock'[v] = rowLock[v]
    BY <1>0, <2>1 DEF Released, AccTypeOK
  <2> QED
    BY <1>1, <1>2, <2>1, <2>2, EndsStep
<1>4. CASE ~(admins \subseteq {u})
  <2>1. /\ rowLock' = [v \in Users |-> IF v \in admins THEN r ELSE rowLock[v]]
        /\ web' = [web EXCEPT ![r].pc = "commit"]
    BY <1>4 DEF LocksOthers, ReadsOn
  <2>2. PICK a \in Users : IsSuper(a) /\ a # u
    BY <1>4
  <2>3. /\ web' \in [AccRequests -> Requests]
        /\ web'[r] = [web[r] EXCEPT !.pc = "commit"]
        /\ \A q \in AccRequests \ {r} : web'[q] = web[q]
    BY <1>0, <2>1 DEF AccTypeOK, Requests, PCs, TargetPCs
  <2>4. /\ web'[r].pc = "commit" /\ web'[r].target = u /\ web'[r].who = web[r].who
        /\ web'[r].token = web[r].token
    BY <1>0, <2>3 DEF Requests
  <2>5. u \in Users /\ rowLock[u] = r
    BY <1>0, <1>1 DEF RequestOK, KnowsItsUser, HoldsRows, TargetPCs
  <2>6. /\ rowLock' \in [Users -> AccRequests \cup {Unlocked}]
        /\ rowLock'[u] = r /\ rowLock'[a] = r
        /\ \A v \in Users : rowLock'[v] # rowLock[v] => v \in admins /\ rowLock'[v] = r
    <3>1. rowLock \in [Users -> AccRequests \cup {Unlocked}] /\ a \in admins
      BY <1>0, <2>2 DEF AccTypeOK
    <3> HIDE DEF admins, u
    <3>2. \A v \in Users : rowLock'[v] = IF v \in admins THEN r ELSE rowLock[v]
      BY <2>1
    <3>3. rowLock' \in [Users -> AccRequests \cup {Unlocked}]
      BY <2>1, <3>1
    <3>4. rowLock'[a] = r /\ rowLock'[u] = r
      BY <2>5, <3>1, <3>2
    <3> QED
      BY <3>2, <3>3, <3>4
  <2>7. KnowsItsUser(r)'
    BY <1>0, <1>1, <2>4, <2>5
       DEF RequestOK, KnowsItsUser, Idle, TargetPCs, SomeoneExists, Exists
  <2>8. IsSuper(a)'
    BY <1>1, <2>2 DEF IsSuper, SignsIn
  <2>9. RequestOK(r)'
    BY <2>2, <2>4, <2>6, <2>7, <2>8 DEF RequestOK, HoldsRows
  <2>10. \A q \in AccRequests \ {r} : \A v \in Users : rowLock[v] = q => rowLock'[v] = q
    BY <1>1, <2>6, AccountConstants
  <2>11. LocksExist'
    BY <1>0, <1>1, <2>6 DEF LocksExist, Exists, IsSuper, SignsIn
  <2> QED
    BY <1>1, <1>2, <2>3, <2>6, <2>9, <2>10, <2>11, QuietStep
<1> QED
  BY <1>3, <1>4

\* What changes users keeps to what the other requests rely on.
LEMMA ChangesStep ==
    ASSUME AccInv, NEW r \in AccRequests, AccTypeOK', RequestOK(r)',
           \A q \in AccRequests \ {r} : web'[q] = web[q] /\ Leaves(q),
           SessionsOK', LocksExist', AdminStays', FoundersOK'
    PROVE  AccInv'
<1>1. ASSUME NEW q \in AccRequests, q # r PROVE RequestOK(q)'
  BY <1>1, LeftAlone
<1> QED
  BY <1>1 DEF AccInv

\* The first user is created where nobody is: nobody holds a row, and no session is live.
LEMMA InitialisesInv ==
    ASSUME AccInv, NEW r \in AccRequests, Initialises(r)
    PROVE  AccInv'
<1> DEFINE new == [web[r] EXCEPT !.pc = "login"]
<1>0. AccTypeOK /\ KnowsItsUser(r) /\ web[r] \in Requests /\ LocksExist /\ SessionsOK /\ FoundersOK
  BY DEF AccInv, RequestOK, AccTypeOK
<1>1. /\ web[r].pc = "initialise" /\ web' = [web EXCEPT ![r] = new]
      /\ UNCHANGED <<rowLock, sessionRow>>
  BY DEF Initialises, At, ReadsOn
<1>2. /\ new \in Requests /\ new.who = web[r].who /\ new.token = web[r].token /\ new.pc = "login"
  BY <1>0 DEF Requests, PCs, Idle
<1> HIDE DEF new
<1>3. /\ web'[r] = new /\ web' \in [AccRequests -> Requests]
      /\ \A q \in AccRequests \ {r} : web'[q] = web[q]
  BY <1>0, <1>1, <1>2 DEF AccTypeOK
<1>4. PICK u \in Users : u = web[r].who
  BY <1>0, <1>1 DEF KnowsItsUser
<1>5. KnowsItsUser(r)'
  BY <1>0, <1>1, <1>2, <1>3, <1>4 DEF KnowsItsUser, TargetPCs, Idle
<1>6. CASE UNCHANGED <<account, founders>>
  BY <1>0, <1>1, <1>2, <1>5, <1>6, GoesOn, NothingAges
<1>7. CASE ~SomeoneExists
  <2>1. account' = [account EXCEPT ![u] = Founder] /\ founders' = founders \cup {u}
    BY <1>4, <1>7 DEF Initialises, SomeoneExists
  <2>2. Founder \in UserRows /\ Founder.status = "active" /\ Founder.group = "super_admin"
        /\ ~Founder.gone
    BY DEF Founder, NoAccount, UserRows, Groups
  <2>3. /\ account' \in [Users -> UserRows] /\ account'[u] = Founder
    BY <1>0, <1>4, <2>1, <2>2 DEF AccTypeOK
  <2>4. Exists(u)' /\ IsSuper(u)'
    BY <2>2, <2>3 DEF Exists, IsSuper, SignsIn
  <2>5. founders = {}
    BY <1>0, <1>7 DEF FoundersOK, SomeoneExists, AccTypeOK
  <2>6. AccTypeOK'
    BY <1>0, <1>1, <1>3, <1>4, <2>1, <2>3 DEF AccTypeOK
  <2>7. \A v \in Users : rowLock[v] = Unlocked
    BY <1>0, <1>7 DEF LocksExist, SomeoneExists
  <2>8. \A q \in AccRequests \ {r} : web'[q] = web[q] /\ Leaves(q)
    BY <1>1, <1>3, <1>7, <2>7, AccountConstants DEF Leaves, SomeoneExists
  <2>9. SessionsOK'
    BY <1>0, <1>1, <1>7 DEF SessionsOK, SomeoneExists
  <2>10. LocksExist' /\ AdminStays' /\ FoundersOK'
    BY <1>1, <1>4, <2>1, <2>4, <2>5, <2>7 DEF LocksExist, AdminStays, FoundersOK
  <2>11. RequestOK(r)'
    BY <1>2, <1>3, <1>5 DEF RequestOK, HoldsRows
  <2> QED
    BY <2>6, <2>8, <2>9, <2>10, <2>11, ChangesStep
<1> QED
  BY <1>6, <1>7 DEF Initialises, SomeoneExists

\* A request that ends after it changed users.
LEMMA EndedRequest ==
    ASSUME AccInv, NEW r \in AccRequests, RequestEnds(r)
    PROVE  /\ web' \in [AccRequests -> Requests] /\ RequestOK(r)'
           /\ \A q \in AccRequests \ {r} : web'[q] = web[q]
<1>1. web' = [web EXCEPT ![r] = NoRequest] /\ NoRequest \in Requests
  BY DEF RequestEnds, NoRequest, Requests, PCs, Idle, Groups
<1>2. web'[r] = NoRequest /\ web' \in [AccRequests -> Requests]
  BY <1>1 DEF AccInv, AccTypeOK
<1> QED
  BY <1>1, <1>2, IdleIsOK DEF AccInv, AccTypeOK

\* A new user has no session yet, and nobody holds his row.
LEMMA CreatesUserInv ==
    ASSUME AccInv, NEW r \in AccRequests, CreatesUser(r)
    PROVE  AccInv'
<1> DEFINE u   == web[r].target
           new == [NoAccount EXCEPT !.status = "active", !.group = web[r].group]
<1>0. /\ AccTypeOK /\ KnowsItsUser(r) /\ web[r] \in Requests
      /\ LocksExist /\ SessionsOK /\ FoundersOK /\ AdminStays
  BY DEF AccInv, RequestOK, AccTypeOK
<1>1. web[r].pc = "create" /\ RequestEnds(r) /\ UNCHANGED <<rowLock, sessionRow, founders>>
  BY DEF CreatesUser, At
<1>2. u \in Users /\ SomeoneExists
  BY <1>0, <1>1 DEF KnowsItsUser, TargetPCs, Idle
<1>3. CASE account' = account
  BY <1>0, <1>1, <1>3, EndsStep, NothingAges DEF AccTypeOK
<1>4. CASE ~Exists(u) /\ account' = [account EXCEPT ![u] = new]
  <2>1. new \in UserRows /\ new.status = "active"
    BY <1>0 DEF NoAccount, UserRows, Requests
  <2> HIDE DEF new
  <2>2. /\ account' \in [Users -> UserRows] /\ account'[u] = new
        /\ \A v \in Users \ {u} : account'[v] = account[v]
    BY <1>0, <1>2, <1>4, <2>1 DEF AccTypeOK
  <2>3. \A v \in Users : Exists(v) => Exists(v)' /\ v # u /\ account'[v] = account[v]
    BY <1>4, <2>2 DEF Exists
  <2>4. \A v \in Users : Exists(v) => IsSuper(v)' = IsSuper(v)
    BY <2>3 DEF IsSuper, SignsIn
  <2>5. \A v \in Users : IsSuper(v) => Exists(v)
    BY DEF IsSuper, SignsIn, Exists
  <2>6. AccTypeOK'
    BY <1>0, <1>1, <2>2, EndedRequest DEF AccTypeOK
  <2>7. \A q \in AccRequests \ {r} : web'[q] = web[q] /\ Leaves(q)
    BY <1>0, <1>1, <2>3, <2>4, EndedRequest, AccountConstants DEF Leaves, LocksExist
  <2>8. SessionsOK'
    BY <1>0, <1>1, <2>3 DEF SessionsOK
  <2>9. LocksExist' /\ AdminStays' /\ FoundersOK'
    BY <1>0, <1>1, <1>2, <2>3, <2>4, <2>5 DEF LocksExist, AdminStays, FoundersOK, AccTypeOK
  <2> QED
    BY <1>1, <2>6, <2>7, <2>8, <2>9, EndedRequest, ChangesStep
<1> QED
  BY <1>3, <1>4 DEF CreatesUser

\* The sessions of the user end with the old password, but for the one that changed it.
LEMMA SetsPasswordInv ==
    ASSUME AccInv, NEW r \in AccRequests, SetsPassword(r)
    PROVE  AccInv'
<1>0. /\ AccTypeOK /\ KnowsItsUser(r) /\ LocksExist /\ SessionsOK /\ FoundersOK /\ AdminStays
  BY DEF AccInv, RequestOK
<1>1. PICK u \in Users : u = web[r].target
  BY <1>0 DEF SetsPassword, KnowsItsUser, TargetPCs
<1>2. RequestEnds(r) /\ UNCHANGED <<rowLock, founders>> /\ rowLock[u] = Unlocked
  BY <1>1 DEF SetsPassword
<1>3. CASE UNCHANGED <<account, sessionRow>>
  BY <1>0, <1>2, <1>3, EndsStep, NothingAges DEF AccTypeOK
<1>4. CASE ~account[u].gone
  <2> DEFINE kept == IF At(r, "own_password") THEN {web[r].token} ELSE {}
             aged == [account[u] EXCEPT !.age = @ + 1]
  <2>1. account' = [account EXCEPT ![u] = aged]
    BY <1>0, <1>1, <1>4 DEF SetsPassword, AccTypeOK
  <2>2. /\ aged \in UserRows /\ aged.age = account[u].age + 1 /\ aged.status = account[u].status
        /\ aged.group = account[u].group /\ aged.gone = account[u].gone
    BY <1>0 DEF AccTypeOK, UserRows
  <2> HIDE DEF aged
  <2>3. /\ account' \in [Users -> UserRows] /\ account'[u] = aged
        /\ \A v \in Users \ {u} : account'[v] = account[v]
    BY <1>0, <2>1, <2>2 DEF AccTypeOK
  <2>4. \A v \in Users : Exists(v)' = Exists(v) /\ IsSuper(v)' = IsSuper(v)
    BY <2>2, <2>3 DEF Exists, IsSuper, SignsIn
  <2>5. sessionRow' = [t \in Tokens |->
             IF t \in kept /\ sessionRow[t].status = "live"
             THEN [sessionRow[t] EXCEPT !.since = account[u].age + 1]
             ELSE Revokes(TokensOf(u))[t]]
    BY <1>1, <1>4 DEF SetsPassword
  <2>6. ASSUME NEW t \in kept, t \in Tokens, sessionRow[t].status = "live"
        PROVE  sessionRow[t].user = u
    BY <1>0, <1>1, <2>6, AccountConstants DEF KnowsItsUser, At
  <2> HIDE DEF kept
  <2>7. ASSUME NEW t \in Tokens
        PROVE  /\ sessionRow'[t] \in Sessions
               /\ sessionRow[t].status # "none" =>
                    sessionRow'[t].status # "none" /\ sessionRow'[t].user = sessionRow[t].user
               /\ sessionRow'[t].status = "live" =>
                    /\ sessionRow[t].status = "live" /\ sessionRow'[t].user = sessionRow[t].user
                    /\ IF sessionRow[t].user = u THEN sessionRow'[t].since = account[u].age + 1
                                                 ELSE sessionRow'[t] = sessionRow[t]
    <3>1. sessionRow[t] \in Sessions /\ account[u].age + 1 \in Nat
      BY <1>0 DEF AccTypeOK, UserRows
    <3>2. CASE t \in kept /\ sessionRow[t].status = "live"
      <4>1. sessionRow'[t] = [sessionRow[t] EXCEPT !.since = account[u].age + 1]
        BY <2>5, <3>2
      <4> QED
        BY <2>6, <3>1, <3>2, <4>1 DEF Sessions
    <3>3. CASE ~(t \in kept /\ sessionRow[t].status = "live")
      <4>1. sessionRow'[t] = IF t \in TokensOf(u) /\ sessionRow[t].status = "live"
                             THEN [sessionRow[t] EXCEPT !.status = "revoked"]
                             ELSE sessionRow[t]
        BY <2>5, <3>3 DEF Revokes
      <4>2. t \in TokensOf(u) <=> sessionRow[t].user = u
        BY DEF TokensOf
      <4> QED
        BY <3>1, <4>1, <4>2 DEF Sessions
    <3> QED
      BY <3>2, <3>3
  <2>8. sessionRow' \in [Tokens -> Sessions]
    BY <2>5, <2>7
  <2>9. AccTypeOK'
    BY <1>0, <1>2, <2>3, <2>8, EndedRequest DEF AccTypeOK
  <2>10. \A q \in AccRequests \ {r} : web'[q] = web[q] /\ Leaves(q)
    BY <1>2, <2>4, <2>7, EndedRequest DEF Leaves
  <2>11. SessionsOK'
    BY <1>0, <2>2, <2>3, <2>4, <2>7 DEF SessionsOK
  <2>12. LocksExist' /\ AdminStays' /\ FoundersOK'
    BY <1>0, <1>2, <2>4 DEF LocksExist, AdminStays, FoundersOK, SomeoneExists, AccTypeOK
  <2> QED
    BY <1>2, <2>9, <2>10, <2>11, <2>12, EndedRequest, ChangesStep
<1> QED
  BY <1>1, <1>3, <1>4 DEF SetsPassword

\* A super administrator who is taken away leaves one behind whose row the request holds.
LEMMA CommitsUserInv ==
    ASSUME AccInv, NEW r \in AccRequests, CommitsUser(r)
    PROVE  AccInv'
<1> DEFINE w   == web[r]
           out == w.status # "active"
<1>0. /\ AccTypeOK /\ RequestOK(r) /\ LocksExist /\ SessionsOK /\ FoundersOK /\ AdminStays
      /\ web[r] \in Requests
  BY DEF AccInv, AccTypeOK
<1>1. w.pc = "commit" /\ RequestEnds(r) /\ rowLock' = Released(r) /\ founders' = founders
  BY DEF CommitsUser, At
<1>2. PICK u \in Users : u = w.target
  BY <1>0, <1>1 DEF RequestOK, KnowsItsUser, TargetPCs
<1>3. rowLock[u] = r /\ SomeoneExists /\ Exists(u)
  BY <1>0, <1>1, <1>2, AccountConstants
     DEF RequestOK, KnowsItsUser, HoldsRows, Idle, LocksExist
<1> DEFINE new == [account[u] EXCEPT !.group = w.group, !.status = w.status,
                     !.gone = @ \/ w.status = "deleted", !.age = IF out THEN @ + 1 ELSE @]
<1>4. account' = [account EXCEPT ![u] = new]
  BY <1>2 DEF CommitsUser
<1>5. /\ new \in UserRows /\ new.status = w.status /\ new.group = w.group
      /\ new.gone = (account[u].gone \/ w.status = "deleted")
      /\ ~out => new.age = account[u].age
  <2>1. account[u] \in UserRows
    BY <1>0 DEF AccTypeOK
  <2>2. w.group \in Groups /\ w.status \in {"active", "disabled", "deleted"}
    BY <1>0 DEF Requests
  <2> DEFINE gone == account[u].gone \/ w.status = "deleted"
             age  == IF out THEN account[u].age + 1 ELSE account[u].age
  <2>3. new = [account[u] EXCEPT !.group = w.group, !.status = w.status, !.gone = gone, !.age = age]
    BY <2>1 DEF UserRows
  <2>4. gone \in BOOLEAN /\ age \in Nat /\ (~out => age = account[u].age)
    BY <2>1 DEF UserRows
  <2> HIDE DEF new, gone, age
  <2>5. new \in UserRows /\ new.status = w.status /\ new.group = w.group /\ new.gone = gone /\ new.age = age
    BY <2>1, <2>2, <2>3, <2>4 DEF UserRows
  <2> QED
    BY <2>4, <2>5 DEF gone
<1> HIDE DEF new
<1>6. /\ account' \in [Users -> UserRows] /\ account'[u] = new
      /\ \A v \in Users \ {u} : account'[v] = account[v]
  BY <1>0, <1>4, <1>5 DEF AccTypeOK
<1>7. \A v \in Users : Exists(v) => Exists(v)'
  BY <1>0, <1>5, <1>6 DEF Exists, Requests
<1>8. \A v \in Users \ {u} : IsSuper(v)' = IsSuper(v)
  BY <1>6 DEF IsSuper, SignsIn
<1>9. Ages /\ (out => \A t \in Tokens : sessionRow'[t].status = "live" => sessionRow'[t].user # u)
  <2>1. sessionRow' = IF out THEN Revokes(TokensOf(u)) ELSE sessionRow
    BY <1>2 DEF CommitsUser
  <2>2. Ages
    BY <1>0, <2>1, NothingAges, RevokesAges
  <2>3. ASSUME out, NEW t \in Tokens, sessionRow'[t].status = "live" PROVE sessionRow'[t].user # u
    BY <2>1, <2>2, <2>3 DEF Revokes, TokensOf, Ages
  <2> QED
    BY <2>2, <2>3
<1>10. /\ rowLock' \in [Users -> AccRequests \cup {Unlocked}]
       /\ \A v \in Users : rowLock'[v] = IF rowLock[v] = r THEN Unlocked ELSE rowLock[v]
  BY <1>0, <1>1 DEF Released, AccTypeOK
<1>11. AccTypeOK'
  BY <1>0, <1>1, <1>6, <1>9, <1>10, EndedRequest DEF AccTypeOK, Ages
<1>12. \A q \in AccRequests \ {r} : web'[q] = web[q] /\ Leaves(q)
  BY <1>1, <1>3, <1>7, <1>8, <1>9, <1>10, EndedRequest DEF Leaves, Ages
<1>13. SessionsOK'
  <2>1. ASSUME NEW t \in Tokens, sessionRow'[t].status = "live"
        PROVE  /\ sessionRow'[t].user \in Users /\ account'[sessionRow'[t].user].status # "none"
               /\ sessionRow'[t].since = account'[sessionRow'[t].user].age
    <3>1. sessionRow'[t] = sessionRow[t]
      BY <1>9, <2>1 DEF Ages
    <3>2. /\ sessionRow[t].user \in Users /\ Exists(sessionRow[t].user)
          /\ sessionRow[t].since = account[sessionRow[t].user].age
      BY <1>0, <2>1, <3>1 DEF SessionsOK
    <3>3. account'[sessionRow[t].user].status # "none"
      BY <1>7, <3>2 DEF Exists
    <3>4. account'[sessionRow[t].user].age = account[sessionRow[t].user].age
      BY <1>5, <1>6, <1>9, <2>1, <3>1, <3>2
    <3> QED
      BY <3>1, <3>2, <3>3, <3>4
  <2> QED
    BY <2>1 DEF SessionsOK, Exists
<1>14. AdminStays'
  <2>1. PICK a \in Users : IsSuper(a)
    BY <1>0, <1>3 DEF AdminStays
  <2>2. CASE a # u
    BY <1>8, <2>1, <2>2 DEF AdminStays
  <2>3. CASE a = u /\ Removes(r)
    <3>1. PICK b \in Users : b # u /\ IsSuper(b)
      BY <1>0, <1>1, <1>2, <2>3 DEF RequestOK, HoldsRows
    <3> QED
      BY <1>8, <3>1 DEF AdminStays
  <2>4. CASE a = u /\ ~Removes(r)
    <3>1. w.group = "super_admin" /\ w.status = "active" /\ ~account[u].gone
      BY <1>2, <2>1, <2>4 DEF Removes, IsSuper, SignsIn
    <3>2. IsSuper(u)'
      BY <1>5, <1>6, <3>1 DEF IsSuper, SignsIn
    <3> QED
      BY <3>2 DEF AdminStays
  <2> QED
    BY <2>2, <2>3, <2>4
<1>15. LocksExist' /\ FoundersOK'
  BY <1>0, <1>1, <1>7, <1>10 DEF LocksExist, FoundersOK, AccTypeOK
<1> QED
  BY <1>1, <1>11, <1>12, <1>13, <1>14, <1>15, EndedRequest, ChangesStep

-----------------------------------------------------------------------------
(* The theorem.                                                            *)

LEMMA AccInitInv == AccInit => AccInv
<1> SUFFICES ASSUME AccInit PROVE AccInv
  OBVIOUS
<1>1. /\ NoAccount \in UserRows /\ NoAccount.status = "none" /\ NoAccount.age = 0
      /\ Founder \in UserRows /\ Founder.status = "active" /\ Founder.group = "super_admin"
      /\ Founder.age = 0 /\ ~Founder.gone /\ ~NoAccount.gone
  BY DEF NoAccount, Founder, UserRows, Groups
<1>2. NoSessionRow \in Sessions /\ NoSessionRow.status = "none" /\ NoRequest \in Requests
  BY DEF NoSessionRow, Sessions, NoRequest, Requests, PCs, Idle, Groups
<1>3. /\ account \in [Users -> {NoAccount, Founder}] /\ founders = {}
      /\ sessionRow \in [Tokens -> {NoSessionRow} \cup
                            {[status |-> "live", user |-> u, since |-> 0] : u \in Users}]
      /\ \A t \in Tokens : sessionRow[t].status = "live" => account[sessionRow[t].user] = Founder
      /\ rowLock = [u \in Users |-> Unlocked]
      /\ web = [r \in AccRequests |-> NoRequest]
  BY DEF AccInit
<1>4. \A t \in Tokens : /\ sessionRow[t] \in Sessions
                        /\ sessionRow[t].status = "live" =>
                             sessionRow[t].user \in Users /\ sessionRow[t].since = 0
  BY <1>2, <1>3 DEF Sessions
<1>5. AccTypeOK
  BY <1>1, <1>2, <1>3, <1>4 DEF AccTypeOK
<1>6. \A r \in AccRequests : RequestOK(r)
  BY <1>3 DEF RequestOK, KnowsItsUser, HoldsRows, NoRequest, Idle, TargetPCs
<1>7. SessionsOK
  BY <1>1, <1>3, <1>4 DEF SessionsOK, Exists
<1>8. LocksExist /\ AdminStays /\ FoundersOK
  BY <1>1, <1>3 DEF LocksExist, AdminStays, FoundersOK, SomeoneExists, Exists, IsSuper, SignsIn
<1> QED
  BY <1>5, <1>6, <1>7, <1>8 DEF AccInv

LEMMA AccStepInv == AccInv /\ [AccNext]_accVars => AccInv'
<1> SUFFICES ASSUME AccInv, [AccNext]_accVars PROVE AccInv'
  OBVIOUS
<1>0. AccTypeOK
  BY DEF AccInv
<1>1. ASSUME NEW r \in AccRequests,
             \/ \E u \in Users : LoginArrives(r, u) \/ ComesWithKey(r, u)
             \/ \E t \in Tokens : OpensSession(r, t) \/ ComesWithSession(r, t)
             \/ Initialises(r) \/ ChecksPassword(r) \/ MarksLogin(r)
             \/ BeginsRequest(r) \/ Logout(r) \/ Writes(r) \/ RequestErrs(r)
      PROVE  AccInv'
  <2>1. CASE \E u \in Users : LoginArrives(r, u)
    BY <2>1, LoginInv
  <2>2. CASE \E u \in Users : ComesWithKey(r, u)
    BY <2>2, ComesInv
  <2>3. CASE \E t \in Tokens : OpensSession(r, t)
    BY <2>3, OpensSessionInv
  <2>4. CASE \E t \in Tokens : ComesWithSession(r, t)
    BY <2>4, ComesInv
  <2>5. CASE Initialises(r)
    BY <2>5, InitialisesInv
  <2>6. CASE ChecksPassword(r) \/ MarksLogin(r) \/ Logout(r)
    BY <2>6, LoginInv
  <2>7. CASE BeginsRequest(r)
    BY <2>7, BeginsInv
  <2>8. CASE Writes(r)
    BY <2>8, LocksUserInv, LocksOthersInv, CommitsUserInv, CreatesUserInv, SetsPasswordInv,
       WritesElsewhereInv DEF Writes
  <2>9. CASE RequestErrs(r)
    BY <2>9, WritesElsewhereInv
  <2> QED
    BY <1>1, <2>1, <2>2, <2>3, <2>4, <2>5, <2>6, <2>7, <2>8, <2>9
<1>2. CASE (\E u \in Users : LimiterForgets(u)) \/ (\E t \in Tokens : SessionExpires(t))
           \/ UNCHANGED accVars
  <2>1. UNCHANGED <<account, founders, rowLock, web>>
    BY <1>2 DEF LimiterForgets, SessionExpires, accVars
  <2>2. sessionRow' = sessionRow \/ \E t \in Tokens : sessionRow' = Revokes({t})
    BY <1>2 DEF LimiterForgets, SessionExpires, accVars
  <2>3. Ages
    BY <1>0, <2>2, NothingAges, RevokesAges
  <2>4. LocksExist'
    BY <2>1 DEF AccInv, LocksExist, Exists
  <2> QED
    BY <1>0, <2>1, <2>3, <2>4, QuietStep DEF AccTypeOK
<1> QED
  BY <1>1, <1>2 DEF AccNext

LEMMA AccSafe == ASSUME AccInv PROVE AccessIsKept
<1>1. LastSuperAdminStays
  BY DEF AccInv, AdminStays, FoundersOK, LastSuperAdminStays, SomeoneExists
<1>2. SessionsEndTogether
  BY DEF AccInv, SessionsOK, SessionsEndTogether
<1> QED
  BY <1>1, <1>2 DEF AccessIsKept

\* From the first user on a super administrator who can sign in stays, initialisation creates
\* one user, and a session that was open when the password was changed or the user disabled
\* or deleted does not authenticate again (CommitsUser, SetsPassword, Initialises).
THEOREM AccAccessIsKept == AccSpec => []AccessIsKept
<1>1. AccInv /\ [AccNext]_accVars => AccInv'
  BY AccStepInv
<1>2. AccInv => AccessIsKept
  BY AccSafe
<1> QED
  BY AccInitInv, <1>1, <1>2, PTL DEF AccSpec

-----------------------------------------------------------------------------
(***************************************************************************)
(* FileOperations: the audit log is true, for any number of operations, stops*)
(* of panel and daemon, broken links and failing statements.               *)
(***************************************************************************)

OperationRows  == [status : {"none", "pending", "succeeded", "failed"}, overdue : BOOLEAN]
Notes == [op : FileOps, success : BOOLEAN, by : {"event", "job"}]

FoTypeOK ==
    /\ opRow \in [FileOps -> OperationRows]
    /\ audits \in [FileOps -> Seq(BOOLEAN)]
    /\ browser \in [FileOps -> {"idle", "asking", "granted", "sent", "left"}]
    /\ daemonWork \in [FileOps -> {"none", "doing", "done", "failed"}]
    /\ message \in [FileOps -> {"none", "done", "failed"}]
    /\ noted \subseteq Notes

End(success) == IF success THEN "succeeded" ELSE "failed"

\* Before its request an operation has no row, and the daemon works for a browser
\* that has used its grant; what the daemon says is what it did.
WorkIsAskedFor(o) ==
    /\ browser[o] = "idle" => opRow[o].status = "none"
    /\ daemonWork[o] # "none" => browser[o] = "sent"
    /\ message[o] # "none" => message[o] = daemonWork[o]

\* A row that is closed says how the operation ended, and so does the audit that is
\* due.  The log says success of a row that succeeded only, and failure of one that
\* failed or whose browser never used its grant.
RowIsTrue(o) ==
    /\ opRow[o].status = "succeeded" => daemonWork[o] = "done"
    /\ \A n \in noted : n.op = o => opRow[o].status = End(n.success)
    /\ TRUE \in Said(audits[o]) => opRow[o].status = "succeeded"
    /\ FALSE \in Said(audits[o]) => opRow[o].status = "failed" \/ browser[o] = "left"

FoInv == FoTypeOK /\ \A o \in FileOps : WorkIsAskedFor(o) /\ RowIsTrue(o)

-----------------------------------------------------------------------------
\* What changes of an operation concerns no other.
LEMMA OneOperation ==
    ASSUME FoInv, FoTypeOK', NEW o \in FileOps,
           \A p \in FileOps \ {o} :
               /\ opRow'[p] = opRow[p] /\ audits'[p] = audits[p] /\ browser'[p] = browser[p]
               /\ daemonWork'[p] = daemonWork[p] /\ message'[p] \in {"none", message[p]},
           \A n \in noted' : n.op # o => n \in noted,
           WorkIsAskedFor(o)', RowIsTrue(o)'
    PROVE  FoInv'
<1>1. ASSUME NEW p \in FileOps \ {o} PROVE WorkIsAskedFor(p)' /\ RowIsTrue(p)'
  <2>1. /\ WorkIsAskedFor(p) /\ RowIsTrue(p)
        /\ opRow'[p] = opRow[p] /\ audits'[p] = audits[p] /\ browser'[p] = browser[p]
        /\ daemonWork'[p] = daemonWork[p] /\ message'[p] \in {"none", message[p]}
        /\ \A n \in noted' : n.op = p => n \in noted
    BY DEF FoInv
  <2>2. WorkIsAskedFor(p)'
    BY <2>1 DEF WorkIsAskedFor
  <2>3. RowIsTrue(p)'
    BY <2>1 DEF RowIsTrue
  <2> QED
    BY <2>2, <2>3
<1> QED
  BY <1>1 DEF FoInv

\* A step that leaves the rows, the audits and the work alone may forget messages and
\* due audits and move a browser on, but not one that is gone or whose work has begun.
LEMMA OthersKeepInv ==
    ASSUME FoInv, UNCHANGED <<opRow, audits, daemonWork>>, noted' \subseteq noted,
           browser' \in [FileOps -> {"idle", "asking", "granted", "sent", "left"}],
           \A p \in FileOps : \/ browser'[p] = browser[p]
                              \/ browser[p] \in {"asking", "granted"} /\ browser'[p] # "idle",
           message' \in [FileOps -> {"none", "done", "failed"}],
           \A p \in FileOps : message'[p] \in {"none", message[p]}
    PROVE  FoInv'
<1>1. FoTypeOK'
  BY DEF FoInv, FoTypeOK
<1>2. ASSUME NEW p \in FileOps PROVE WorkIsAskedFor(p)' /\ RowIsTrue(p)'
  <2>1. WorkIsAskedFor(p) /\ RowIsTrue(p)
    BY DEF FoInv
  <2>2. \/ browser'[p] # "idle" /\ browser[p] # "sent" /\ browser[p] # "left"
        \/ browser'[p] = browser[p]
    OBVIOUS
  <2>3. WorkIsAskedFor(p)'
    BY <2>1, <2>2 DEF WorkIsAskedFor
  <2>4. RowIsTrue(p)'
    BY <2>1, <2>2 DEF RowIsTrue
  <2> QED
    BY <2>3, <2>4
<1> QED
  BY <1>1, <1>2 DEF FoInv

LEMMA StatusIsSet ==
    ASSUME FoTypeOK, NEW o \in FileOps, NEW end \in {"pending", "succeeded", "failed"}
    PROVE  LET row == Status(o, end)
           IN  /\ row \in [FileOps -> OperationRows]
               /\ row[o].status = end
               /\ \A p \in FileOps \ {o} : row[p] = opRow[p]
<1> DEFINE new == [opRow[o] EXCEPT !.status = end]
<1>1. opRow[o] \in OperationRows
  BY DEF FoTypeOK
<1>2. new \in OperationRows /\ new.status = end
  BY <1>1 DEF OperationRows
<1>3. Status(o, end) = [opRow EXCEPT ![o] = new]
  BY DEF Status
<1> HIDE DEF new
<1> QED
  BY <1>2, <1>3 DEF FoTypeOK

LEMMA AuditIsAdded ==
    ASSUME FoTypeOK, NEW o \in FileOps, NEW b \in BOOLEAN
    PROVE  LET log == Audited(o, b)
           IN  /\ log \in [FileOps -> Seq(BOOLEAN)]
               /\ Said(log[o]) = Said(audits[o]) \cup {b}
               /\ \A p \in FileOps \ {o} : log[p] = audits[p]
<1>1. audits[o] \in Seq(BOOLEAN)
  BY DEF FoTypeOK
<1> DEFINE new == Append(audits[o], b)
<1>2. new \in Seq(BOOLEAN) /\ Said(new) = Said(audits[o]) \cup {b}
  <2>1. /\ new \in Seq(BOOLEAN)
        /\ DOMAIN new = DOMAIN audits[o] \cup {Len(audits[o]) + 1}
        /\ new[Len(audits[o]) + 1] = b
        /\ \A i \in DOMAIN audits[o] : new[i] = audits[o][i]
    BY <1>1
  <2> QED
    BY <2>1 DEF Said
<1>3. Audited(o, b) = [audits EXCEPT ![o] = new]
  BY DEF Audited
<1> HIDE DEF new
<1> QED
  BY <1>2, <1>3 DEF FoTypeOK

\* The audit is added, or the database refuses it.
LEMMA AuditIsWritten ==
    ASSUME FoTypeOK, NEW o \in FileOps, NEW b \in BOOLEAN, WritesAudit(o, b)
    PROVE  /\ audits' \in [FileOps -> Seq(BOOLEAN)]
           /\ Said(audits'[o]) \subseteq Said(audits[o]) \cup {b}
           /\ \A p \in FileOps \ {o} : audits'[p] = audits[p]
<1>1. CASE audits' = Audited(o, b)
  BY <1>1, AuditIsAdded
<1>2. CASE audits' = audits
  BY <1>2 DEF FoTypeOK
<1> QED BY <1>1, <1>2 DEF WritesAudit

\* CompleteFileOperation, called with what happened.
LEMMA ClosesRowInv ==
    ASSUME FoInv, NEW o \in FileOps, NEW success \in BOOLEAN, NEW by \in {"event", "job"},
           success => daemonWork[o] = "done",
           ClosesRow(o, success, by), UNCHANGED <<audits, browser, daemonWork>>,
           message' \in [FileOps -> {"none", "done", "failed"}],
           \A p \in FileOps : message'[p] \in {"none", message[p]}
    PROVE  FoInv'
<1> DEFINE n == [op |-> o, success |-> success, by |-> by]
<1>1. CASE opRow[o].status = "pending"
  <2>1. opRow' = Status(o, End(success)) /\ noted' = noted \cup {n}
    BY <1>1 DEF ClosesRow, End
  <2>2. End(success) \in {"succeeded", "failed"} /\ (End(success) = "succeeded" => success)
    BY DEF End
  <2>3. /\ opRow' \in [FileOps -> OperationRows]
        /\ opRow'[o].status = End(success)
        /\ \A p \in FileOps \ {o} : opRow'[p] = opRow[p]
    BY <2>1, <2>2, StatusIsSet DEF FoInv
  <2>4. n \in Notes /\ n.op = o /\ n.success = success
    BY DEF Notes
  <2> HIDE DEF n
  <2>5. FoTypeOK'
    BY <2>1, <2>3, <2>4 DEF FoInv, FoTypeOK
  <2>6. /\ browser[o] # "idle"
        /\ TRUE \notin Said(audits[o])
        /\ FALSE \in Said(audits[o]) => browser[o] = "left"
        /\ \A m \in noted : m.op # o
    BY <1>1 DEF FoInv, WorkIsAskedFor, RowIsTrue, End
  <2>7. WorkIsAskedFor(o)'
    BY <2>6 DEF FoInv, WorkIsAskedFor
  <2>8. RowIsTrue(o)'
    BY <2>1, <2>2, <2>3, <2>4, <2>6 DEF RowIsTrue
  <2> QED
    BY <2>1, <2>3, <2>4, <2>5, <2>7, <2>8, OneOperation
<1>2. CASE opRow[o].status # "pending"
  BY <1>2, OthersKeepInv DEF ClosesRow, FoInv, FoTypeOK
<1> QED
  BY <1>1, <1>2

LEMMA FoInitInv == FoInit => FoInv
<1> SUFFICES ASSUME FoInit PROVE FoInv
  OBVIOUS
<1>1. FoTypeOK
  BY DEF FoInit, FoTypeOK, OperationRows
<1>2. ASSUME NEW o \in FileOps PROVE WorkIsAskedFor(o) /\ RowIsTrue(o)
  <2>1. Said(audits[o]) = {}
    BY DEF FoInit, Said
  <2> QED
    BY <2>1 DEF FoInit, WorkIsAskedFor, RowIsTrue
<1> QED
  BY <1>1, <1>2 DEF FoInv

LEMMA FoStepInv == FoInv /\ [FoNext]_foVars => FoInv'
<1> SUFFICES ASSUME FoInv, [FoNext]_foVars PROVE FoInv'
  OBVIOUS
<1>0. FoTypeOK /\ \A o \in FileOps : WorkIsAskedFor(o) /\ RowIsTrue(o)
  BY DEF FoInv
<1>1. ASSUME NEW o \in FileOps, AuthorizesFile(o) PROVE FoInv'
  <2>1. /\ browser[o] = "idle"
        /\ opRow' = Status(o, "pending")
        /\ browser' = [browser EXCEPT ![o] = "asking"]
        /\ UNCHANGED <<audits, daemonWork, message, noted>>
    BY <1>1 DEF AuthorizesFile
  <2>2. /\ opRow' \in [FileOps -> OperationRows]
        /\ opRow'[o].status = "pending"
        /\ \A p \in FileOps \ {o} : opRow'[p] = opRow[p]
    BY <1>0, <2>1, StatusIsSet
  <2>3. /\ browser' \in [FileOps -> {"idle", "asking", "granted", "sent", "left"}]
        /\ browser'[o] = "asking"
        /\ \A p \in FileOps \ {o} : browser'[p] = browser[p]
    BY <1>0, <2>1 DEF FoTypeOK
  <2>4. opRow[o].status = "none" /\ daemonWork[o] = "none"
    BY <1>0, <2>1 DEF WorkIsAskedFor
  <2>5. WorkIsAskedFor(o)'
    BY <1>0, <2>1, <2>3, <2>4 DEF WorkIsAskedFor
  <2>6. RowIsTrue(o)'
    BY <1>0, <2>1, <2>2, <2>4 DEF RowIsTrue, End
  <2> QED
    BY <1>0, <2>1, <2>2, <2>3, <2>5, <2>6, OneOperation DEF FoTypeOK
<1>2. ASSUME NEW o \in FileOps, IssuesTicket(o) PROVE FoInv'
  BY <1>0, <1>2, OthersKeepInv DEF IssuesTicket, FoTypeOK
<1>3. ASSUME NEW o \in FileOps, GivesGrant(o) PROVE FoInv'
  BY <1>0, <1>3, OthersKeepInv DEF GivesGrant, FoTypeOK
<1>4. ASSUME NEW o \in FileOps, RefusesGrant(o) PROVE FoInv'
  <2>1. /\ browser[o] = "asking"
        /\ \/ opRow' = opRow
           \/ opRow[o].status = "pending" /\ opRow' = Status(o, "failed")
        /\ WritesAudit(o, FALSE)
        /\ browser' = [browser EXCEPT ![o] = "left"]
        /\ UNCHANGED <<daemonWork, message, noted>>
    BY <1>4 DEF RefusesGrant
  <2>2. /\ audits' \in [FileOps -> Seq(BOOLEAN)]
        /\ Said(audits'[o]) \subseteq Said(audits[o]) \cup {FALSE}
        /\ \A p \in FileOps \ {o} : audits'[p] = audits[p]
    BY <1>0, <2>1, AuditIsWritten
  <2>3. /\ opRow' \in [FileOps -> OperationRows]
        /\ \A p \in FileOps \ {o} : opRow'[p] = opRow[p]
        /\ \/ opRow'[o].status = opRow[o].status
           \/ opRow[o].status = "pending" /\ opRow'[o].status = "failed"
    BY <1>0, <2>1, StatusIsSet DEF FoTypeOK
  <2>4. /\ browser' \in [FileOps -> {"idle", "asking", "granted", "sent", "left"}]
        /\ browser'[o] = "left"
        /\ \A p \in FileOps \ {o} : browser'[p] = browser[p]
    BY <1>0, <2>1 DEF FoTypeOK
  <2>5. daemonWork[o] = "none" /\ message[o] = "none" /\ opRow[o].status # "succeeded"
    BY <1>0, <2>1 DEF WorkIsAskedFor, RowIsTrue
  <2>6. WorkIsAskedFor(o)'
    BY <2>1, <2>4, <2>5 DEF WorkIsAskedFor
  <2>7. RowIsTrue(o)'
    <3>1. TRUE \notin Said(audits'[o])
      BY <1>0, <2>2, <2>5 DEF RowIsTrue
    <3>2. \A n \in noted' : n.op = o => opRow'[o].status = End(n.success)
      <4>1. opRow[o].status = "pending" => \A n \in noted : n.op # o
        BY <1>0 DEF RowIsTrue, End
      <4> QED
        BY <1>0, <2>1, <2>3, <4>1 DEF RowIsTrue
    <3> QED
      BY <2>3, <2>4, <2>5, <3>1, <3>2 DEF RowIsTrue
  <2> QED
    BY <1>0, <2>1, <2>2, <2>3, <2>4, <2>6, <2>7, OneOperation DEF FoTypeOK
<1>5. ASSUME NEW o \in FileOps, UsesGrant(o) PROVE FoInv'
  BY <1>0, <1>5, OthersKeepInv DEF UsesGrant, FoTypeOK
<1>6. ASSUME NEW o \in FileOps, WorkBegins(o) PROVE FoInv'
  <2>1. /\ browser[o] = "sent" /\ daemonWork[o] = "none"
        /\ daemonWork' = [daemonWork EXCEPT ![o] = "doing"]
        /\ UNCHANGED <<opRow, audits, browser, message, noted>>
    BY <1>6 DEF WorkBegins
  <2>2. /\ daemonWork' \in [FileOps -> {"none", "doing", "done", "failed"}]
        /\ \A p \in FileOps \ {o} : daemonWork'[p] = daemonWork[p]
    BY <1>0, <2>1 DEF FoTypeOK
  <2>3. message[o] = "none" /\ opRow[o].status # "succeeded"
    BY <1>0, <2>1 DEF WorkIsAskedFor, RowIsTrue
  <2>4. WorkIsAskedFor(o)' /\ RowIsTrue(o)'
    BY <1>0, <2>1, <2>3 DEF WorkIsAskedFor, RowIsTrue
  <2> QED
    BY <1>0, <2>1, <2>2, <2>4, OneOperation DEF FoTypeOK
<1>7. ASSUME NEW o \in FileOps, WorkEnds(o) PROVE FoInv'
  <2>1. PICK end \in {"done", "failed"} :
          /\ daemonWork' = [daemonWork EXCEPT ![o] = end]
          /\ message' = IF foLink THEN [message EXCEPT ![o] = end] ELSE message
    BY <1>7 DEF WorkEnds
  <2>2. daemonWork[o] = "doing" /\ UNCHANGED <<opRow, audits, browser, noted>>
    BY <1>7 DEF WorkEnds
  <2>3. /\ daemonWork' \in [FileOps -> {"none", "doing", "done", "failed"}]
        /\ daemonWork'[o] = end
        /\ \A p \in FileOps \ {o} : daemonWork'[p] = daemonWork[p]
    BY <1>0, <2>1 DEF FoTypeOK
  <2>4. /\ message' \in [FileOps -> {"none", "done", "failed"}]
        /\ message'[o] \in {end, message[o]}
        /\ \A p \in FileOps \ {o} : message'[p] = message[p]
    BY <1>0, <2>1 DEF FoTypeOK
  <2>5. browser[o] = "sent" /\ message[o] = "none" /\ opRow[o].status # "succeeded"
    BY <1>0, <2>2 DEF FoTypeOK, WorkIsAskedFor, RowIsTrue
  <2>6. WorkIsAskedFor(o)'
    BY <2>2, <2>3, <2>4, <2>5 DEF WorkIsAskedFor
  <2>7. RowIsTrue(o)'
    BY <1>0, <2>2, <2>5 DEF RowIsTrue
  <2> QED
    BY <1>0, <2>2, <2>3, <2>4, <2>6, <2>7, OneOperation DEF FoTypeOK
<1>8. ASSUME NEW o \in FileOps, HearsResult(o) PROVE FoInv'
  <2>1. message[o] = "done" => daemonWork[o] = "done"
    BY <1>0 DEF WorkIsAskedFor
  <2>2. /\ message' \in [FileOps -> {"none", "done", "failed"}]
        /\ \A p \in FileOps : message'[p] \in {"none", message[p]}
        /\ UNCHANGED <<audits, browser, daemonWork>>
    BY <1>0, <1>8 DEF HearsResult, FoTypeOK
  <2>3. CASE ClosesRow(o, message[o] = "done", "event")
    BY <2>1, <2>2, <2>3, ClosesRowInv
  <2>4. CASE UNCHANGED <<opRow, noted>>
    BY <1>0, <2>2, <2>4, OthersKeepInv DEF FoTypeOK
  <2> QED
    BY <1>8, <2>3, <2>4 DEF HearsResult
<1>9. ASSUME NEW o \in FileOps, GetsOverdue(o) PROVE FoInv'
  <2> DEFINE new == [opRow[o] EXCEPT !.overdue = TRUE]
  <2>1. opRow' = [opRow EXCEPT ![o] = new] /\ UNCHANGED <<audits, browser, daemonWork, message, noted>>
    BY <1>9 DEF GetsOverdue
  <2>2. new \in OperationRows /\ new.status = opRow[o].status
    BY <1>0 DEF OperationRows, FoTypeOK
  <2> HIDE DEF new
  <2>3. /\ opRow' \in [FileOps -> OperationRows]
        /\ opRow'[o].status = opRow[o].status
        /\ \A p \in FileOps \ {o} : opRow'[p] = opRow[p]
    BY <1>0, <2>1, <2>2 DEF FoTypeOK
  <2>4. WorkIsAskedFor(o)' /\ RowIsTrue(o)'
    BY <1>0, <2>1, <2>3 DEF WorkIsAskedFor, RowIsTrue
  <2> QED
    BY <1>0, <2>1, <2>3, <2>4, OneOperation DEF FoTypeOK
<1>10. ASSUME NEW o \in FileOps, ClosesOverdue(o) PROVE FoInv'
  BY <1>0, <1>10, ClosesRowInv DEF ClosesOverdue, FoTypeOK
<1>11. ASSUME NEW n \in noted, Audits(n) PROVE FoInv'
  <2> DEFINE o == n.op
  <2>1. /\ o \in FileOps /\ n.success \in BOOLEAN
        /\ WritesAudit(o, n.success)
        /\ noted' = noted \ {n}
        /\ UNCHANGED <<opRow, browser, daemonWork, message>>
    BY <1>0, <1>11 DEF Audits, FoTypeOK, Notes
  <2>2. /\ audits' \in [FileOps -> Seq(BOOLEAN)]
        /\ Said(audits'[o]) \subseteq Said(audits[o]) \cup {n.success}
        /\ \A p \in FileOps \ {o} : audits'[p] = audits[p]
    BY <1>0, <2>1, AuditIsWritten
  <2>3. opRow[o].status = End(n.success)
    BY <1>0, <2>1 DEF RowIsTrue
  <2>4. WorkIsAskedFor(o)'
    BY <1>0, <2>1 DEF WorkIsAskedFor
  <2>5. RowIsTrue(o)'
    BY <1>0, <2>1, <2>2, <2>3 DEF RowIsTrue, End
  <2> HIDE DEF o
  <2> QED
    BY <1>0, <2>1, <2>2, <2>4, <2>5, OneOperation DEF FoTypeOK
<1>12. CASE LinkReturns
  BY <1>0, <1>12, OthersKeepInv DEF LinkReturns, FoTypeOK
<1>13. CASE JobFails
  BY <1>0, <1>13, OthersKeepInv DEF JobFails, FoTypeOK
<1>14. CASE EventLinkBreaks
  BY <1>0, <1>14, OthersKeepInv DEF EventLinkBreaks, FoTypeOK
<1>15. CASE PanelIsBack
  BY <1>0, <1>15, OthersKeepInv DEF PanelIsBack, FoTypeOK
<1>16. CASE FoDaemonRestarts
  <2>1. /\ daemonWork' = [o \in FileOps |-> IF daemonWork[o] = "doing" THEN "failed" ELSE daemonWork[o]]
        /\ message' = [o \in FileOps |-> "none"]
        /\ UNCHANGED <<opRow, audits, browser, noted>>
    BY <1>16 DEF FoDaemonRestarts
  <2>2. FoTypeOK'
    BY <1>0, <2>1 DEF FoTypeOK
  <2>3. ASSUME NEW o \in FileOps PROVE WorkIsAskedFor(o)' /\ RowIsTrue(o)'
    BY <1>0, <2>1 DEF WorkIsAskedFor, RowIsTrue
  <2> QED
    BY <2>2, <2>3 DEF FoInv
<1>17. CASE UNCHANGED foVars
  BY <1>0, <1>17, OthersKeepInv DEF foVars, FoTypeOK
<1> QED
  BY <1>1, <1>2, <1>3, <1>4, <1>5, <1>6, <1>7, <1>8, <1>9, <1>10, <1>11, <1>12, <1>13, <1>14,
     <1>15, <1>16, <1>17 DEF FoNext, FoStep

-----------------------------------------------------------------------------
(* The audit log never contradicts itself and praises only what the daemon    *)
(* did (CompleteFileOperation, ExpireFileOperations, handleFileAuthorize).    *)
THEOREM FoAuditIsTrue == FoSpec => []AuditIsTrue
<1>1. FoInv => AuditIsTrue
  <2> SUFFICES ASSUME FoInv, NEW o \in FileOps
               PROVE  /\ Said(audits[o]) # BOOLEAN
                      /\ TRUE \in Said(audits[o]) => daemonWork[o] = "done"
    BY DEF AuditIsTrue
  <2>1. TRUE \in Said(audits[o]) => /\ daemonWork[o] = "done"
                                    /\ browser[o] = "sent"
                                    /\ opRow[o].status = "succeeded"
    BY DEF FoInv, RowIsTrue, WorkIsAskedFor
  <2>2. FALSE \in Said(audits[o]) => TRUE \notin Said(audits[o])
    BY <2>1 DEF FoInv, RowIsTrue
  <2> QED
    BY <2>1, <2>2
<1> QED
  BY <1>1, FoInitInv, FoStepInv, PTL DEF FoSpec

-----------------------------------------------------------------------------
(***************************************************************************)
(* FileSync: what a job reports as copied has arrived, for any trees, targets*)
(* and stops of the panel.                                                 *)
(***************************************************************************)

WalkType ==
    [at : {"begin", "list", "next", "download", "upload", "uploaded", "end"},
     n : Nat, only : SUBSET AllItems, cancelled : BOOLEAN]

\* A walk that has an item in its hands works on an item of its own, and that item's target
\* has the file once it was uploaded.
WalkOK(w, there) ==
    /\ w.at \in {"download", "upload", "uploaded"} => w.n \in w.only
    /\ w.at = "uploaded" => w.n \in there

SyncInv ==
    /\ item \in [AllItems -> {"queued", "running", "completed", "failed"}]
    /\ walks \in Seq(WalkType)
    /\ arrived \subseteq AllItems
    /\ \A w \in DOMAIN walks : WalkOK(walks[w], arrived)
    /\ \A i \in AllItems : item[i] = "completed" => i \in arrived

LEMMA SyncInit == FsyInit => SyncInv
<1> SUFFICES ASSUME FsyInit PROVE SyncInv
  OBVIOUS
<1>1. walks = <<>> /\ <<>> \in Seq(WalkType) /\ DOMAIN walks = {}
  BY DEF FsyInit
<1> QED
  BY <1>1 DEF FsyInit, SyncInv

\* A walk moves, and nobody takes a file away.
LEMMA WalkMoves ==
    ASSUME SyncInv, NEW w \in DOMAIN walks, NEW v \in WalkType, walks' = [walks EXCEPT ![w] = v],
           arrived \subseteq arrived', arrived' \subseteq AllItems, WalkOK(v, arrived')
    PROVE  walks' \in Seq(WalkType) /\ \A x \in DOMAIN walks' : WalkOK(walks'[x], arrived')
<1>1. walks' \in Seq(WalkType)
  BY DEF SyncInv
<1>2. ASSUME NEW x \in DOMAIN walks' PROVE WalkOK(walks'[x], arrived')
  <2>1. x \in DOMAIN walks /\ walks'[x] = IF x = w THEN v ELSE walks[x]
    BY DEF SyncInv
  <2>2. WalkOK(walks[x], arrived)
    BY <2>1 DEF SyncInv
  <2> QED
    BY <2>1, <2>2 DEF WalkOK
<1> QED
  BY <1>1, <1>2

LEMMA WalkStep ==
    ASSUME SyncInv, NEW w \in DOMAIN walks,
           \/ WalkBegins(w) \/ ListsSource(w) \/ ListingFails(w) \/ Skips(w) \/ ItemBegins(w)
           \/ Downloads(w) \/ UploadsItem(w) \/ ItemEnds(w) \/ ItemFails(w)
           \/ FinishCancelled(w) \/ WalkEnds(w)
    PROVE  SyncInv'
<1> DEFINE old == walks[w]
<1>0. old \in WalkType /\ WalkOK(old, arrived) /\ SyncInv
  BY DEF SyncInv
<1>1. ASSUME NEW v \in WalkType, walks' = [walks EXCEPT ![w] = v], WalkOK(v, arrived'),
             UNCHANGED <<item, arrived>>
      PROVE  SyncInv'
  <2>1. walks' \in Seq(WalkType) /\ \A x \in DOMAIN walks' : WalkOK(walks'[x], arrived')
    BY <1>0, <1>1, WalkMoves DEF SyncInv
  <2> QED
    BY <1>0, <1>1, <2>1 DEF SyncInv
<1>2. CASE WalkBegins(w) \/ ListsSource(w) \/ ListingFails(w) \/ FinishCancelled(w) \/ WalkEnds(w)
  <2>1. PICK at \in {"list", "next", "end"} : walks' = [walks EXCEPT ![w].at = at]
    BY <1>2 DEF WalkBegins, ListsSource, ListingFails, FinishCancelled, WalkEnds, WalkGoes
  <2> DEFINE v == [old EXCEPT !.at = at]
  <2>2. v \in WalkType /\ walks' = [walks EXCEPT ![w] = v] /\ WalkOK(v, arrived')
    BY <1>0, <2>1 DEF WalkType, WalkOK, SyncInv
  <2>3. UNCHANGED <<item, arrived>>
    BY <1>0, <1>2 DEF SyncInv, WalkBegins, ListsSource, ListingFails, FinishCancelled, WalkEnds
  <2> QED
    BY <1>1, <2>2, <2>3
<1>3. CASE Skips(w)
  <2> DEFINE v == [old EXCEPT !.n = @ + 1]
  <2>1. old.at = "next" /\ walks' = [walks EXCEPT ![w].n = @ + 1] /\ UNCHANGED <<item, arrived>>
    BY <1>3 DEF Skips
  <2>2. v \in WalkType /\ v.at = "next"
    BY <1>0, <2>1 DEF WalkType
  <2>3. walks' = [walks EXCEPT ![w] = v]
    BY <1>0, <2>1 DEF SyncInv
  <2>4. WalkOK(v, arrived')
    BY <2>2 DEF WalkOK
  <2> QED
    BY <1>1, <2>1, <2>2, <2>3, <2>4
<1>4. CASE Downloads(w)
  <2> DEFINE v == [old EXCEPT !.at = "upload"]
  <2>1. v \in WalkType /\ walks' = [walks EXCEPT ![w] = v] /\ WalkOK(v, arrived')
    BY <1>0, <1>4 DEF WalkType, WalkOK, SyncInv, Downloads, WalkGoes
  <2> QED
    BY <1>0, <1>1, <1>4, <2>1 DEF Downloads, SyncInv
<1>5. CASE ItemBegins(w)
  <2> DEFINE v == [old EXCEPT !.at = "download"]
  <2>1. v \in WalkType /\ walks' = [walks EXCEPT ![w] = v] /\ WalkOK(v, arrived')
        /\ UNCHANGED <<syncTask, arrived>> /\ item' = [item EXCEPT ![old.n] = "running"]
    BY <1>0, <1>5 DEF WalkType, WalkOK, SyncInv, ItemBegins, WalkGoes, Cur
  <2>2. walks' \in Seq(WalkType) /\ \A x \in DOMAIN walks' : WalkOK(walks'[x], arrived')
    BY <1>0, <2>1, WalkMoves DEF SyncInv
  <2> QED
    BY <1>0, <2>1, <2>2 DEF SyncInv
<1>6. CASE UploadsItem(w)
  <2> DEFINE v == [old EXCEPT !.at = "uploaded"]
  <2>1. v \in WalkType /\ walks' = [walks EXCEPT ![w] = v] /\ UNCHANGED <<syncTask, item>>
        /\ arrived' = arrived \cup {old.n} /\ old.n \in AllItems
    BY <1>0, <1>6 DEF WalkType, WalkOK, SyncInv, UploadsItem, WalkGoes, Cur
  <2>2. WalkOK(v, arrived')
    BY <1>0, <1>6, <2>1 DEF WalkType, WalkOK, UploadsItem
  <2>3. walks' \in Seq(WalkType) /\ \A x \in DOMAIN walks' : WalkOK(walks'[x], arrived')
    BY <1>0, <2>1, <2>2, WalkMoves DEF SyncInv
  <2> QED
    BY <1>0, <2>1, <2>3 DEF SyncInv
<1>7. CASE ItemEnds(w) \/ ItemFails(w)
  <2> DEFINE v == [old EXCEPT !.at = "next", !.n = @ + 1]
  <2>a. walks' = [walks EXCEPT ![w].at = "next", ![w].n = @ + 1] /\ UNCHANGED <<syncTask, arrived>>
    BY <1>7 DEF ItemEnds, ItemFails
  <2>d. old.n \in Nat /\ old.n + 1 \in Nat /\ [old EXCEPT !.at = "next"] \in WalkType
    BY <1>0 DEF WalkType
  <2>b. v \in WalkType /\ v.at = "next"
    BY <1>0, <2>d DEF WalkType
  <2>c. walks' = [walks EXCEPT ![w] = v]
    BY <1>0, <2>a DEF SyncInv
  <2>1. v \in WalkType /\ walks' = [walks EXCEPT ![w] = v] /\ WalkOK(v, arrived')
        /\ UNCHANGED <<syncTask, arrived>>
    BY <2>a, <2>b, <2>c DEF WalkOK
  <2>2. PICK how \in {"completed", "failed"} : /\ item' = [item EXCEPT ![old.n] = how]
                                               /\ how = "completed" => old.n \in arrived
    BY <1>0, <1>7 DEF ItemEnds, ItemFails, Cur, WalkOK
  <2>3. walks' \in Seq(WalkType) /\ \A x \in DOMAIN walks' : WalkOK(walks'[x], arrived')
    BY <1>0, <2>1, WalkMoves DEF SyncInv
  <2> QED
    BY <1>0, <2>1, <2>2, <2>3 DEF SyncInv
<1> QED
  BY <1>2, <1>3, <1>4, <1>5, <1>6, <1>7

LEMMA SyncStep == SyncInv /\ [FsyNext]_fsyVars => SyncInv'
<1> SUFFICES ASSUME SyncInv, [FsyNext]_fsyVars PROVE SyncInv'
  OBVIOUS
<1>0. walks \in Seq(WalkType) /\ SyncInv
  BY DEF SyncInv
<1>1. CASE UNCHANGED fsyVars
  BY <1>1 DEF fsyVars, SyncInv, WalkOK
<1>2. CASE FsyStep
  BY <1>2, WalkStep DEF FsyStep
<1>3. CASE CreatesTask
  <2>1. Walk(AllItems) \in WalkType /\ WalkOK(Walk(AllItems), arrived')
    BY DEF Walk, WalkType, WalkOK
  <2>2. walks' \in Seq(WalkType) /\ \A x \in DOMAIN walks' : WalkOK(walks'[x], arrived')
    BY <1>3, <2>1 DEF CreatesTask
  <2> QED
    BY <1>0, <1>3, <2>2 DEF CreatesTask, SyncInv
<1>4. CASE CancelsTask
  <2>1. /\ walks' = [walks EXCEPT ![NewestWalk].cancelled = TRUE] /\ UNCHANGED <<item, arrived>>
    BY <1>0, <1>4 DEF CancelsTask
  <2>2. \A x \in DOMAIN walks : walks[x] \in WalkType
    BY <1>0
  <2>5. \A x \in DOMAIN walks : [walks[x] EXCEPT !.cancelled = TRUE] \in WalkType
    BY <2>2 DEF WalkType
  <2>3. walks' \in Seq(WalkType) /\ DOMAIN walks' = DOMAIN walks
    <3>1. CASE NewestWalk \in DOMAIN walks
      BY <1>0, <2>1, <2>5, <3>1
    <3>2. CASE NewestWalk \notin DOMAIN walks
      <4>1. walks' = walks
        BY <1>0, <2>1, <3>2
      <4> QED
        BY <1>0, <4>1
    <3> QED
      BY <3>1, <3>2
  <2>4. ASSUME NEW x \in DOMAIN walks' PROVE WalkOK(walks'[x], arrived')
    <3>1. WalkOK(walks[x], arrived) /\ walks[x] \in WalkType
      BY <2>2, <2>3, <2>4 DEF SyncInv
    <3>2. walks'[x].at = walks[x].at /\ walks'[x].n = walks[x].n /\ walks'[x].only = walks[x].only
      BY <2>1, <2>3, <3>1 DEF WalkType
    <3> QED
      BY <2>1, <3>1, <3>2 DEF WalkOK
  <2> QED
    BY <1>0, <2>1, <2>3, <2>4 DEF SyncInv
<1>5. CASE Retries
  <2>1. /\ walks' = Append(walks, Walk(FailedItems)) /\ UNCHANGED arrived
        /\ item' = [i \in AllItems |-> IF i \in FailedItems THEN "queued" ELSE item[i]]
    BY <1>0, <1>5 DEF Retries
  <2>2. Walk(FailedItems) \in WalkType /\ WalkOK(Walk(FailedItems), arrived')
    BY DEF Walk, WalkType, WalkOK, FailedItems
  <2>3. walks' \in Seq(WalkType) /\ \A x \in DOMAIN walks' : walks'[x] = Walk(FailedItems) \/ (x \in DOMAIN walks /\ walks'[x] = walks[x])
    BY <1>0, <2>1, <2>2
  <2>4. ASSUME NEW x \in DOMAIN walks' PROVE WalkOK(walks'[x], arrived')
    BY <2>1, <2>2, <2>3 DEF WalkOK, SyncInv
  <2> QED
    BY <1>0, <2>1, <2>3, <2>4 DEF SyncInv
<1> QED
  BY <1>1, <1>2, <1>3, <1>4, <1>5 DEF FsyNext

\* However the walk of a cancelled transfer and the one of its retry mix, an item that is
\* shown as completed has reached its target (runFileSync, transferSyncEntry).
THEOREM FileSyncArrived == FsySpec => []CompletedItemsArrived
<1>1. SyncInv => CompletedItemsArrived
  BY DEF SyncInv, CompletedItemsArrived
<1> QED
  BY SyncInit, SyncStep, <1>1, PTL DEF FsySpec

-----------------------------------------------------------------------------
(***************************************************************************)
(* PluginRepository: for any JARs, configs, requests and releases, and any *)
(* number of failed writes, stops and changes by hand.                     *)
(***************************************************************************)

Manifests   == [jar : Jars \cup {NoJarFile}, zip : Zips \cup {NoZip}]
ReleaseRows == [jar : Jars \cup {NoJarFile}, zip : Zips \cup {NoZip}, man : Manifests,
                there : BOOLEAN]
Indexes     == [current : Nat, next : Nat, auto : BOOLEAN, there : BOOLEAN]
Repos       == [dirs : [ReleaseIds -> ReleaseRows], index : Indexes]
Imported    == [jar : Jars, zip : Zips \cup {NoZip}]
ListRows    == [id : ReleaseIds, jar : Jars \cup {NoJarFile}, current : BOOLEAN]
RepoTasks   == [step : {"idle", "scan", "import", "list", "sync"}, files : SUBSET Imported,
                list : SUBSET ListRows]

RepTypeOK ==
    /\ repo \in Repos
    /\ imports \subseteq Imported
    /\ repoTask \in [PanelRequests \cup {FirstScan} -> RepoTasks]

Matches(r, i) == r.dirs[i].man = [jar |-> r.dirs[i].jar, zip |-> r.dirs[i].zip]

\* The releases of r are what their manifests say, and its index is of them.
IsSound(r) ==
    ReleaseDirs(r) # {} =>
        /\ \A i \in ReleaseDirs(r) : Matches(r, i) /\ i < r.index.next
        /\ r.index.there
        /\ r.index.current \in ReleaseDirs(r)

RepInv == RepTypeOK /\ (sound => IsSound(repo))

LEMMA LeastBy ==
    ASSUME NEW R, IsWellFoundedOn(R, Nat), \A x, y \in Nat : y < x => <<y, x>> \in R,
           NEW T \in SUBSET Nat, T # {}
    PROVE \E n \in T : \A m \in T : n <= m
<1>2. \E x \in T : \A y \in T : ~ (<<y, x>> \in R)
  BY WFMin
<1>3. PICK x \in T : \A y \in T : ~ (<<y, x>> \in R)
  BY <1>2
<1>4. ASSUME NEW y \in T PROVE x <= y
  <2>1. ~ (y < x)
    BY <1>3, Zenon
  <2> QED
    BY <2>1
<1> QED
  BY <1>4

LEMMA LeastNatural ==
    ASSUME NEW T \in SUBSET Nat, T # {} PROVE \E n \in T : \A m \in T : n <= m
<1> DEFINE R == OpToRel(<, Nat)
<1>1. IsWellFoundedOn(R, Nat)
  BY NatLessThanWellFounded
<1>3. \A x, y \in Nat : y < x => <<y, x>> \in R
  BY DEF R, OpToRel
<1> HIDE DEF R
<1> QED
  BY <1>1, <1>3, LeastBy, Zenon

LEMMA MaxOfBounded ==
    ASSUME NEW S \in SUBSET Nat, S # {}, NEW b \in Nat, \A y \in S : y <= b
    PROVE  Max(S) \in S /\ \A y \in S : Max(S) >= y
<1> DEFINE Above == {n \in Nat : \A y \in S : y <= n}
<1>1. PICK m \in Above : \A n \in Above : m <= n
  <2>1. b \in Above
    OBVIOUS
  <2>2. Above \in SUBSET Nat /\ Above # {}
    BY <2>1
  <2> HIDE DEF Above
  <2> QED
    BY <2>2, LeastNatural, Zenon
<1>2. m \in Nat /\ \A y \in S : y \in Nat /\ m >= y
  BY <1>1
<1>3. m \in S
  <2> SUFFICES ASSUME m \notin S PROVE FALSE
    OBVIOUS
  <2>1. PICK z \in S : TRUE
    OBVIOUS
  <2>2. \A y \in S : y < m
    BY <1>2
  <2>3. m - 1 \in Nat /\ \A y \in S : y <= m - 1
    BY <1>2, <2>1, <2>2
  <2>4. m - 1 \in Above
    BY <2>3
  <2>5. m <= m - 1
    BY <1>1, <2>4
  <2> QED
    BY <1>2, <2>5
<1> QED
  BY <1>2, <1>3 DEF Max

LEMMA MinOfNaturals ==
    ASSUME NEW S \in SUBSET Nat, S # {} PROVE Min(S) \in S
<1>1. PICK n \in S : \A m \in S : n <= m
  BY LeastNatural, Zenon
<1> QED
  BY <1>1 DEF Min

LEMMA HighestIsNatural ==
    ASSUME NEW S \in SUBSET ReleaseIds
    PROVE  HighestOf(S) \in Nat /\ \A i \in S : i <= HighestOf(S)
<1>1. S \in SUBSET Nat /\ MaxReleases \in Nat /\ \A i \in S : i <= MaxReleases
  BY RepositoryConstants DEF ReleaseIds
<1>2. CASE S = {}
  BY <1>2 DEF HighestOf
<1>3. CASE S # {}
  <2>1. Max(S) \in S /\ \A i \in S : Max(S) >= i
    BY <1>1, <1>3, MaxOfBounded
  <2>2. HighestOf(S) = Max(S)
    BY <1>3 DEF HighestOf
  <2> QED
    BY <1>1, <2>1, <2>2
<1> QED
  BY <1>2, <1>3

LEMMA SomeReleases ==
    ASSUME NEW r PROVE ReleaseDirs(r) \in SUBSET ReleaseIds /\ Artifacts(r) \in SUBSET ReleaseIds
BY DEF ReleaseDirs, Artifacts

LEMMA ReleaseIsRow ==
    ASSUME NEW jar \in Jars \cup {NoJarFile}, NEW zip \in Zips \cup {NoZip}
    PROVE  /\ Release(jar, zip) \in ReleaseRows
           /\ Release(jar, zip).there
           /\ Release(jar, zip).man = [jar |-> Release(jar, zip).jar, zip |-> Release(jar, zip).zip]
BY DEF Release, ReleaseRows, Manifests

LEMMA NoReleaseIsRow == NoRelease \in ReleaseRows /\ ~NoRelease.there
BY DEF NoRelease, ReleaseRows, Manifests, NoManifest

\* What a directory more or less makes of the repository.
Put(r, i, d) == [r EXCEPT !.dirs[i] = d]

LEMMA SetsRelease ==
    ASSUME NEW r \in Repos, NEW i \in ReleaseIds, NEW d \in ReleaseRows
    PROVE  /\ Put(r, i, d) \in Repos
           /\ Put(r, i, d).index = r.index
           /\ ReleaseDirs(Put(r, i, d)) = IF d.there THEN ReleaseDirs(r) \cup {i} ELSE ReleaseDirs(r) \ {i}
           /\ \A j \in ReleaseIds \ {i} : Matches(r, j) => Matches(Put(r, i, d), j)
           /\ d.man = [jar |-> d.jar, zip |-> d.zip] => Matches(Put(r, i, d), i)
<1>0. PICK s : s = Put(r, i, d)
  OBVIOUS
<1>1. s.index = r.index /\ s.dirs = [r.dirs EXCEPT ![i] = d]
  BY <1>0 DEF Repos, Put
<1>2. s \in Repos
  BY <1>0, <1>1 DEF Repos, Put
<1>3. \A j \in ReleaseIds : s.dirs[j] = IF j = i THEN d ELSE r.dirs[j]
  BY <1>1 DEF Repos
<1>4. ReleaseDirs(s) = IF d.there THEN ReleaseDirs(r) \cup {i} ELSE ReleaseDirs(r) \ {i}
  BY <1>3 DEF ReleaseDirs
<1>5. \A j \in ReleaseIds \ {i} : Matches(r, j) => Matches(s, j)
  BY <1>3 DEF Matches
<1>6. d.man = [jar |-> d.jar, zip |-> d.zip] => Matches(s, i)
  BY <1>3 DEF Matches
<1> QED
  BY <1>0, <1>1, <1>2, <1>4, <1>5, <1>6

-----------------------------------------------------------------------------
(* repairPluginLocked.                                                     *)

Works == [repo : Repos, next : Nat, kept : SUBSET ReleaseIds, warned : BOOLEAN]
Ways  == {"no", "before", "after"}

\* What holds of the repair of r once it has looked at the ids up to i: the next id is above
\* all others, and without a warning what is there is what was kept, with manifests that
\* match, and what it has not looked at.
RunOK(w, r, i) ==
    /\ w \in Works
    /\ w.repo.index = r.index
    /\ \A j \in ReleaseDirs(r) : j < w.next
    /\ \A j \in w.kept : j < w.next /\ (j \in ReleaseDirs(r) => j <= i)
    /\ ~w.warned => /\ ReleaseDirs(w.repo) = w.kept \cup {j \in ReleaseDirs(r) : j > i}
                    /\ \A j \in w.kept : Matches(w.repo, j)

\* The id a changed release is published under again.
FreshId(w) ==
    Min({n \in ReleaseIds : n >= w.next /\ n \notin ReleaseDirs(w.repo)} \cup {MaxReleases + 1})

LEMMA FreshIsFree ==
    ASSUME NEW w \in Works, FreshId(w) \in ReleaseIds
    PROVE  FreshId(w) >= w.next /\ FreshId(w) \notin ReleaseDirs(w.repo)
<1> DEFINE S == {n \in ReleaseIds : n >= w.next /\ n \notin ReleaseDirs(w.repo)} \cup {MaxReleases + 1}
<1>1. MaxReleases \in Nat
  BY RepositoryConstants
<1>2. S \in SUBSET Nat /\ S # {}
  BY <1>1 DEF ReleaseIds
<1>3. Min(S) \in S
  <2> HIDE DEF S
  <2> QED
    BY <1>2, MinOfNaturals
<1>4. FreshId(w) = Min(S)
  BY DEF FreshId
<1>5. FreshId(w) # MaxReleases + 1
  BY <1>1 DEF ReleaseIds
<1> QED
  BY <1>3, <1>4, <1>5

LEMMA RepairsReleaseCases ==
    ASSUME NEW w \in Works, NEW i \in ReleaseIds, NEW fails \in Ways, NEW v,
           v = RepairsRelease(w, i, fails)
    PROVE  LET d    == w.repo.dirs[i]
               copy == Put(w.repo, FreshId(w), Release(d.jar, d.zip))
           IN  \/ v = [w EXCEPT !.warned = TRUE]
               \/ v = [w EXCEPT !.repo.dirs[i] = Release(d.jar, d.zip), !.kept = @ \cup {i}]
               \/ d.man = [jar |-> d.jar, zip |-> d.zip] /\ v = [w EXCEPT !.kept = @ \cup {i}]
               \/ FreshId(w) \in ReleaseIds /\ v = [w EXCEPT !.repo = copy, !.warned = TRUE]
               \/ /\ FreshId(w) \in ReleaseIds
                  /\ v = [w EXCEPT !.repo = Put(copy, i, NoRelease),
                                   !.kept = @ \cup {FreshId(w)}, !.next = FreshId(w) + 1]
BY Zenon DEF RepairsRelease, FreshId, Put

LEMMA RepairsReleaseOK ==
    ASSUME NEW r \in Repos, NEW w, NEW i \in ReleaseDirs(r), RunOK(w, r, i - 1), NEW fails \in Ways
    PROVE  RunOK(RepairsRelease(w, i, fails), r, i)
<1> DEFINE d == w.repo.dirs[i]
           copy == Put(w.repo, FreshId(w), Release(d.jar, d.zip))
<1>1. i \in ReleaseIds /\ i \in Nat /\ ReleaseIds \subseteq Nat
  BY DEF ReleaseDirs, ReleaseIds
<1>2. w \in Works /\ w.repo \in Repos /\ w.next \in Nat /\ w.kept \in SUBSET ReleaseIds /\ w.warned \in BOOLEAN
  BY DEF RunOK, Works
<1>3. d \in ReleaseRows /\ d.jar \in Jars \cup {NoJarFile} /\ d.zip \in Zips \cup {NoZip}
  BY <1>1, <1>2 DEF Repos, ReleaseRows
<1>4. PICK v : v = RepairsRelease(w, i, fails)
  OBVIOUS
<1>5. PICK new : new = Release(d.jar, d.zip)
  OBVIOUS
<1>6. new \in ReleaseRows /\ new.there /\ new.man = [jar |-> new.jar, zip |-> new.zip]
  BY <1>3, <1>5, ReleaseIsRow
<1>7. w.next > i /\ i \notin w.kept
  BY <1>1, <1>2 DEF RunOK
<1>8. ReleaseDirs(r) \in SUBSET Nat
  BY <1>1, SomeReleases
<1>9. {j \in ReleaseDirs(r) : j > i - 1} = {j \in ReleaseDirs(r) : j > i} \cup {i}
  BY <1>1, <1>8
<1>q. \A j \in w.kept : j \in Nat /\ j < w.next /\ (j \in ReleaseDirs(r) => j <= i)
  <2> TAKE j \in w.kept
  <2>1. j \in Nat
    BY <1>1, <1>2
  <2>2. j < w.next /\ (j \in ReleaseDirs(r) => j <= i - 1)
    BY DEF RunOK
  <2> QED
    BY <1>1, <2>1, <2>2
<1>p. PICK more : more = {j \in ReleaseDirs(r) : j > i}
  OBVIOUS
<1>10. CASE v = [w EXCEPT !.warned = TRUE]
  <2>1. v \in Works /\ v.repo = w.repo /\ v.next = w.next /\ v.kept = w.kept /\ v.warned
    BY <1>2, <1>10 DEF Works
  <2> QED
    BY <1>4, <1>q, <2>1 DEF RunOK
<1>11. CASE v = [w EXCEPT !.repo.dirs[i] = new, !.kept = @ \cup {i}]
  <2>1. PICK s : s = Put(w.repo, i, new)
    OBVIOUS
  <2>2. v.repo = s /\ v.next = w.next /\ v.kept = w.kept \cup {i} /\ v.warned = w.warned
    BY <1>2, <1>11, <2>1 DEF Works, Put
  <2>3. /\ s \in Repos /\ s.index = w.repo.index
        /\ ReleaseDirs(s) = ReleaseDirs(w.repo) \cup {i}
        /\ \A j \in ReleaseIds \ {i} : Matches(w.repo, j) => Matches(s, j)
        /\ Matches(s, i)
    BY <1>1, <1>2, <1>6, <2>1, SetsRelease
  <2>4. v \in Works
    BY <1>1, <1>2, <1>11, <2>2, <2>3 DEF Works
  <2>5. \A j \in v.kept : j < w.next /\ (j \in ReleaseDirs(r) => j <= i)
    BY <1>1, <1>7, <1>q, <2>2
  <2>6. ASSUME ~v.warned
        PROVE  ReleaseDirs(s) = v.kept \cup more /\ \A j \in v.kept : Matches(s, j)
    <3>1. ReleaseDirs(w.repo) = w.kept \cup more \cup {i} /\ \A j \in w.kept : Matches(w.repo, j)
      BY <1>9, <1>p, <2>2, <2>6 DEF RunOK
    <3> QED
      BY <1>2, <1>7, <2>2, <2>3, <3>1
  <2> QED
    BY <1>4, <1>p, <2>2, <2>3, <2>4, <2>5, <2>6 DEF RunOK
<1>12. CASE d.man = [jar |-> d.jar, zip |-> d.zip] /\ v = [w EXCEPT !.kept = @ \cup {i}]
  <2>2. v \in Works /\ v.repo = w.repo /\ v.next = w.next /\ v.kept = w.kept \cup {i} /\ v.warned = w.warned
    BY <1>1, <1>2, <1>12 DEF Works
  <2>3. Matches(w.repo, i)
    BY <1>12 DEF Matches
  <2>5. \A j \in v.kept : j < w.next /\ (j \in ReleaseDirs(r) => j <= i)
    BY <1>1, <1>7, <1>q, <2>2
  <2>6. ASSUME ~v.warned
        PROVE  ReleaseDirs(v.repo) = v.kept \cup more /\ \A j \in v.kept : Matches(v.repo, j)
    <3>1. ReleaseDirs(w.repo) = w.kept \cup more \cup {i} /\ \A j \in w.kept : Matches(w.repo, j)
      BY <1>9, <1>p, <2>2, <2>6 DEF RunOK
    <3> QED
      BY <2>2, <2>3, <3>1
  <2> QED
    BY <1>4, <1>p, <2>2, <2>5, <2>6 DEF RunOK
<1>13. CASE FreshId(w) \in ReleaseIds /\ v = [w EXCEPT !.repo = copy, !.warned = TRUE]
  <2>3. copy \in Repos /\ copy.index = w.repo.index
    BY <1>2, <1>5, <1>6, <1>13, SetsRelease
  <2> HIDE DEF copy
  <2>2. v \in Works /\ v.repo = copy /\ v.next = w.next /\ v.kept = w.kept /\ v.warned
    BY <1>2, <1>13, <2>3 DEF Works
  <2> QED
    BY <1>4, <1>q, <2>2, <2>3 DEF RunOK
<1>14. CASE /\ FreshId(w) \in ReleaseIds
            /\ v = [w EXCEPT !.repo = Put(copy, i, NoRelease),
                             !.kept = @ \cup {FreshId(w)}, !.next = FreshId(w) + 1]
  <2>0. PICK f : f = FreshId(w)
    OBVIOUS
  <2>1. f \in ReleaseIds /\ f \in Nat /\ f >= w.next /\ f \notin ReleaseDirs(w.repo)
    BY <1>1, <1>2, <1>14, <2>0, FreshIsFree
  <2>2. PICK c : c = copy
    OBVIOUS
  <2>3. /\ c \in Repos /\ c.index = w.repo.index
        /\ ReleaseDirs(c) = ReleaseDirs(w.repo) \cup {f}
        /\ \A j \in ReleaseIds \ {f} : Matches(w.repo, j) => Matches(c, j)
        /\ Matches(c, f)
    BY <1>2, <1>5, <1>6, <2>0, <2>1, <2>2, SetsRelease
  <2>n. PICK none \in ReleaseRows : none = NoRelease /\ ~none.there
    BY NoReleaseIsRow
  <2>4. PICK s : s = Put(c, i, none)
    OBVIOUS
  <2>5. /\ s \in Repos /\ s.index = c.index
        /\ ReleaseDirs(s) = ReleaseDirs(c) \ {i}
        /\ \A j \in ReleaseIds \ {i} : Matches(c, j) => Matches(s, j)
    <3>1. c \in Repos /\ none \in ReleaseRows /\ ~none.there /\ i \in ReleaseIds
      BY <1>1, <2>3, <2>n
    <3>2. /\ Put(c, i, none) \in Repos
          /\ Put(c, i, none).index = c.index
          /\ ReleaseDirs(Put(c, i, none)) =
               IF none.there THEN ReleaseDirs(c) \cup {i} ELSE ReleaseDirs(c) \ {i}
          /\ \A j \in ReleaseIds \ {i} : Matches(c, j) => Matches(Put(c, i, none), j)
      BY <3>1, SetsRelease, Zenon
    <3> QED
      BY <2>4, <3>1, <3>2
  <2>6. v = [w EXCEPT !.repo = s, !.kept = @ \cup {f}, !.next = f + 1]
    BY <1>14, <2>0, <2>2, <2>4, <2>n, Zenon
  <2>7. v \in Works /\ v.repo = s /\ v.next = f + 1 /\ v.kept = w.kept \cup {f} /\ v.warned = w.warned
    <3>1. PICK m \in Nat : m = f + 1
      BY <2>1
    <3>3. PICK o \in SUBSET ReleaseIds : o = w.kept \cup {f}
      BY <1>2, <2>1
    <3>2. v = [w EXCEPT !.repo = s, !.kept = o, !.next = m]
      BY <2>6, <3>1, <3>3
    <3> QED
      BY <1>2, <2>5, <3>1, <3>2, <3>3 DEF Works
  <2>8. f # i /\ f \notin ReleaseDirs(r)
    BY <1>1, <1>2, <1>7, <1>8, <2>1 DEF RunOK
  <2>9. \A j \in ReleaseDirs(r) : j < f + 1
    BY <1>2, <1>8, <2>1 DEF RunOK
  <2>10. \A j \in v.kept : j < f + 1 /\ (j \in ReleaseDirs(r) => j <= i)
    <3> TAKE j \in v.kept
    <3>1. CASE j = f
      BY <2>1, <2>8, <3>1
    <3>2. CASE j # f
      <4>1. j \in w.kept
        BY <2>7, <3>2
      <4> QED
        BY <1>2, <1>q, <2>1, <4>1
    <3> QED
      BY <3>1, <3>2
  <2>11. ASSUME ~v.warned
         PROVE  ReleaseDirs(s) = v.kept \cup more /\ \A j \in v.kept : Matches(s, j)
    <3>1. ReleaseDirs(w.repo) = w.kept \cup more \cup {i} /\ \A j \in w.kept : Matches(w.repo, j)
      BY <1>9, <1>p, <2>7, <2>11 DEF RunOK
    <3>2. i \notin more
      BY <1>1, <1>p
    <3>3. ReleaseDirs(s) = v.kept \cup more
      BY <1>7, <2>3, <2>5, <2>7, <2>8, <3>1, <3>2
    <3>4. ASSUME NEW j \in v.kept PROVE Matches(s, j)
      <4>1. CASE j = f
        BY <2>1, <2>3, <2>5, <2>8, <4>1
      <4>2. CASE j # f
        BY <1>2, <1>7, <2>3, <2>5, <2>7, <3>1, <4>2
      <4> QED
        BY <4>1, <4>2
    <3> QED
      BY <3>3, <3>4
  <2>12. v.repo.index = r.index
    BY <2>3, <2>5, <2>7 DEF RunOK
  <2> QED
    BY <1>4, <1>p, <2>7, <2>9, <2>10, <2>11, <2>12 DEF RunOK
<1> HIDE DEF d, copy
<1>15. \/ v = [w EXCEPT !.warned = TRUE]
       \/ v = [w EXCEPT !.repo.dirs[i] = Release(d.jar, d.zip), !.kept = @ \cup {i}]
       \/ d.man = [jar |-> d.jar, zip |-> d.zip] /\ v = [w EXCEPT !.kept = @ \cup {i}]
       \/ FreshId(w) \in ReleaseIds /\ v = [w EXCEPT !.repo = copy, !.warned = TRUE]
       \/ /\ FreshId(w) \in ReleaseIds
          /\ v = [w EXCEPT !.repo = Put(copy, i, NoRelease),
                           !.kept = @ \cup {FreshId(w)}, !.next = FreshId(w) + 1]
  BY <1>1, <1>2, <1>4, RepairsReleaseCases, Zenon DEF d, copy
<1> QED
  BY <1>5, <1>10, <1>11, <1>12, <1>13, <1>14, <1>15, Zenon

\* The loop of RepairRun: where it begins, and what it makes of one more id.
Begins(r) == [repo |-> r, next |-> HighestOf(ReleaseDirs(r)) + 1, kept |-> {}, warned |-> FALSE]

Looks(r, k, fails, w, i) ==
    IF i \in ReleaseDirs(r) THEN RepairsRelease(w, i, IF i = k THEN fails ELSE "no") ELSE w

Looping(r, k, fails, f, n) ==
    [i \in 0..n |-> IF i = 0 THEN Begins(r) ELSE Looks(r, k, fails, f[i-1], i)]

LEMMA LoopExists ==
    ASSUME NEW r, NEW k, NEW fails, NEW N \in Nat
    PROVE  \E f : f = Looping(r, k, fails, f, N)
<1> DEFINE T == {n \in Nat : ~ \E f : f = Looping(r, k, fails, f, n)}
<1>1. SUFFICES ASSUME T # {} PROVE FALSE
  OBVIOUS
<1>2. PICK n \in T : \A m \in T : n <= m
  <2>1. T \in SUBSET Nat
    OBVIOUS
  <2> HIDE DEF T
  <2> QED
    BY <1>1, <2>1, LeastNatural, Zenon
<1>3. n \in Nat /\ \A f : f # Looping(r, k, fails, f, n)
  BY <1>2
<1>4. CASE n = 0
  <2> DEFINE g == [i \in 0..n |-> Begins(r)]
  <2>1. g = Looping(r, k, fails, g, n)
    BY <1>4 DEF Looping
  <2> QED
    BY <1>3, <2>1, Zenon
<1>5. CASE n # 0
  <2>1. n - 1 \in Nat /\ n - 1 \notin T
    BY <1>2, <1>3, <1>5
  <2>2. PICK f : f = Looping(r, k, fails, f, n - 1)
    BY <2>1
  <2> DEFINE g == Looping(r, k, fails, f, n)
  <2>3. \A i \in 0..(n-1) : g[i] = IF i = 0 THEN Begins(r) ELSE Looks(r, k, fails, f[i-1], i)
    BY <1>3, <2>1 DEF Looping
  <2>4. \A i \in 0..(n-1) : f[i] = IF i = 0 THEN Begins(r) ELSE Looks(r, k, fails, f[i-1], i)
    BY <2>1, <2>2 DEF Looping
  <2>5. \A i \in 0..(n-1) : g[i] = f[i]
    <3> HIDE DEF g
    <3> QED
      BY <2>3, <2>4
  <2>6. \A i \in 0..n : i # 0 => g[i-1] = f[i-1]
    <3> TAKE i \in 0..n
    <3> HAVE i # 0
    <3>1. i - 1 \in 0..(n-1)
      BY <1>3
    <3> HIDE DEF g
    <3> QED
      BY <2>5, <3>1, Zenon
  <2>7. g = Looping(r, k, fails, g, n)
    <3>1. \A i \in 0..n : (IF i = 0 THEN Begins(r) ELSE Looks(r, k, fails, f[i-1], i))
                        = (IF i = 0 THEN Begins(r) ELSE Looks(r, k, fails, g[i-1], i))
      <4> HIDE DEF g
      <4> QED
        BY <2>6
    <3>2. Looping(r, k, fails, f, n) = Looping(r, k, fails, g, n)
      <4> HIDE DEF g
      <4> QED
        BY <3>1 DEF Looping
    <3> QED
      BY <3>2
  <2> HIDE DEF g
  <2> QED
    BY <1>3, <2>7, Zenon
<1> QED
  BY <1>4, <1>5

LEMMA RepairRunLoops ==
    ASSUME NEW r, NEW k, NEW fails
    PROVE  /\ RepairRun(r, k, fails)[0] = Begins(r)
           /\ \A i \in 1..MaxReleases :
                RepairRun(r, k, fails)[i] = Looks(r, k, fails, RepairRun(r, k, fails)[i-1], i)
<1>0. MaxReleases \in Nat
  BY RepositoryConstants
<1> DEFINE F == CHOOSE f : f = Looping(r, k, fails, f, MaxReleases)
<1>1. RepairRun(r, k, fails) = F
  BY Zenon DEF RepairRun, Looping, Begins, Looks
<1>2. F = Looping(r, k, fails, F, MaxReleases)
  BY <1>0, LoopExists, Zenon
<1> HIDE DEF F
<1>3. F[0] = Begins(r)
  BY <1>0, <1>2 DEF Looping
<1>4. \A i \in 1..MaxReleases : F[i] = Looks(r, k, fails, F[i-1], i)
  BY <1>0, <1>2 DEF Looping
<1> QED
  BY <1>1, <1>3, <1>4

LEMMA RepairRunOK ==
    ASSUME NEW r \in Repos, NEW k, NEW fails \in Ways, NEW n \in 0..MaxReleases
    PROVE  RunOK(RepairRun(r, k, fails)[n], r, n)
<1>0. MaxReleases \in Nat
  BY RepositoryConstants
<1>a. ReleaseDirs(r) \in SUBSET ReleaseIds /\ \A j \in ReleaseDirs(r) : j \in Nat /\ j > 0
  BY <1>0, SomeReleases DEF ReleaseIds
<1>1. RunOK(Begins(r), r, 0)
  <2>1. HighestOf(ReleaseDirs(r)) \in Nat /\ \A j \in ReleaseDirs(r) : j <= HighestOf(ReleaseDirs(r))
    BY <1>a, HighestIsNatural
  <2>2. PICK m \in Nat : m = HighestOf(ReleaseDirs(r)) + 1
    BY <2>1
  <2>3. \A j \in ReleaseDirs(r) : j < m
    BY <1>a, <2>1, <2>2
  <2>4. PICK b : b = Begins(r)
    OBVIOUS
  <2>5. b.repo = r /\ b.next = m /\ b.kept = {} /\ b.warned = FALSE /\ b \in Works
    BY <2>2, <2>4 DEF Begins, Works
  <2>6. ReleaseDirs(r) = {j \in ReleaseDirs(r) : j > 0}
    BY <1>a
  <2> QED
    BY <2>3, <2>4, <2>5, <2>6 DEF RunOK
<1>2. ASSUME NEW i \in 1..MaxReleases, NEW w, RunOK(w, r, i - 1)
      PROVE  RunOK(Looks(r, k, fails, w, i), r, i)
  <2>1. CASE i \in ReleaseDirs(r)
    <3>1. PICK way \in Ways : way = IF i = k THEN fails ELSE "no"
      BY DEF Ways
    <3>2. Looks(r, k, fails, w, i) = RepairsRelease(w, i, way)
      BY <2>1, <3>1 DEF Looks
    <3> QED
      BY <1>2, <2>1, <3>2, RepairsReleaseOK
  <2>2. CASE i \notin ReleaseDirs(r)
    <3>1. Looks(r, k, fails, w, i) = w
      BY <2>2 DEF Looks
    <3>2. {j \in ReleaseDirs(r) : j > i - 1} = {j \in ReleaseDirs(r) : j > i}
      BY <1>0, <1>a, <2>2
    <3>3. \A j \in ReleaseDirs(r) : j <= i - 1 => j <= i
      BY <1>0, <1>a
    <3> QED
      BY <1>2, <3>1, <3>2, <3>3 DEF RunOK
  <2> QED
    BY <2>1, <2>2
<1> DEFINE G == RepairRun(r, k, fails)
           T == {i \in 0..MaxReleases : ~ RunOK(G[i], r, i)}
<1>3. SUFFICES ASSUME T # {} PROVE FALSE
  OBVIOUS
<1>4. PICK m \in T : \A i \in T : m <= i
  <2>1. T \in SUBSET Nat
    OBVIOUS
  <2> HIDE DEF T
  <2> QED
    BY <1>3, <2>1, LeastNatural, Zenon
<1>5. m \in 0..MaxReleases /\ ~ RunOK(G[m], r, m)
  BY <1>4
<1>6. m # 0
  BY <1>1, <1>5, RepairRunLoops
<1>7. m \in 1..MaxReleases /\ m - 1 \in 0..MaxReleases /\ m - 1 \notin T
  BY <1>0, <1>4, <1>5, <1>6
<1>8. RunOK(G[m-1], r, m - 1)
  BY <1>7
<1>9. G[m] = Looks(r, k, fails, G[m-1], m)
  BY <1>7, RepairRunLoops
<1> HIDE DEF G, T
<1> QED
  BY <1>2, <1>5, <1>7, <1>8, <1>9

\* The repair saves an index of what it kept.
LEMMA IndexedOK ==
    ASSUME NEW r \in Repos, NEW w, RunOK(w, r, MaxReleases)
    PROVE  Indexed(w) \in Repos /\ (~w.warned => IsSound(Indexed(w)))
<1>0. MaxReleases \in Nat /\ ReleaseIds \subseteq Nat
  BY RepositoryConstants DEF ReleaseIds
<1>1. w \in Works /\ w.repo \in Repos /\ w.next \in Nat /\ w.kept \in SUBSET ReleaseIds
  BY DEF RunOK, Works
<1>2. ~w.warned => ReleaseDirs(w.repo) = w.kept
  <2>1. {j \in ReleaseDirs(r) : j > MaxReleases} = {}
    BY <1>0 DEF ReleaseDirs, ReleaseIds
  <2> QED
    BY <2>1 DEF RunOK
<1>3. CASE w.kept = {}
  BY <1>1, <1>2, <1>3 DEF Indexed, IsSound
<1>4. CASE w.kept # {}
  <2>1. Max(w.kept) \in w.kept
    <3>1. \A j \in w.kept : j <= MaxReleases
      BY <1>0, <1>1 DEF ReleaseIds
    <3>2. w.kept \in SUBSET Nat
      BY <1>0, <1>1
    <3> QED
      BY <1>0, <1>4, <3>1, <3>2, MaxOfBounded
  <2>2. PICK current \in w.kept :
          current = IF w.repo.index.current \in w.kept THEN w.repo.index.current ELSE Max(w.kept)
    BY <2>1
  <2>3. PICK yes \in BOOLEAN : yes = TRUE
    OBVIOUS
  <2>4. PICK index : index = [w.repo.index EXCEPT !.current = current, !.next = w.next, !.there = yes]
    OBVIOUS
  <2>5. index \in Indexes /\ index.current = current /\ index.next = w.next /\ index.there = yes
    <3>1. w.repo.index \in Indexes /\ current \in Nat
      BY <1>0, <1>1, <2>2 DEF Repos
    <3> QED
      BY <1>1, <2>3, <2>4, <3>1 DEF Indexes
  <2>6. RepairsIndex(w) = index
    BY <2>2, <2>3, <2>4 DEF RepairsIndex
  <2>7. PICK s : s = [w.repo EXCEPT !.index = index]
    OBVIOUS
  <2>8. s \in Repos /\ s.dirs = w.repo.dirs /\ s.index = index
    BY <1>1, <2>5, <2>7 DEF Repos
  <2>9. Indexed(w) = s
    BY <1>4, <2>6, <2>7 DEF Indexed
  <2>10. ASSUME ~w.warned PROVE IsSound(s)
    <3>1. ReleaseDirs(s) = w.kept /\ \A j \in w.kept : Matches(s, j)
      <4>1. ReleaseDirs(s) = ReleaseDirs(w.repo)
        BY <2>8 DEF ReleaseDirs
      <4>2. \A j \in w.kept : Matches(w.repo, j)
        BY <2>10 DEF RunOK
      <4> QED
        BY <1>2, <2>8, <2>10, <4>1, <4>2 DEF Matches
    <3>2. \A j \in w.kept : j < s.index.next
      BY <2>5, <2>8 DEF RunOK
    <3> QED
      BY <2>2, <2>3, <2>5, <2>8, <3>1, <3>2 DEF IsSound
  <2> QED
    BY <2>8, <2>9, <2>10
<1> QED
  BY <1>3, <1>4

-----------------------------------------------------------------------------
(* Upload.                                                                 *)

UploadOK(r, states) ==
    /\ states \in Seq(Repos)
    /\ Len(states) \in Nat \ {0}
    /\ \A i \in 1..Len(states) : states[i] \in Repos
    /\ Last(states) \in Repos
    /\ IsSound(r) => IsSound(Last(states))

LEMMA UploadStatesOK ==
    ASSUME NEW r \in Repos, NEW jar \in Jars, NEW zip \in Zips \cup {NoZip}, NEW auto \in BOOLEAN
    PROVE  UploadOK(r, UploadStates(r, jar, zip, auto))
<1> DEFINE
      Index     == [r.index EXCEPT !.auto = auto, !.there = TRUE]
      Current   == IF Index.current \in Artifacts(r) THEN r.dirs[Index.current] ELSE NoRelease
      Config    == IF zip # NoZip THEN zip ELSE IF Current.man.zip # NoZip THEN Current.zip ELSE NoZip
      New       == Release(jar, Config)
      Id        == Max({Index.next, HighestOf(Artifacts(r)) + 1})
      Published == Put(r, Id, New)
      Last3     == [Published EXCEPT !.index = [Index EXCEPT !.current = Id, !.next = Id + 1]]
<1>u. UploadStates(r, jar, zip, auto) =
        IF \E i \in Artifacts(r) : r.dirs[i].man = New.man THEN <<r, [r EXCEPT !.index = Index]>>
        ELSE IF Id \notin ReleaseIds \/ Id \in ReleaseDirs(r) THEN <<r>>
        ELSE <<r, Published, Last3>>
  BY DEF UploadStates, Put
<1>0. MaxReleases \in Nat /\ ReleaseIds \subseteq Nat
  BY RepositoryConstants DEF ReleaseIds
<1>1. r.index \in Indexes /\ r.index.next \in Nat /\ r.dirs \in [ReleaseIds -> ReleaseRows]
  BY DEF Repos, Indexes
<1>2. PICK yes \in BOOLEAN : yes = TRUE
  OBVIOUS
<1>i. PICK index : index = Index
  OBVIOUS
<1>3. index = [r.index EXCEPT !.auto = auto, !.there = yes]
  BY <1>2, <1>i
<1> HIDE DEF Index
<1>4. index \in Indexes /\ index.there = yes /\ index.current = r.index.current /\ index.next = r.index.next
  BY <1>1, <1>3 DEF Indexes
<1>5d. PICK current : current = Current
  OBVIOUS
<1>5. current = IF index.current \in Artifacts(r) THEN r.dirs[index.current] ELSE NoRelease
  BY <1>i, <1>5d
<1> HIDE DEF Current
<1>6. current \in ReleaseRows
  <2>1. index.current \in Artifacts(r) => r.dirs[index.current] \in ReleaseRows
    BY <1>1, SomeReleases
  <2> QED
    BY <1>5, <2>1, NoReleaseIsRow
<1>7d. PICK config : config = Config
  OBVIOUS
<1>7. config = IF zip # NoZip THEN zip ELSE IF current.man.zip # NoZip THEN current.zip ELSE NoZip
  BY <1>5d, <1>7d
<1> HIDE DEF Config
<1>8. config \in Zips \cup {NoZip}
  BY <1>6, <1>7 DEF ReleaseRows
<1>9d. PICK new : new = New
  OBVIOUS
<1>9. new = Release(jar, config)
  BY <1>7d, <1>9d
<1> HIDE DEF New
<1>10. new \in ReleaseRows /\ new.there /\ new.man = [jar |-> new.jar, zip |-> new.zip]
  BY <1>8, <1>9, ReleaseIsRow
<1>11d. PICK id : id = Id
  OBVIOUS
<1>11. id = Max({index.next, HighestOf(Artifacts(r)) + 1})
  BY <1>i, <1>11d
<1> HIDE DEF Id
<1>12. id \in Nat /\ id >= r.index.next
  <2>1. HighestOf(Artifacts(r)) \in Nat
    BY SomeReleases, HighestIsNatural
  <2>2. PICK m \in Nat : m = HighestOf(Artifacts(r)) + 1
    BY <2>1
  <2>3. {index.next, m} \in SUBSET Nat /\ {index.next, m} # {} /\ \A y \in {index.next, m} : y <= index.next + m
    BY <1>1, <1>4, <2>2
  <2>4. index.next + m \in Nat
    BY <1>1, <1>4, <2>2
  <2>5. Max({index.next, m}) \in {index.next, m} /\ \A y \in {index.next, m} : Max({index.next, m}) >= y
    BY <2>3, <2>4, MaxOfBounded
  <2>6. id = Max({index.next, m})
    BY <1>11, <2>2
  <2> QED
    BY <1>1, <1>4, <2>2, <2>5, <2>6
<1>13. PICK saved : saved = [r EXCEPT !.index = index]
  OBVIOUS
<1>14d. PICK published : published = Published
  OBVIOUS
<1>14. published = Put(r, id, new)
  BY <1>9d, <1>11d, <1>14d
<1> HIDE DEF Published
<1>15d. PICK last : last = Last3
  OBVIOUS
<1>15. last = [published EXCEPT !.index = [index EXCEPT !.current = id, !.next = id + 1]]
  BY <1>i, <1>11d, <1>14d, <1>15d
<1> HIDE DEF Last3
<1>16. UploadStates(r, jar, zip, auto) =
         IF \E i \in Artifacts(r) : r.dirs[i].man = new.man THEN <<r, saved>>
         ELSE IF id \notin ReleaseIds \/ id \in ReleaseDirs(r) THEN <<r>>
         ELSE <<r, published, last>>
  BY <1>u, <1>i, <1>9d, <1>11d, <1>13, <1>14d, <1>15d
<1>17. PICK states : states = UploadStates(r, jar, zip, auto)
  OBVIOUS
<1>18. CASE \E i \in Artifacts(r) : r.dirs[i].man = new.man
  <2>1. states = <<r, saved>>
    BY <1>16, <1>17, <1>18
  <2>2. saved \in Repos /\ saved.dirs = r.dirs /\ saved.index = index
    BY <1>4, <1>13 DEF Repos
  <2>3. ReleaseDirs(saved) = ReleaseDirs(r) /\ \A j : Matches(r, j) => Matches(saved, j)
    BY <2>2 DEF ReleaseDirs, Matches
  <2>4. IsSound(r) => IsSound(saved)
    BY <1>2, <1>4, <2>2, <2>3 DEF IsSound
  <2>5. Len(states) = 2 /\ states[1] = r /\ states[2] = saved
    BY <2>1
  <2>s. states \in Seq(Repos)
    BY <2>1, <2>2
  <2> QED
    BY <1>17, <2>s, <2>2, <2>4, <2>5 DEF UploadOK, Last
<1>19. CASE ~(\E i \in Artifacts(r) : r.dirs[i].man = new.man) /\ (id \notin ReleaseIds \/ id \in ReleaseDirs(r))
  <2>1. states = <<r>>
    BY <1>16, <1>17, <1>19
  <2>5. Len(states) = 1 /\ states[1] = r
    BY <2>1
  <2>s. states \in Seq(Repos)
    BY <2>1
  <2> QED
    BY <1>17, <2>s, <2>5 DEF UploadOK, Last
<1>20. CASE ~(\E i \in Artifacts(r) : r.dirs[i].man = new.man) /\ id \in ReleaseIds /\ id \notin ReleaseDirs(r)
  <2>1. states = <<r, published, last>>
    BY <1>16, <1>17, <1>20
  <2>2. /\ published \in Repos /\ published.index = r.index
        /\ ReleaseDirs(published) = ReleaseDirs(r) \cup {id}
        /\ \A j \in ReleaseIds \ {id} : Matches(r, j) => Matches(published, j)
        /\ Matches(published, id)
    BY <1>10, <1>14, <1>20, SetsRelease
  <2>3. PICK m \in Nat : m = id + 1
    BY <1>12
  <2>4. PICK newIndex : newIndex = [index EXCEPT !.current = id, !.next = m]
    OBVIOUS
  <2>5. newIndex \in Indexes /\ newIndex.current = id /\ newIndex.next = m /\ newIndex.there = yes
    BY <1>4, <1>12, <2>4 DEF Indexes
  <2>6. last = [published EXCEPT !.index = newIndex]
    BY <1>15, <2>3, <2>4
  <2>7. last \in Repos /\ last.dirs = published.dirs /\ last.index = newIndex
    BY <2>2, <2>5, <2>6 DEF Repos
  <2>8. ReleaseDirs(last) = ReleaseDirs(published) /\ \A j : Matches(published, j) => Matches(last, j)
    BY <2>7 DEF ReleaseDirs, Matches
  <2>9. ASSUME IsSound(r) PROVE IsSound(last)
    <3>1. \A j \in ReleaseDirs(r) : j \in ReleaseIds \ {id} /\ Matches(r, j) /\ j \in Nat /\ j < r.index.next
      BY <1>0, <1>20, <2>9, SomeReleases DEF IsSound
    <3>2. \A j \in ReleaseDirs(r) : Matches(last, j) /\ j < m
      BY <1>1, <1>12, <2>2, <2>3, <2>8, <3>1
    <3>3. Matches(last, id) /\ id < m
      BY <1>12, <2>2, <2>3, <2>8
    <3> QED
      BY <1>2, <2>2, <2>5, <2>7, <2>8, <3>2, <3>3 DEF IsSound
  <2>10. Len(states) = 3 /\ states[1] = r /\ states[2] = published /\ states[3] = last
    BY <2>1
  <2>s. states \in Seq(Repos)
    BY <2>1, <2>2, <2>7
  <2> QED
    BY <1>17, <2>s, <2>2, <2>7, <2>9, <2>10 DEF UploadOK, Last
<1> QED
  BY <1>17, <1>18, <1>19, <1>20

-----------------------------------------------------------------------------
(* The operations.                                                         *)

Takers     == PanelRequests \cup {FirstScan}
TasksTyped == repoTask \in [Takers -> RepoTasks]

LEMMA QuietIsTask ==
    /\ Quiet \in RepoTasks
    /\ [Quiet EXCEPT !.step = "scan"] \in RepoTasks
BY DEF Quiet, RepoTasks

LEMMA StepTyped ==
    ASSUME RepInv, NEW c \in Takers, NEW s \in {"idle", "scan", "import", "list", "sync"}, Step(c, s)
    PROVE  TasksTyped'
<1>1. repoTask \in [Takers -> RepoTasks]
  BY DEF RepInv, RepTypeOK, Takers
<1>2. PICK t : t = [repoTask[c] EXCEPT !.step = s]
  OBVIOUS
<1>3. t \in RepoTasks
  BY <1>1, <1>2 DEF RepoTasks
<1>4. repoTask' = [repoTask EXCEPT ![c] = t]
  BY <1>1, <1>2 DEF Step
<1> QED
  BY <1>1, <1>3, <1>4 DEF TasksTyped

LEMMA StoppedTyped ==
    ASSUME RepInv, Stopped PROVE TasksTyped' /\ ~sound'
<1>1. DOMAIN repoTask = Takers
  BY DEF RepInv, RepTypeOK, Takers
<1>2. repoTask' = [c \in Takers |-> IF c = FirstScan THEN [Quiet EXCEPT !.step = "scan"] ELSE Quiet]
  BY <1>1 DEF Stopped
<1>3. TasksTyped'
  BY <1>2, QuietIsTask DEF TasksTyped
<1> QED
  BY <1>3 DEF Stopped

LEMMA CutTyped ==
    ASSUME RepInv, NEW c \in Takers, NEW o, NEW states, Cut(c, states, o), Len(states) \in Nat,
           \A i \in 1..(Len(states) - 1) : states[i] \in Repos
    PROVE  repo' \in Repos /\ TasksTyped' /\ ~sound'
<1>1. repo' \in Repos
  BY DEF Cut
<1>2. Failed(c) \/ Stopped
  BY DEF Cut
<1>3. CASE Failed(c)
  <2>1. PICK s \in {"idle", "scan", "import", "list", "sync"} : Step(c, s)
    BY <1>3 DEF Failed
  <2> QED
    BY <1>1, <1>3, <2>1, StepTyped DEF Failed
<1> QED
  BY <1>1, <1>2, <1>3, StoppedTyped

\* What an operation has to show for the invariant.
LEMMA RepInvFrom ==
    ASSUME repo' \in Repos, imports' \subseteq Imported, TasksTyped', sound' => IsSound(repo)'
    PROVE  RepInv'
BY DEF RepInv, RepTypeOK, TasksTyped, Takers

LEMMA RepTyped ==
    ASSUME RepInv
    PROVE  repo \in Repos /\ imports \subseteq Imported /\ repoTask \in [Takers -> RepoTasks]
BY DEF RepInv, RepTypeOK, Takers

LEMMA UploadsInv == ASSUME RepInv, NEW c \in PanelRequests, UploadsPlugin(c) PROVE RepInv'
<1>1. PICK jar \in Jars, auto \in BOOLEAN :
        LET states == UploadStates(repo, jar, NoZip, auto)
        IN  \/ /\ repo' = Last(states)
               /\ Step(c, IF Len(states) = 1 THEN "idle" ELSE "list")
               /\ UNCHANGED <<serving, sound>>
            \/ Cut(c, states, 1)
  BY DEF UploadsPlugin
<1>2. PICK states : states = UploadStates(repo, jar, NoZip, auto)
  OBVIOUS
<1>3. UploadOK(repo, states)
  BY <1>2, UploadStatesOK, RepTyped
<1>4. c \in Takers
  BY DEF Takers
<1>5. imports' \subseteq Imported
  BY RepTyped DEF UploadsPlugin
<1>6. CASE /\ repo' = Last(states)
           /\ Step(c, IF Len(states) = 1 THEN "idle" ELSE "list")
           /\ UNCHANGED <<serving, sound>>
  <2>1. PICK s \in {"idle", "scan", "import", "list", "sync"} : Step(c, s)
    BY <1>6
  <2>2. TasksTyped'
    BY <1>4, <2>1, StepTyped
  <2>3. sound' => IsSound(repo)'
    BY <1>3, <1>6 DEF UploadOK, RepInv, IsSound, ReleaseDirs, Matches
  <2> QED
    BY <1>3, <1>5, <1>6, <2>2, <2>3, RepInvFrom DEF UploadOK
<1>7. CASE Cut(c, states, 1)
  <2>1. Len(states) \in Nat /\ \A i \in 1..(Len(states) - 1) : states[i] \in Repos
    BY <1>3 DEF UploadOK
  <2> QED
    BY <1>4, <1>5, <1>7, <2>1, CutTyped, RepInvFrom
<1> QED
  BY <1>1, <1>2, <1>6, <1>7

LEMMA NothingThere ==
    [dirs |-> [i \in ReleaseIds |-> NoRelease], index |-> NoIndex] \in Repos
BY NoReleaseIsRow DEF Repos, NoIndex, Indexes

LEMMA PartlyDeletedOK == ASSUME NEW r \in Repos, NEW s \in PartlyDeleted(r) PROVE s \in Repos
<1>1. PICK gone \in SUBSET ReleaseDirs(r), half \in {0} \cup ReleaseDirs(r), index \in BOOLEAN :
        s = LeftOf(r, gone, half, index)
  BY DEF PartlyDeleted
<1>2. (IF index THEN r.index ELSE NoIndex) \in Indexes
  BY DEF Repos, NoIndex, Indexes
<1>3. ASSUME NEW i \in ReleaseIds
      PROVE  (IF i \in gone THEN NoRelease
              ELSE IF i = half THEN [r.dirs[i] EXCEPT !.jar = NoJarFile] ELSE r.dirs[i]) \in ReleaseRows
  <2>1. r.dirs[i] \in ReleaseRows
    BY DEF Repos
  <2>2. [r.dirs[i] EXCEPT !.jar = NoJarFile] \in ReleaseRows
    BY <2>1 DEF ReleaseRows
  <2> QED
    BY <2>1, <2>2, NoReleaseIsRow
<1> QED
  BY <1>1, <1>2, <1>3 DEF Repos, LeftOf

LEMMA DeletesInv == ASSUME RepInv, NEW c \in PanelRequests, DeletesPlugin(c) PROVE RepInv'
<1>1. c \in Takers
  BY DEF Takers
<1>2. imports' \subseteq Imported
  BY RepTyped DEF DeletesPlugin
<1>3. CASE /\ repo' = [dirs |-> [i \in ReleaseIds |-> NoRelease], index |-> NoIndex]
           /\ Step(c, "list")
  <2>1. TasksTyped'
    BY <1>1, <1>3, StepTyped
  <2>2. IsSound(repo)'
    BY <1>3, NoReleaseIsRow DEF IsSound, ReleaseDirs
  <2> QED
    BY <1>2, <1>3, <2>1, <2>2, NothingThere, RepInvFrom
<1>4. CASE \E r \in PartlyDeleted(repo) : Cut(c, <<r, repo>>, 1)
  <2>1. PICK r \in PartlyDeleted(repo) : Cut(c, <<r, repo>>, 1)
    BY <1>4
  <2>2. r \in Repos
    BY RepTyped, PartlyDeletedOK
  <2>3. PICK states : states = <<r, repo>>
    OBVIOUS
  <2>4. Len(states) = 2 /\ states[1] = r
    BY <2>3
  <2>5. Len(states) \in Nat /\ \A i \in 1..(Len(states) - 1) : states[i] \in Repos
    BY <2>2, <2>4
  <2> QED
    BY <1>1, <1>2, <2>1, <2>3, <2>5, CutTyped, RepInvFrom
<1> QED
  BY <1>3, <1>4 DEF DeletesPlugin

LEMMA RepairsInv == ASSUME RepInv, NEW c \in Takers, Repairs(c) PROVE RepInv'
<1>0. MaxReleases \in Nat /\ MaxReleases \in 0..MaxReleases /\ ReleaseIds \subseteq 0..MaxReleases
  BY RepositoryConstants DEF ReleaseIds
<1>1. imports' \subseteq Imported
  BY RepTyped DEF Repairs
<1>2. ASSUME NEW k, NEW fails \in Ways, NEW n \in 0..MaxReleases
      PROVE  /\ RunOK(RepairRun(repo, k, fails)[n], repo, n)
             /\ RepairRun(repo, k, fails)[n].repo \in Repos
  <2>1. RunOK(RepairRun(repo, k, fails)[n], repo, n)
    BY RepairRunOK, RepTyped
  <2> QED
    BY <2>1 DEF RunOK, Works
<1>3. ASSUME NEW k, NEW fails \in Ways
      PROVE  /\ Indexed(Repaired(repo, k, fails)) \in Repos
             /\ ~Repaired(repo, k, fails).warned => IsSound(Indexed(Repaired(repo, k, fails)))
  <2>1. RunOK(Repaired(repo, k, fails), repo, MaxReleases)
    BY <1>0, <1>2 DEF Repaired
  <2> QED
    BY <2>1, IndexedOK, RepTyped
<1>4. "no" \in Ways /\ "before" \in Ways /\ "after" \in Ways
  BY DEF Ways
<1> DEFINE scans == [repoTask EXCEPT ![c] = [step |-> "import", files |-> imports, list |-> {}]]
<1>5. scans \in [Takers -> RepoTasks]
  <2>1. [step |-> "import", files |-> imports, list |-> {}] \in RepoTasks
    BY RepTyped DEF RepoTasks
  <2> QED
    BY <2>1, RepTyped
<1>6. ASSUME repo' \in Repos, ~sound', repoTask' = scans \/ Stopped PROVE RepInv'
  <2>1. TasksTyped'
    BY <1>5, <1>6, StoppedTyped DEF TasksTyped
  <2> QED
    BY <1>1, <1>6, <2>1, RepInvFrom
<1>7. CASE /\ repo' = Indexed(Repaired(repo, 0, "no"))
           /\ sound' = (~Repaired(repo, 0, "no").warned /\ (ReleaseDirs(repo) = {} => ~repo.index.there))
           /\ repoTask' = scans
  <2>1. TasksTyped'
    BY <1>5, <1>7 DEF TasksTyped
  <2>2. PICK s : s = Indexed(Repaired(repo, 0, "no"))
    OBVIOUS
  <2>3. s \in Repos /\ (sound' => IsSound(s))
    BY <1>3, <1>4, <1>7, <2>2
  <2>4. repo' = s
    BY <1>7, <2>2
  <2>5. sound' => IsSound(repo)'
    BY <2>3, <2>4 DEF IsSound, ReleaseDirs, Matches
  <2> QED
    BY <1>1, <2>1, <2>3, <2>4, <2>5, RepInvFrom
<1>8. CASE \E k \in ReleaseDirs(repo), fails \in {"before", "after"} :
             repo' = Indexed(Repaired(repo, k, fails)) /\ ~sound' /\ repoTask' = scans
  <2>1. repo' \in Repos /\ ~sound' /\ repoTask' = scans
    BY <1>3, <1>4, <1>8
  <2> QED
    BY <1>6, <2>1
<1>9. CASE \E k \in {0} \cup ReleaseDirs(repo) :
             repo' = RepairRun(repo, 0, "no")[k].repo /\ ~sound' /\ (repoTask' = scans \/ Stopped)
  <2>1. PICK k \in {0} \cup ReleaseDirs(repo) :
          repo' = RepairRun(repo, 0, "no")[k].repo /\ ~sound' /\ (repoTask' = scans \/ Stopped)
    BY <1>9
  <2>2. k \in 0..MaxReleases
    BY <1>0, SomeReleases
  <2> QED
    BY <1>2, <1>4, <1>6, <2>1, <2>2
<1>10. CASE \E k \in ReleaseDirs(repo) :
              repo' = RepairRun(repo, k, "after")[k].repo /\ ~sound' /\ (repoTask' = scans \/ Stopped)
  <2>1. PICK k \in ReleaseDirs(repo) :
          repo' = RepairRun(repo, k, "after")[k].repo /\ ~sound' /\ (repoTask' = scans \/ Stopped)
    BY <1>10
  <2>2. k \in 0..MaxReleases
    BY <1>0, SomeReleases
  <2> QED
    BY <1>2, <1>4, <1>6, <2>1, <2>2
<1>11. \/ /\ repo' = Indexed(Repaired(repo, 0, "no"))
          /\ sound' = (~Repaired(repo, 0, "no").warned /\ (ReleaseDirs(repo) = {} => ~repo.index.there))
          /\ repoTask' = scans
       \/ \E k \in ReleaseDirs(repo), fails \in {"before", "after"} :
            repo' = Indexed(Repaired(repo, k, fails)) /\ ~sound' /\ repoTask' = scans
       \/ \E k \in {0} \cup ReleaseDirs(repo) :
            repo' = RepairRun(repo, 0, "no")[k].repo /\ ~sound' /\ (repoTask' = scans \/ Stopped)
       \/ \E k \in ReleaseDirs(repo) :
            repo' = RepairRun(repo, k, "after")[k].repo /\ ~sound' /\ (repoTask' = scans \/ Stopped)
  <2>1. Stopped => ~sound'
    BY DEF Stopped
  <2> QED
    BY <2>1, Zenon DEF Repairs
<1> HIDE DEF scans
<1> QED
  BY <1>7, <1>8, <1>9, <1>10, <1>11, Zenon

LEMMA ImportsFileInv == ASSUME RepInv, NEW c \in Takers, ImportsFile(c) PROVE RepInv'
<1>0. repoTask \in [Takers -> RepoTasks] /\ repoTask[c] \in RepoTasks /\ repoTask[c].files \subseteq Imported
  BY RepTyped DEF RepoTasks
<1>1. PICK file \in repoTask[c].files :
        LET states == UploadStates(repo, file.jar, file.zip, FALSE)
        IN  \/ /\ repo' = Last(states)
               /\ imports' = IF Len(states) = 1 THEN imports ELSE imports \ {file}
               /\ repoTask' = [repoTask EXCEPT ![c].files = @ \ {file}]
               /\ UNCHANGED <<serving, sound, repoCount>>
            \/ Cut(c, states \o <<Last(states)>>, 0) /\ UNCHANGED imports
  BY DEF ImportsFile
<1>2. PICK states : states = UploadStates(repo, file.jar, file.zip, FALSE)
  OBVIOUS
<1>3. UploadOK(repo, states)
  <2>1. file.jar \in Jars /\ file.zip \in Zips \cup {NoZip} /\ FALSE \in BOOLEAN
    BY <1>0 DEF Imported
  <2> QED
    BY <1>2, <2>1, UploadStatesOK, RepTyped
<1>4. imports' \subseteq Imported
  BY <1>1, RepTyped
<1>5. CASE /\ repo' = Last(states)
           /\ repoTask' = [repoTask EXCEPT ![c].files = @ \ {file}]
           /\ UNCHANGED <<serving, sound, repoCount>>
  <2>1. PICK left : left = repoTask[c].files \ {file}
    OBVIOUS
  <2>2. PICK t : t = [repoTask[c] EXCEPT !.files = left]
    OBVIOUS
  <2>3. left \in SUBSET Imported
    BY <1>0, <2>1
  <2>4. t \in RepoTasks
    BY <1>0, <2>2, <2>3 DEF RepoTasks
  <2>5. repoTask' = [repoTask EXCEPT ![c] = t]
    BY <1>0, <1>5, <2>1, <2>2
  <2>6. TasksTyped'
    BY <1>0, <2>4, <2>5 DEF TasksTyped
  <2>7. sound' => IsSound(repo)'
    BY <1>3, <1>5 DEF UploadOK, RepInv, IsSound, ReleaseDirs, Matches
  <2> QED
    BY <1>3, <1>4, <1>5, <2>6, <2>7, RepInvFrom DEF UploadOK
<1>6. CASE Cut(c, states \o <<Last(states)>>, 0)
  <2>1. PICK all : all = states \o <<Last(states)>>
    OBVIOUS
  <2>2. Len(all) = Len(states) + 1 /\ \A i \in 1..Len(states) : all[i] = states[i]
    BY <1>3, <2>1 DEF UploadOK
  <2>3. Len(all) \in Nat /\ \A i \in 1..(Len(all) - 1) : all[i] \in Repos
    BY <1>3, <2>2 DEF UploadOK
  <2> QED
    BY <1>4, <1>6, <2>1, <2>3, CutTyped, RepInvFrom
<1> QED
  BY <1>1, <1>2, <1>5, <1>6

LEMMA ListsInv == ASSUME RepInv, NEW c \in Takers, ListsPlugins(c) PROVE RepInv'
<1>1. Listing(repo) \in SUBSET ListRows
  <2>1. ASSUME NEW i \in Artifacts(repo)
        PROVE  [id |-> i, jar |-> repo.dirs[i].man.jar, current |-> i = repo.index.current] \in ListRows
    <3>1. i \in ReleaseIds /\ repo.dirs[i] \in ReleaseRows
      BY SomeReleases, RepTyped DEF Repos
    <3> QED
      BY <3>1 DEF ReleaseRows, Manifests, ListRows
  <2> QED
    BY <2>1 DEF Listing
<1>2. [step |-> "sync", files |-> {}, list |-> Listing(repo)] \in RepoTasks
  BY <1>1 DEF RepoTasks
<1>3. TasksTyped'
  BY <1>2, RepTyped DEF ListsPlugins, TasksTyped
<1> QED
  BY <1>3, RepTyped, RepInvFrom DEF ListsPlugins, RepInv, IsSound, ReleaseDirs, Matches

LEMMA RepQuietStep ==
    ASSUME RepInv, TasksTyped', UNCHANGED <<repo, imports, sound>> PROVE RepInv'
BY RepTyped, RepInvFrom DEF RepInv, IsSound, ReleaseDirs, Matches

LEMMA ByHandInv == ASSUME RepInv, ChangesByHand PROVE RepInv'
<1>1. TasksTyped'
  BY RepTyped DEF ChangesByHand, TasksTyped
<1>2. CASE (\E i \in ReleaseDirs(repo) :
              \/ \E jar \in Jars : repo' = [repo EXCEPT !.dirs[i].jar = jar]
              \/ repo' = [repo EXCEPT !.dirs[i].man = NoManifest]) /\ ~sound' /\ UNCHANGED imports
  <2>1. PICK i \in ReleaseDirs(repo) :
              \/ \E jar \in Jars : repo' = [repo EXCEPT !.dirs[i].jar = jar]
              \/ repo' = [repo EXCEPT !.dirs[i].man = NoManifest]
    BY <1>2
  <2>2. i \in ReleaseIds /\ repo.dirs[i] \in ReleaseRows
    BY SomeReleases, RepTyped DEF Repos
  <2>3. ASSUME NEW d \in ReleaseRows, repo' = Put(repo, i, d) PROVE repo' \in Repos
    BY <2>2, <2>3, SetsRelease, RepTyped
  <2>4. ASSUME NEW jar \in Jars, repo' = [repo EXCEPT !.dirs[i].jar = jar] PROVE repo' \in Repos
    <3>1. PICK d : d = [repo.dirs[i] EXCEPT !.jar = jar]
      OBVIOUS
    <3>2. d \in ReleaseRows
      BY <2>2, <3>1 DEF ReleaseRows
    <3>3. repo' = Put(repo, i, d)
      BY <2>2, <2>4, <3>1, RepTyped DEF Put, Repos
    <3> QED
      BY <2>3, <3>2, <3>3
  <2>5. ASSUME repo' = [repo EXCEPT !.dirs[i].man = NoManifest] PROVE repo' \in Repos
    <3>1. PICK d : d = [repo.dirs[i] EXCEPT !.man = NoManifest]
      OBVIOUS
    <3>2. d \in ReleaseRows
      <4>1. NoManifest \in Manifests
        BY DEF NoManifest, Manifests
      <4> QED
        BY <2>2, <3>1, <4>1 DEF ReleaseRows
    <3>3. repo' = Put(repo, i, d)
      BY <2>2, <2>5, <3>1, RepTyped DEF Put, Repos
    <3> QED
      BY <2>3, <3>2, <3>3
  <2>6. repo' \in Repos
    BY <2>1, <2>4, <2>5
  <2> QED
    BY <1>1, <1>2, <2>6, RepTyped, RepInvFrom
<1>3. CASE (\E jar \in Jars, zip \in Zips \cup {NoZip} : imports' = imports \cup {[jar |-> jar, zip |-> zip]})
           /\ UNCHANGED <<repo, sound>>
  <2>1. imports' \subseteq Imported
    BY <1>3, RepTyped DEF Imported
  <2> QED
    BY <1>1, <1>3, <2>1, RepTyped, RepInvFrom DEF RepInv, IsSound, ReleaseDirs, Matches
<1> QED
  BY <1>2, <1>3 DEF ChangesByHand

LEMMA RepInitInv == RepoInit => RepInv
<1> SUFFICES ASSUME RepoInit PROVE RepInv
  OBVIOUS
<1>1. repo \in Repos
  BY NothingThere DEF RepoInit
<1>2. imports \subseteq Imported
  BY DEF RepoInit
<1>3. repoTask \in [Takers -> RepoTasks]
  BY QuietIsTask DEF RepoInit, Takers
<1>4. IsSound(repo)
  BY NoReleaseIsRow DEF RepoInit, IsSound, ReleaseDirs
<1> QED
  BY <1>1, <1>2, <1>3, <1>4 DEF RepInv, RepTypeOK, Takers

LEMMA RepStepInv == RepInv /\ [RepoNext]_repoVars => RepInv'
<1> SUFFICES ASSUME RepInv, [RepoNext]_repoVars PROVE RepInv'
  OBVIOUS
<1>1. ASSUME NEW c \in PanelRequests, UploadsPlugin(c) \/ DeletesPlugin(c) PROVE RepInv'
  BY <1>1, UploadsInv, DeletesInv
<1>2. ASSUME NEW c \in Takers, Repairs(c) \/ ImportsFile(c) \/ ListsPlugins(c) PROVE RepInv'
  BY <1>2, RepairsInv, ImportsFileInv, ListsInv
<1>3. ASSUME NEW c \in Takers, ImportsEnd(c) PROVE RepInv'
  <2>1. TasksTyped'
    BY <1>3, StepTyped DEF ImportsEnd
  <2> QED
    BY <1>3, <2>1, RepQuietStep DEF ImportsEnd
<1>4. ASSUME NEW c \in Takers, Syncs(c) PROVE RepInv'
  <2>1. TasksTyped'
    BY <1>4, QuietIsTask, RepTyped DEF Syncs, TasksTyped
  <2> QED
    BY <1>4, <2>1, RepQuietStep DEF Syncs
<1>5. CASE PanelStops
  <2>1. TasksTyped' /\ ~sound' /\ UNCHANGED <<repo, imports>>
    BY <1>5, StoppedTyped DEF PanelStops
  <2> QED
    BY <2>1, RepTyped, RepInvFrom
<1>6. CASE ChangesByHand
  BY <1>6, ByHandInv
<1>7. CASE UNCHANGED repoVars
  <2>1. TasksTyped'
    BY <1>7, RepTyped DEF repoVars, TasksTyped
  <2> QED
    BY <1>7, <2>1, RepQuietStep DEF repoVars
<1> QED
  BY <1>1, <1>2, <1>3, <1>4, <1>5, <1>6, <1>7 DEF RepoNext, Takers

\* A repository that was left alone since a scan without a warning, and whose writes all went
\* through, is sound: every release is what its manifest says, the index names one of them,
\* and the next id is free, for any number of releases (repairPluginLocked, Upload).
THEOREM RepRepositoryIsSound == RepoSpec => []RepositoryIsSound
<1>1. RepInv => RepositoryIsSound
  BY DEF RepInv, IsSound, RepositoryIsSound, Matches
<1> QED
  BY <1>1, RepInitInv, RepStepInv, PTL DEF RepoSpec

=============================================================================
