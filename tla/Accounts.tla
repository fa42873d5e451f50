------------------------------- MODULE Accounts ------------------------------
(***************************************************************************)
(* Users, groups, permissions, sessions and API keys of the panel, all rows *)
(* of one database.  A request is several statements: it is authenticated,  *)
(* its permission and its target are read, and only then a transaction, or  *)
(* a single statement, writes what was decided; other requests run between. *)
(* UPDATE and DELETE of a user hold row locks across their statements.      *)
(*                                                                         *)
(* One permission stands for the permissions of user management, the group *)
(* "staff" for the groups the super administrators create.  A request may   *)
(* end at any point: the browser leaves, and its context ends the statement.*)
(***************************************************************************)
EXTENDS Integers

CONSTANTS
    Users, AccRequests, Tokens,  \* users and browsers; the session tokens there may be
    NoUser, NoToken, Unlocked,
    LoginLimit,               \* failed logins before an account is blocked (5 in the code)
    MaxAccRequests            \* bound

ASSUME AccountConstants ==
    NoUser \notin Users /\ NoToken \notin Tokens /\ Unlocked \notin AccRequests

VARIABLES
    account,   \* the rows of users; age counts what ends a user's sessions
    override,  \* the row of user_permission_overrides a user has
    rowLock,   \* which transaction holds the row of a user
    sessionRow, \* the rows of sessions
    apiKey,    \* the row of api_keys of a user
    staff,     \* the custom group: whether it exists, and whether it may manage users
    steward,   \* the administrators of an instance
    misses,    \* failed logins the limiter remembers
    web,       \* the requests
    founders,  \* the users the initialisation created
    served     \* requests so far

accVars == <<account, override, rowLock, sessionRow, apiKey, staff, steward, misses, web,
             founders, served>>

Groups == {"super_admin", "admin", "observer", "staff"}

NoRequest == [pc |-> "idle", who |-> NoUser, as |-> "observer", token |-> NoToken,
         target |-> NoUser, group |-> "observer", status |-> "active", grant |-> "none"]

NoAccount == [status |-> "none", group |-> "observer", age |-> 0, gone |-> FALSE]
NoSessionRow == [status |-> "none", user |-> NoUser, since |-> 0]

Founder == [NoAccount EXCEPT !.status = "active", !.group = "super_admin"]

\* An empty database, or one that users have been created in and signed in to.
AccInit ==
    /\ \E there \in [Users -> {NoAccount, Founder}] :
         /\ account = there
         /\ founders = {}
         /\ \E signed \in {s \in [Tokens -> {NoSessionRow} \cup
                                    {[status |-> "live", user |-> u, since |-> 0] : u \in Users}] :
                             \A t \in Tokens : s[t].status = "live" =>
                                                 there[s[t].user] = Founder} :
              sessionRow = signed
    /\ override = [u \in Users |-> "none"]
    /\ rowLock = [u \in Users |-> Unlocked]
    /\ apiKey = [u \in Users |-> "none"]
    /\ staff = [exists |-> FALSE, manages |-> FALSE]
    /\ steward = {}
    /\ misses = [u \in Users |-> 0]
    /\ web = [r \in AccRequests |-> NoRequest]
    /\ served = 0

Exists(u) == account[u].status # "none"
SignsIn(u) == account[u].status = "active" /\ ~account[u].gone
IsSuper(u) == account[u].group = "super_admin" /\ SignsIn(u)

-----------------------------------------------------------------------------
(* Rights.  A request carries the group its user had when it was            *)
(* authenticated; overrides and the permissions of the group are read anew. *)

GroupGrants(g) == g \in {"super_admin", "admin"} \/ (g = "staff" /\ staff.manages)

MayDo(r) ==
    /\ web[r].pc = "known"
    /\ \/ web[r].as = "super_admin"
       \/ override[web[r].who] = "allow"
       \/ override[web[r].who] = "none" /\ GroupGrants(web[r].as)

\* manageableUser, also of a deleted user; and authorizeGroupAssignment.
Manageable(r, u) ==
    /\ Exists(u)
    /\ web[r].as = "super_admin" \/ account[u].group # "super_admin"

Assignable(r, g) ==
    /\ g = "staff" => staff.exists
    /\ web[r].as = "super_admin" \/ g # "super_admin"

-----------------------------------------------------------------------------
(* Signing in.                                                             *)

At(r, pc) == web[r].pc = pc
ReadsOn(r, pc) == [web EXCEPT ![r].pc = pc]
RequestEnds(r) == web' = [web EXCEPT ![r] = NoRequest]

Revokes(S) == [t \in Tokens |-> IF t \in S /\ sessionRow[t].status = "live"
                                THEN [sessionRow[t] EXCEPT !.status = "revoked"]
                                ELSE sessionRow[t]]
TokensOf(u) == {t \in Tokens : sessionRow[t].user = u}

\* handleLogin, LoginOrInitialize: HasUsers.
LoginArrives(r, u) ==
    /\ At(r, "idle") /\ served < MaxAccRequests
    /\ served' = served + 1
    /\ web' = [web EXCEPT ![r] = [NoRequest EXCEPT !.who = u,
                 !.pc = IF \E v \in Users : Exists(v) THEN "login" ELSE "initialise"]]
    /\ UNCHANGED <<account, override, rowLock, sessionRow, apiKey, staff, steward, misses, founders>>

\* CreateInitialAdmin counts again in its serializable transaction; a conflict goes on.
Initialises(r) ==
    /\ At(r, "initialise")
    /\ IF \E v \in Users : Exists(v)
       THEN UNCHANGED <<account, founders>>
       ELSE /\ account' = [account EXCEPT ![web[r].who] = Founder]
            /\ founders' = founders \cup {web[r].who}
    /\ web' = ReadsOn(r, "login")
    /\ UNCHANGED <<override, rowLock, sessionRow, apiKey, staff, steward, misses, served>>

\* The limiter, the row, and the password against the row's hash.
ChecksPassword(r) ==
    LET u == web[r].who IN
    /\ At(r, "login")
    /\ \/ /\ misses[u] >= LoginLimit
          /\ RequestEnds(r) /\ UNCHANGED misses
       \/ /\ misses[u] < LoginLimit
          /\ SignsIn(u)
          /\ web' = ReadsOn(r, "sign_in") /\ UNCHANGED misses
       \/ /\ misses[u] < LoginLimit
          /\ misses' = [misses EXCEPT ![u] = @ + 1]
          /\ RequestEnds(r)
    /\ UNCHANGED <<account, override, rowLock, sessionRow, apiKey, staff, steward, founders, served>>

\* CreateSession does not look at the user again.
OpensSession(r, t) ==
    LET u == web[r].who IN
    /\ At(r, "sign_in")
    /\ sessionRow[t].status = "none"
    /\ sessionRow' = [sessionRow EXCEPT ![t] = [status |-> "live", user |-> u, since |-> account[u].age]]
    /\ web' = [web EXCEPT ![r].pc = "mark", ![r].token = t]
    /\ UNCHANGED <<account, override, rowLock, apiKey, staff, steward, misses, founders, served>>

\* MarkLogin waits for the row; when it fails the sessionRow is revoked.
MarksLogin(r) ==
    /\ At(r, "mark")
    /\ \/ /\ rowLock[web[r].who] = Unlocked
          /\ misses' = [misses EXCEPT ![web[r].who] = 0]
          /\ UNCHANGED sessionRow
       \/ /\ sessionRow' = Revokes({web[r].token})
          /\ UNCHANGED misses
    /\ RequestEnds(r)
    /\ UNCHANGED <<account, override, rowLock, apiKey, staff, steward, founders, served>>

\* The limiter forgets after its window, or with the process.
LimiterForgets(u) ==
    /\ misses[u] > 0
    /\ misses' = [misses EXCEPT ![u] = 0]
    /\ UNCHANGED <<account, override, rowLock, sessionRow, apiKey, staff, steward, web, founders, served>>

\* What has expired authenticates as little as what was revoked.
SessionExpires(t) ==
    /\ sessionRow[t].status = "live"
    /\ sessionRow' = Revokes({t})
    /\ UNCHANGED <<account, override, rowLock, apiKey, staff, steward, misses, web, founders, served>>

-----------------------------------------------------------------------------
(* requireAuth: by a sessionRow, or by an API key.                             *)

RequestComes(r, u, t) ==
    /\ At(r, "idle") /\ served < MaxAccRequests
    /\ SignsIn(u)
    /\ served' = served + 1
    /\ web' = [web EXCEPT ![r] = [NoRequest EXCEPT !.pc = "known", !.who = u, !.token = t,
                                              !.as = account[u].group]]
    /\ UNCHANGED <<account, override, rowLock, sessionRow, apiKey, staff, steward, misses, founders>>

ComesWithSession(r, t) == sessionRow[t].status = "live" /\ RequestComes(r, sessionRow[t].user, t)

ComesWithKey(r, u) == apiKey[u] = "live" /\ RequestComes(r, u, NoToken)

\* What a request decided to do, on what it has read so far.
Decides(r, pc, u, g, s, d) ==
    /\ At(r, "known")
    /\ web' = [web EXCEPT ![r].pc = pc, ![r].target = u, ![r].group = g,
                          ![r].status = s, ![r].grant = d]
    /\ UNCHANGED <<account, override, rowLock, sessionRow, apiKey, staff, steward, misses,
                   founders, served>>

AsksUpdate(r, u, g, s) ==
    /\ MayDo(r) /\ Manageable(r, u)
    /\ account[u].group # g => Assignable(r, g)
    /\ u = web[r].who => s = "active"
    /\ Decides(r, "update", u, g, s, "none")

AsksDelete(r, u) ==
    /\ MayDo(r) /\ Manageable(r, u) /\ u # web[r].who
    /\ Decides(r, "delete", u, "observer", "deleted", "none")

AsksCreate(r, u, g) ==
    /\ MayDo(r) /\ Assignable(r, g)
    /\ Decides(r, "create", u, g, "active", "none")

\* A reset by a manager; or the user's own change, whose sessionRow is kept.
AsksPassword(r, u) ==
    /\ MayDo(r) /\ Manageable(r, u)
    /\ Decides(r, "password", u, "observer", "active", "none")
ChangesOwnPassword(r) == Decides(r, "own_password", web[r].who, "observer", "active", "none")

AsksSignOut(r, u) ==
    /\ MayDo(r) /\ Manageable(r, u)
    /\ Decides(r, "sign_out", u, "observer", "active", "none")

\* API keys are for super administrators and administrators.
AsksKey(r, u, pc) ==
    /\ pc \in {"key", "rotate", "revoke"}
    /\ web[r].as \in {"super_admin", "admin"} /\ Manageable(r, u)
    /\ Decides(r, pc, u, "observer", "active", "none")

\* SetUserPermissions: what differs from the group the user is read in.
AsksPermission(r, u, wanted) ==
    /\ web[r].as = "super_admin" /\ Exists(u) /\ account[u].group # "super_admin"
    /\ Decides(r, "override", u, "observer", "active",
               CASE wanted = GroupGrants(account[u].group) -> "none"
                 [] wanted -> "allow"
                 [] OTHER -> "deny")

\* Groups are managed by super administrators; a group somebody is in is not deleted.
AsksGroup(r, pc, manages) ==
    /\ pc \in {"save_group", "drop_group"}
    /\ web[r].as = "super_admin"
    /\ pc = "drop_group" =>
         staff.exists /\ \A u \in Users : account[u].group = "staff" => account[u].gone
    /\ Decides(r, pc, NoUser, "staff", "active", IF manages THEN "allow" ELSE "none")

AsksSteward(r, u) == MayDo(r) /\ Decides(r, "steward", u, "observer", "active", "none")

Logout(r) ==
    /\ At(r, "known")
    /\ sessionRow' = Revokes({web[r].token})
    /\ RequestEnds(r)
    /\ UNCHANGED <<account, override, rowLock, apiKey, staff, steward, misses, founders, served>>

-----------------------------------------------------------------------------
(* UpdateUser and DeleteUser: the user's row is locked; taking away an      *)
(* active super administrator locks all of them and counts the others.      *)

LocksUser(r) ==
    LET u == web[r].target  row == account[u] IN
    /\ web[r].pc \in {"update", "delete"}
    /\ rowLock[u] = Unlocked
    /\ rowLock' = [rowLock EXCEPT ![u] = r]
    /\ web' = ReadsOn(r, CASE row.group = "super_admin" /\ row.status = "active" /\
                              (web[r].group # "super_admin" \/ web[r].status # "active") -> "others"
                        [] OTHER -> "commit")
    /\ UNCHANGED <<account, override, sessionRow, apiKey, staff, steward, misses, founders, served>>

Released(r) == [u \in Users |-> IF rowLock[u] = r THEN Unlocked ELSE rowLock[u]]

\* Mutant: it reads without FOR UPDATE.
LocksOthersUnlocked(r) ==
    LET admins == {u \in Users : IsSuper(u)} IN
    /\ At(r, "others")
    /\ IF admins \subseteq {web[r].target}
       THEN rowLock' = Released(r) /\ RequestEnds(r)
       ELSE rowLock' = rowLock /\ web' = ReadsOn(r, "commit")
    /\ UNCHANGED <<account, override, sessionRow, apiKey, staff, steward, misses, founders, served>>

\* ensureAnotherSuperAdmin reads FOR UPDATE: it waits for every such row.
LocksOthers(r) ==
    LET admins == {u \in Users : IsSuper(u)} IN
    /\ At(r, "others")
    /\ \A u \in admins : rowLock[u] \in {Unlocked, r}
    /\ IF admins \subseteq {web[r].target}
       THEN rowLock' = Released(r) /\ RequestEnds(r)
       ELSE /\ rowLock' = [u \in Users |-> IF u \in admins THEN r ELSE rowLock[u]]
            /\ web' = ReadsOn(r, "commit")
    /\ UNCHANGED <<account, override, sessionRow, apiKey, staff, steward, misses, founders, served>>

\* The row, the overrides of another group, the sessions of a user who may not sign in.
CommitsUser(r) ==
    LET u == web[r].target  row == account[u]
        out == web[r].status # "active" IN
    /\ At(r, "commit")
    /\ web[r].group = "staff" => staff.exists
    /\ account' = [account EXCEPT ![u] = [row EXCEPT !.group = web[r].group,
                     !.status = web[r].status,
                     !.gone = @ \/ web[r].status = "deleted",
                     !.age = IF out THEN @ + 1 ELSE @]]
    /\ override' = IF row.group # web[r].group \/ web[r].status = "deleted"
                   THEN [override EXCEPT ![u] = "none"] ELSE override
    /\ sessionRow' = IF out THEN Revokes(TokensOf(u)) ELSE sessionRow
    /\ rowLock' = Released(r)
    /\ RequestEnds(r)
    /\ UNCHANGED <<apiKey, staff, steward, misses, founders, served>>

-----------------------------------------------------------------------------
(* What one transaction or statement does at once.                          *)

\* insertUser: the name is unique, the group a foreign key.
CreatesUser(r) ==
    LET u == web[r].target IN
    /\ At(r, "create")
    /\ account' = IF ~Exists(u) /\ (web[r].group = "staff" => staff.exists)
                  THEN [account EXCEPT ![u] = [NoAccount EXCEPT !.status = "active",
                                                                !.group = web[r].group]]
                  ELSE account
    /\ RequestEnds(r)
    /\ UNCHANGED <<override, rowLock, sessionRow, apiKey, staff, steward, misses, founders, served>>

\* SetPassword: the hash and the sessions in one transaction.
SetsPassword(r) ==
    LET u == web[r].target
        kept == IF At(r, "own_password") THEN {web[r].token} ELSE {} IN
    /\ web[r].pc \in {"password", "own_password"}
    /\ rowLock[u] = Unlocked
    /\ IF account[u].gone THEN UNCHANGED <<account, sessionRow>>
       ELSE /\ account' = [account EXCEPT ![u].age = @ + 1]
            /\ sessionRow' = [t \in Tokens |->
                 IF t \in kept /\ sessionRow[t].status = "live"
                 THEN [sessionRow[t] EXCEPT !.since = account[u].age + 1]
                 ELSE Revokes(TokensOf(u))[t]]
    /\ RequestEnds(r)
    /\ UNCHANGED <<override, rowLock, apiKey, staff, steward, misses, founders, served>>

RevokesSessions(r) ==
    /\ At(r, "sign_out")
    /\ sessionRow' = Revokes(TokensOf(web[r].target))
    /\ RequestEnds(r)
    /\ UNCHANGED <<account, override, rowLock, apiKey, staff, steward, misses, founders, served>>

\* saveAPIKey: one key per user, for users who may sign in; a revoked row stays.
SavesKey(r) ==
    LET u == web[r].target IN
    /\ web[r].pc \in {"key", "rotate", "revoke"}
    /\ At(r, "revoke") \/ rowLock[u] = Unlocked
    /\ apiKey' = [apiKey EXCEPT ![u] =
         CASE At(r, "revoke") -> IF @ = "live" THEN "revoked" ELSE @
           [] SignsIn(u) /\ (At(r, "rotate") \/ @ = "none") -> "live"
           [] OTHER -> @]
    /\ RequestEnds(r)
    /\ UNCHANGED <<account, override, rowLock, sessionRow, staff, steward, misses, founders, served>>

SavesOverride(r) ==
    /\ At(r, "override")
    /\ override' = [override EXCEPT ![web[r].target] = web[r].grant]
    /\ RequestEnds(r)
    /\ UNCHANGED <<account, rowLock, sessionRow, apiKey, staff, steward, misses, founders, served>>

SavesGroup(r) ==
    /\ At(r, "save_group")
    /\ staff' = [exists |-> TRUE, manages |-> web[r].grant = "allow"]
    /\ RequestEnds(r)
    /\ UNCHANGED <<account, override, rowLock, sessionRow, apiKey, steward, misses, founders, served>>

\* The foreign key of users refuses the rest.
DropsGroup(r) ==
    /\ At(r, "drop_group")
    /\ staff' = IF \E u \in Users : account[u].group = "staff" THEN staff
                ELSE [exists |-> FALSE, manages |-> FALSE]
    /\ RequestEnds(r)
    /\ UNCHANGED <<account, override, rowLock, sessionRow, apiKey, steward, misses, founders, served>>

\* SetInstanceAdmins locks the users it assigns and refuses those who cannot sign in.
SetsSteward(r) ==
    LET u == web[r].target IN
    /\ At(r, "steward")
    /\ rowLock[u] = Unlocked
    /\ steward' = IF SignsIn(u) THEN {u} ELSE steward
    /\ RequestEnds(r)
    /\ UNCHANGED <<account, override, rowLock, sessionRow, apiKey, staff, misses, founders, served>>

-----------------------------------------------------------------------------
\* Permission refused, the browser gone, a statement failed, a deadlock broken: what was
\* not committed is rolled back.
RequestErrs(r) ==
    /\ ~At(r, "idle")
    /\ rowLock' = Released(r)
    /\ RequestEnds(r)
    /\ UNCHANGED <<account, override, sessionRow, apiKey, staff, steward, misses, founders, served>>

BeginsRequest(r) ==
    \/ \E u \in Users :
         \/ \E g \in Groups, s \in {"active", "disabled"} : AsksUpdate(r, u, g, s)
         \/ AsksDelete(r, u)
         \/ \E g \in Groups : AsksCreate(r, u, g)
         \/ AsksPassword(r, u)
         \/ AsksSignOut(r, u)
         \/ \E pc \in {"key", "rotate", "revoke"} : AsksKey(r, u, pc)
         \/ \E wanted \in BOOLEAN : AsksPermission(r, u, wanted)
         \/ AsksSteward(r, u)
    \/ ChangesOwnPassword(r)
    \/ \E pc \in {"save_group", "drop_group"}, manages \in BOOLEAN : AsksGroup(r, pc, manages)

Writes(r) ==
    \/ LocksUser(r) \/ LocksOthers(r) \/ CommitsUser(r)
    \/ CreatesUser(r) \/ SetsPassword(r) \/ RevokesSessions(r) \/ SavesKey(r)
    \/ SavesOverride(r) \/ SavesGroup(r) \/ DropsGroup(r) \/ SetsSteward(r)

AccNext ==
    \/ \E r \in AccRequests :
         \/ \E u \in Users : LoginArrives(r, u) \/ ComesWithKey(r, u)
         \/ \E t \in Tokens : OpensSession(r, t) \/ ComesWithSession(r, t)
         \/ Initialises(r) \/ ChecksPassword(r) \/ MarksLogin(r)
         \/ BeginsRequest(r) \/ Logout(r) \/ Writes(r) \/ RequestErrs(r)
    \/ \E u \in Users : LimiterForgets(u)
    \/ \E t \in Tokens : SessionExpires(t)

AccSpec == AccInit /\ [][AccNext]_accVars

-----------------------------------------------------------------------------
(* Properties.                                                             *)

\* Whatever transactions overlap, from the first user on there is a super administrator
\* who can sign in, and only one user is created by initialisation
\* (store/users.go:25-46 and 236-262).
LastSuperAdminStays ==
    /\ (\E u \in Users : Exists(u)) => \E u \in Users : IsSuper(u)
    /\ \A u, v \in founders : u = v

\* A session that was open when the user's password was changed, or the user disabled or
\* deleted, does not authenticate again, not even when the user is enabled later; only the
\* session that changed the password stays (SetPassword, UpdateUser, DeleteUser).
SessionsEndTogether ==
    \A t \in Tokens : sessionRow[t].status = "live" =>
        sessionRow[t].since = account[sessionRow[t].user].age

\* Nobody is locked out of the panel, and nobody who should be is left in it.
AccessIsKept == LastSuperAdminStays /\ SessionsEndTogether
=============================================================================
