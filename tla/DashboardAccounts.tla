------------------------- MODULE DashboardAccounts -------------------------
(***************************************************************************)
(* The dashboard's accounts: the SQLite file they are kept in, its         *)
(* creation from the older credential file, the sessions in memory, and    *)
(* the handlers, which check a request before they take the               *)
(* authenticator's mutex and check it again under it.  A password stands   *)
(* for its salted verifier.                                                *)
(***************************************************************************)
EXTENDS Integers, FiniteSets, Functions

CONSTANTS
    Names, Passwords, Roles, Settings, \* usernames, passwords, roles, settings
    BootstrapName, BootstrapPassword,  \* the operator's credentials
    LegacyName, LegacyPassword,        \* the older file's account
    HasLegacy,                         \* whether there is an older file
    None,                              \* no file
    MaxTokens, MaxPending, MaxCrashes  \* bounds

\* What the file can hold: accounts by name, and the settings.
Accounts == [role : Roles, disabled : BOOLEAN, mustChange : BOOLEAN, password : Passwords]
UserTables == UNION {[known -> Accounts] : known \in SUBSET Names}
Stores == [users : UserTables, settings : Settings]

ASSUME AccountsAssumption ==
    /\ {BootstrapName, LegacyName} \subseteq Names
    /\ {BootstrapPassword, LegacyPassword} \subseteq Passwords
    /\ "admin" \in Roles /\ HasLegacy \in BOOLEAN
    /\ Settings # {} /\ None \notin Stores

VARIABLES
    server,    \* "down", "prepared", "renamed" or "up"
    legacy,    \* whether dashboard-credentials.json is there
    temp,      \* the temporary file of PrepareDashboardCredentials
    store,     \* admin.sqlite: [users, settings]
    users,     \* dashboardAuthenticator.users
    settings,  \* dashboardAuthenticator.settings
    sessions,  \* dashboardAuthenticator.sessions: token -> [username, account]
    tokens,    \* the tokens issued so far
    pending,   \* requests between their first check and the mutex
    crashes

vars == <<server, legacy, temp, store, users, settings, sessions, tokens, pending, crashes>>
files == <<legacy, temp, store>>
memory == <<users, settings, sessions>>

Account(role, disabled, mustChange, password) ==
    [role |-> role, disabled |-> disabled, mustChange |-> mustChange, password |-> password]

defaultDashboardSettings == CHOOSE s \in Settings : TRUE
Snapshot(us, st) == [users |-> us, settings |-> st]
NoUsers == [n \in {} |-> None]
Put(f, x, value) == [y \in DOMAIN f \cup {x} |-> IF y = x THEN value ELSE f[y]]

\* newDashboardAuthenticator: one administrator.
newDashboardAuthenticator(username, password, bootstrap) ==
    Snapshot([n \in {username} |-> Account("admin", FALSE, bootstrap, password)], defaultDashboardSettings)

Init ==
    /\ server = "down" /\ legacy = HasLegacy /\ temp = None /\ store = None
    /\ users = NoUsers /\ settings = defaultDashboardSettings /\ sessions = NoUsers
    /\ tokens = 0 /\ pending = {} /\ crashes = 0

-----------------------------------------------------------------------------
(* The store *)

ActiveAdmin(u) == u.role = "admin" /\ ~u.disabled
ActiveAdmins(us) == {n \in DOMAIN us : ActiveAdmin(us[n])}

\* loadDashboardAuthenticator.
loadDashboardAuthenticator ==
    /\ server' = "up" /\ users' = store.users /\ settings' = store.settings
    /\ sessions' = NoUsers

\* PrepareDashboardCredentials up to the temporary file.
Prepare ==
    /\ server = "down" /\ store = None
    /\ server' = "prepared"
    /\ temp' = IF legacy THEN newDashboardAuthenticator(LegacyName, LegacyPassword, FALSE)
               ELSE newDashboardAuthenticator(BootstrapName, BootstrapPassword, TRUE)
    /\ UNCHANGED <<legacy, store, memory, tokens, pending, crashes>>

\* Mutant: the older file is removed before the new one is in place.
RenameLast ==
    /\ server = "prepared" /\ legacy' = FALSE
    /\ IF legacy THEN UNCHANGED <<server, temp, store>>
       ELSE server' = "renamed" /\ store' = temp /\ temp' = None
    /\ UNCHANGED <<memory, tokens, pending, crashes>>

Rename ==
    /\ server = "prepared"
    /\ server' = "renamed" /\ store' = temp /\ temp' = None
    /\ UNCHANGED <<legacy, memory, tokens, pending, crashes>>

RemoveLegacy ==
    /\ server = "renamed"
    /\ legacy' = FALSE
    /\ loadDashboardAuthenticator
    /\ UNCHANGED <<temp, store, tokens, pending, crashes>>

\* A start that finds the file, which needs an active administrator in it.
Start ==
    /\ server = "down" /\ store # None /\ ActiveAdmins(store.users) # {}
    /\ loadDashboardAuthenticator
    /\ UNCHANGED <<files, tokens, pending, crashes>>

\* The process stops; a temporary file left behind is not looked at again.
Stopped ==
    /\ crashes < MaxCrashes /\ crashes' = crashes + 1
    /\ server' = "down" /\ users' = NoUsers /\ settings' = defaultDashboardSettings
    /\ sessions' = NoUsers /\ temp' = None
    /\ UNCHANGED <<legacy, tokens>>

Crash == server # "down" /\ Stopped /\ pending' = {} /\ UNCHANGED store

-----------------------------------------------------------------------------
(* Sessions *)

\* authenticate, the check that login and a password change repeat.
authenticate(name, password) ==
    name \in DOMAIN users /\ ~users[name].disabled /\ users[name].password = password

\* session: the token is known and its user can still sign in.
session(t) ==
    /\ t \in DOMAIN sessions /\ sessions[t].username \in DOMAIN users
    /\ ~users[sessions[t].username].disabled

\* The account is the one that the holder of the token has shown to be theirs.
issueDashboardSession(ss, name, account) ==
    /\ tokens < MaxTokens /\ tokens' = tokens + 1
    /\ sessions' = Put(ss, tokens + 1, [username |-> name, account |-> account])

revokeUserSessions(ss, name) ==
    Restrict(ss, {t \in DOMAIN ss : ss[t].username # name})

Without(ss, t) == Restrict(ss, DOMAIN ss \ {t})

Request(kind, t, name, password) ==
    [kind |-> kind, token |-> t, name |-> name, password |-> password,
     account |-> users[name], pc |-> "checked"]
Receives(request) ==
    /\ server = "up" /\ Cardinality(pending) < MaxPending
    /\ pending' = pending \cup {request}
    /\ UNCHANGED <<server, files, memory, tokens, crashes>>

\* The request is answered, or lost with the process.
Handled(p) == pending' = IF server' = "up" THEN pending \ {p} ELSE {}

\* dashboardLogin before the mutex.
LoginCheck(name, password) ==
    authenticate(name, password) /\ Receives(Request("login", 0, name, password))

\* dashboardLogin under the mutex.
Login(p) ==
    /\ p.kind = "login"
    /\ IF authenticate(p.name, p.password)
       THEN issueDashboardSession(sessions, p.name, users[p.name]) ELSE UNCHANGED <<sessions, tokens>>
    /\ UNCHANGED <<server, files, users, settings, crashes>>
    /\ Handled(p)

\* The handlers of a session, before the mutex.
SessionCheck(kind, t, password) ==
    session(t) /\ Receives(Request(kind, t, sessions[t].username, password))

Logout(p) ==
    /\ p.kind = "logout"
    /\ sessions' = Without(sessions, p.token)
    /\ UNCHANGED <<server, files, users, settings, tokens, crashes>>
    /\ Handled(p)

\* Mutant: a session that was revoked since it was checked is renewed.
RefreshUnchecked(p) ==
    /\ p.kind = "refresh"
    /\ issueDashboardSession(Without(sessions, p.token), p.name, p.account)
    /\ UNCHANGED <<server, files, users, settings, crashes>>
    /\ Handled(p)

\* dashboardRefreshSession under the mutex.
Refresh(p) ==
    /\ p.kind = "refresh"
    /\ IF p.token \in DOMAIN sessions
       THEN issueDashboardSession(Without(sessions, p.token), p.name, p.account)
       ELSE UNCHANGED <<sessions, tokens>>
    /\ UNCHANGED <<server, files, users, settings, crashes>>
    /\ Handled(p)

\* The time of a session is over.
Expire(t) ==
    /\ server = "up" /\ t \in DOMAIN sessions
    /\ sessions' = Without(sessions, t)
    /\ UNCHANGED <<server, files, users, settings, tokens, pending, crashes>>

-----------------------------------------------------------------------------
(* Changes *)

\* Mutant: a change that could not be stored stays in force.
ChangeStays(us, st) == users' = us /\ settings' = st

\* A change that could not be stored is taken back.
TakenBack(us, st) == UNCHANGED <<users, settings>>

\* persist: the transaction commits and the handler goes on to Done, or the
\* process ends after the commit; or it fails, and the handler takes its
\* change back.
persist(us, st, Done) ==
    \/ /\ store' = Snapshot(us, st) /\ users' = us /\ settings' = st
       /\ Done
       /\ UNCHANGED <<server, legacy, temp, crashes>>
    \/ store' = Snapshot(us, st) /\ Stopped
    \/ /\ TakenBack(us, st)
       /\ UNCHANGED <<server, files, sessions, tokens, crashes>>

Refuses == UNCHANGED <<server, files, memory, tokens, crashes>>

\* dashboardChangePassword: authenticate, without the mutex.
VerifyCurrent(p) ==
    /\ p.kind = "change" /\ p.pc = "checked"
    /\ pending' = (pending \ {p}) \cup
          IF authenticate(p.name, p.password) THEN {[p EXCEPT !.pc = "verified"]} ELSE {}
    /\ UNCHANGED <<server, files, memory, tokens, crashes>>

\* dashboardChangePassword under the mutex.
Changed(p, password) ==
    [users EXCEPT ![p.name] = [@ EXCEPT !.password = password, !.mustChange = FALSE]]
ChangeAllowed(p) == p.token \in DOMAIN sessions /\ authenticate(p.name, p.password)

ChangePassword(p, password) ==
    /\ p.kind = "change" /\ p.pc = "verified"
    /\ IF ~ChangeAllowed(p) THEN Refuses
       ELSE LET us == Changed(p, password) IN
            persist(us, settings,
                    issueDashboardSession(revokeUserSessions(sessions, p.name), p.name, us[p.name]))
    /\ Handled(p)

\* dashboardAdmin, and the same under the mutex: an administrator whose
\* password is not to be changed.
Administers(t) ==
    /\ session(t)
    /\ LET u == users[sessions[t].username] IN u.role = "admin" /\ ~u.mustChange

AdminCheck(t) == Administers(t) /\ SessionCheck("admin", t, BootstrapPassword)

\* The refusals of dashboardUsers for a change of name's account to u.
Removes(old, method, u) == ActiveAdmin(old) /\ (method = "DELETE" \/ ~ActiveAdmin(u))

Allowed(actor, name, method, u) ==
    /\ IF method = "POST" THEN name \notin DOMAIN users ELSE name \in DOMAIN users
    /\ ~(name = actor /\ (method = "DELETE" \/ ~ActiveAdmin(u)))
    /\ ~(name \in DOMAIN users /\ Removes(users[name], method, u) /\ Cardinality(ActiveAdmins(users)) <= 1)

\* The account that a request makes of name: a password that is given is to
\* be changed at the next sign-in, an update without one keeps the old.
Requested(name, method, role, disabled, password) ==
    IF password # None THEN Account(role, disabled, TRUE, password)
    ELSE [users[name] EXCEPT !.role = role, !.disabled = disabled]

\* dashboardUsers under the mutex.
WithUser(name, method, u) ==
    IF method = "DELETE" THEN Restrict(users, DOMAIN users \ {name}) ELSE Put(users, name, u)

EditUser(p, name, method, role, disabled, password) ==
    LET u == Requested(name, method, role, disabled, password)
        us == WithUser(name, method, u)
    IN  /\ p.kind = "admin"
        /\ name \in DOMAIN users \/ password # None
        /\ method = "POST" => password # None
        /\ IF Administers(p.token) /\ Allowed(p.name, name, method, u)
           THEN persist(us, settings,
                   sessions' = revokeUserSessions(sessions, name) /\ UNCHANGED tokens)
           ELSE Refuses
        /\ Handled(p)

\* dashboardSettingsHandler under the mutex.
EditSettings(p, st) ==
    /\ p.kind = "admin"
    /\ IF Administers(p.token) THEN persist(users, st, UNCHANGED <<sessions, tokens>>) ELSE Refuses
    /\ Handled(p)

Next ==
    \/ Prepare \/ Rename \/ RemoveLegacy \/ Start \/ Crash
    \/ \E n \in Names, password \in Passwords : LoginCheck(n, password)
    \/ \E t \in DOMAIN sessions :
          \/ Expire(t) \/ AdminCheck(t)
          \/ \E kind \in {"logout", "refresh"} : SessionCheck(kind, t, BootstrapPassword)
          \/ \E password \in Passwords : SessionCheck("change", t, password)
    \/ \E p \in pending :
          \/ Login(p) \/ Logout(p) \/ Refresh(p) \/ VerifyCurrent(p)
          \/ \E password \in Passwords : ChangePassword(p, password)
          \/ \E st \in Settings : EditSettings(p, st)
          \/ \E name \in Names, method \in {"POST", "PUT", "DELETE"}, role \in Roles,
                disabled \in BOOLEAN, password \in Passwords \cup {None} :
                EditUser(p, name, method, role, disabled, password)

Spec == Init /\ [][Next]_vars

-----------------------------------------------------------------------------
(* Properties *)

\* A restart at any moment finds an active administrator, and exactly the
\* accounts and settings by which the running server decides: a change that
\* was answered as failed is neither in force nor stored by a later one.
RestartKeepsAccounts ==
    /\ store # None => ActiveAdmins(store.users) # {}
    /\ server = "up" => store = Snapshot(users, settings)

\* No session outlives a change of its account: whatever changes, refreshes
\* and sign-ins overlap, the account of a session is what it was when the
\* session was issued, so that no token carries a revoked right.
SessionsCurrent ==
    \A t \in DOMAIN sessions :
        /\ sessions[t].username \in DOMAIN users
        /\ users[sessions[t].username] = sessions[t].account

\* The operator's credentials make an account only on a node that never had
\* one: an interrupted import is repeated from the older file.
MigrationKeepsVerifier ==
    [][store = None /\ store' # None /\ HasLegacy =>
         /\ DOMAIN store'.users = {LegacyName}
         /\ store'.users[LegacyName].password = LegacyPassword]_vars
=============================================================================
