---------------------- MODULE DashboardAccountsProofs ----------------------
(***************************************************************************)
(* Theorems about DashboardAccounts, for any names, passwords, roles,      *)
(* settings and bounds, with or without an older credential file.          *)
(***************************************************************************)
EXTENDS DashboardAccounts, TLAPS

-----------------------------------------------------------------------------
(* The inductive invariant *)

Grants == [username : Names, account : Accounts]
Requests == [kind : {"login", "logout", "refresh", "change", "admin"}, token : Nat, name : Names,
             password : Passwords, account : Accounts, pc : {"checked", "verified"}]

\* What the variables hold; a token is a number that was issued.
TypeOK ==
    /\ server \in {"down", "prepared", "renamed", "up"} /\ legacy \in BOOLEAN
    /\ store \in Stores \cup {None}
    /\ users \in UserTables /\ settings \in Settings
    /\ tokens \in Nat /\ DOMAIN sessions \subseteq 1..tokens
    /\ sessions \in [DOMAIN sessions -> Grants]
    /\ pending \subseteq Requests /\ crashes \in Nat

\* The files, through the creation of the store: until it is in place the older
\* file is untouched and decides what the store will hold.
FilesInv ==
    /\ store = None => legacy = HasLegacy
    /\ server = "prepared" =>
          /\ store = None
          /\ temp = IF legacy THEN newDashboardAuthenticator(LegacyName, LegacyPassword, FALSE)
                    ELSE newDashboardAuthenticator(BootstrapName, BootstrapPassword, TRUE)
    /\ server = "renamed" => store # None

\* A request between its check and the mutex whose token is still known speaks
\* for the account of that session.
PendingInv ==
    \A p \in pending :
        /\ server = "up" /\ p.token <= tokens
        /\ p.token \in DOMAIN sessions =>
              p.name = sessions[p.token].username /\ p.account = sessions[p.token].account

AccountsInv == TypeOK /\ FilesInv /\ RestartKeepsAccounts /\ SessionsCurrent /\ PendingInv

-----------------------------------------------------------------------------
(* Tables *)

\* A table of accounts is a function from some of the names.
LEMMA TableType ==
    ASSUME NEW us
    PROVE  us \in UserTables <=> DOMAIN us \subseteq Names /\ us \in [DOMAIN us -> Accounts]
  BY DEF UserTables

\* Setting an account (dashboardUsers) changes that account and no other.
LEMMA PutTable ==
    ASSUME NEW us \in UserTables, NEW n \in Names, NEW u \in Accounts
    PROVE  /\ Put(us, n, u) \in UserTables /\ DOMAIN Put(us, n, u) = DOMAIN us \cup {n}
           /\ Put(us, n, u)[n] = u
           /\ \A m \in DOMAIN us \ {n} : Put(us, n, u)[m] = us[m]
<1>1. DOMAIN us \subseteq Names /\ us \in [DOMAIN us -> Accounts]
  BY TableType
<1>2. Put(us, n, u) \in [DOMAIN us \cup {n} -> Accounts]
  BY <1>1 DEF Put
<1>3. DOMAIN us \cup {n} \in SUBSET Names
  BY <1>1
<1> QED BY <1>1, <1>2, <1>3 DEF UserTables, Put

\* Deleting an account keeps the others.
LEMMA CutTable ==
    ASSUME NEW us \in UserTables, NEW n
    PROVE  /\ Restrict(us, DOMAIN us \ {n}) \in UserTables
           /\ DOMAIN Restrict(us, DOMAIN us \ {n}) = DOMAIN us \ {n}
           /\ \A m \in DOMAIN us \ {n} : Restrict(us, DOMAIN us \ {n})[m] = us[m]
<1>1. DOMAIN us \subseteq Names /\ us \in [DOMAIN us -> Accounts]
  BY TableType
<1>2. Restrict(us, DOMAIN us \ {n}) \in [DOMAIN us \ {n} -> Accounts]
  BY <1>1 DEF Restrict
<1>3. DOMAIN us \ {n} \in SUBSET Names
  BY <1>1
<1> QED BY <1>1, <1>2, <1>3 DEF UserTables, Restrict

\* A first store holds one active administrator (newDashboardAuthenticator).
LEMMA FirstStore ==
    ASSUME NEW n \in Names, NEW password \in Passwords, NEW bootstrap \in BOOLEAN,
           NEW r, r = newDashboardAuthenticator(n, password, bootstrap)
    PROVE  /\ r \in Stores /\ ActiveAdmins(r.users) # {}
           /\ DOMAIN r.users = {n} /\ r.users[n].password = password
<1> DEFINE u == Account("admin", FALSE, bootstrap, password)
           us == [m \in {n} |-> u]
<1>1. u \in Accounts /\ ActiveAdmin(u) /\ u.password = password
  BY AccountsAssumption DEF Accounts, Account, ActiveAdmin
<1>2. us \in UserTables /\ DOMAIN us = {n} /\ us[n] = u
  BY <1>1, TableType
<1>3. defaultDashboardSettings \in Settings
  BY AccountsAssumption DEF defaultDashboardSettings
<1>4. r = [users |-> us, settings |-> defaultDashboardSettings]
  BY DEF newDashboardAuthenticator, Snapshot
<1>5. n \in ActiveAdmins(us)
  BY <1>1, <1>2 DEF ActiveAdmins
<1>6. r.users = us /\ r \in Stores
  BY <1>2, <1>3, <1>4 DEF Stores
<1> HIDE DEF u, us
<1> QED BY <1>1, <1>2, <1>5, <1>6

\* What is written is a store, and differs from none.
LEMMA SnapshotType ==
    ASSUME NEW us \in UserTables, NEW st \in Settings
    PROVE  /\ Snapshot(us, st) \in Stores /\ Snapshot(us, st) # None
           /\ Snapshot(us, st).users = us /\ Snapshot(us, st).settings = st
  BY AccountsAssumption DEF Snapshot, Stores

\* The state of a process that is not running.
LEMMA Nothing ==
    /\ NoUsers \in UserTables /\ DOMAIN NoUsers = {} /\ NoUsers \in [DOMAIN NoUsers -> Grants]
    /\ defaultDashboardSettings \in Settings
<1>1. DOMAIN NoUsers = {} /\ NoUsers \in [{} -> Accounts] /\ NoUsers \in [{} -> Grants]
  BY DEF NoUsers
<1>2. defaultDashboardSettings \in Settings
  BY AccountsAssumption DEF defaultDashboardSettings
<1> QED BY <1>1, <1>2 DEF UserTables

\* The initial state satisfies the invariant.
LEMMA InitAccounts == Init => AccountsInv
<1> SUFFICES ASSUME Init PROVE AccountsInv
  OBVIOUS
<1> USE DEF Init
<1>1. TypeOK
  BY AccountsAssumption, Nothing DEF TypeOK
<1>2. FilesInv /\ RestartKeepsAccounts /\ PendingInv
  BY DEF FilesInv, RestartKeepsAccounts, PendingInv
<1>3. SessionsCurrent
  BY Nothing DEF SessionsCurrent
<1> QED BY <1>1, <1>2, <1>3 DEF AccountsInv

-----------------------------------------------------------------------------
(* Starting and stopping *)

\* PrepareDashboardCredentials writes what the older file, or its absence, says.
LEMMA PrepareStep == ASSUME AccountsInv, Prepare PROVE AccountsInv'
<1> USE DEF AccountsInv, Prepare, memory
<1>1. TypeOK'
  BY DEF TypeOK
<1>2. FilesInv' /\ RestartKeepsAccounts' /\ SessionsCurrent'
  BY DEF FilesInv, RestartKeepsAccounts, SessionsCurrent
<1>3. PendingInv'
  BY DEF PendingInv
<1> QED BY <1>1, <1>2, <1>3

\* The rename puts a store with an active administrator in place.
LEMMA RenameStep == ASSUME AccountsInv, Rename PROVE AccountsInv'
<1> USE DEF AccountsInv, Rename, memory
<1>1. temp \in Stores /\ ActiveAdmins(temp.users) # {} /\ temp # None
  <2>1. CASE legacy
    <3>1. temp = newDashboardAuthenticator(LegacyName, LegacyPassword, FALSE)
      BY <2>1 DEF FilesInv
    <3> QED BY <3>1, FirstStore, AccountsAssumption
  <2>2. CASE ~legacy
    <3>1. temp = newDashboardAuthenticator(BootstrapName, BootstrapPassword, TRUE)
      BY <2>2 DEF FilesInv
    <3> QED BY <3>1, FirstStore, AccountsAssumption
  <2> QED BY <2>1, <2>2
<1>2. TypeOK'
  BY <1>1 DEF TypeOK
<1>3. FilesInv' /\ RestartKeepsAccounts' /\ SessionsCurrent' /\ PendingInv'
  BY <1>1 DEF FilesInv, RestartKeepsAccounts, SessionsCurrent, PendingInv
<1> QED BY <1>2, <1>3

\* loadDashboardAuthenticator takes over what the store holds, without sessions.
LEMMA LoadStep ==
    ASSUME AccountsInv, store # None, server # "up", loadDashboardAuthenticator,
           legacy' \in BOOLEAN, UNCHANGED <<store, tokens, pending, crashes>>
    PROVE  AccountsInv'
<1> USE DEF AccountsInv, loadDashboardAuthenticator
<1>1. store \in Stores
  BY DEF TypeOK
<1>2. /\ store.users \in UserTables /\ store.settings \in Settings
      /\ store = Snapshot(store.users, store.settings)
  BY <1>1 DEF Stores, Snapshot
<1>3. TypeOK'
  BY <1>2, Nothing DEF TypeOK
<1>4. FilesInv' /\ RestartKeepsAccounts'
  BY <1>2 DEF FilesInv, RestartKeepsAccounts
<1>5. SessionsCurrent'
  BY Nothing DEF SessionsCurrent
<1>6. PendingInv'
  BY DEF PendingInv
<1> QED BY <1>3, <1>4, <1>5, <1>6

\* Nothing of a stopped process is left in memory; the store may be what it was
\* or what the interrupted request had committed.
LEMMA StoppedStep ==
    ASSUME AccountsInv, Stopped, server # "down" \/ store # None,
           store' \in Stores \cup {None}, store' = None => store = None,
           store' # None => ActiveAdmins(store'.users) # {}, pending' = {}
    PROVE  AccountsInv'
<1> USE DEF AccountsInv, Stopped
<1>1. TypeOK'
  BY Nothing DEF TypeOK
<1>2. FilesInv' /\ RestartKeepsAccounts'
  BY DEF FilesInv, RestartKeepsAccounts
<1>3. SessionsCurrent'
  BY Nothing DEF SessionsCurrent
<1>4. PendingInv'
  BY DEF PendingInv
<1> QED BY <1>1, <1>2, <1>3, <1>4

-----------------------------------------------------------------------------
(* Sessions *)

\* A step that leaves a session alone leaves it as it was; others are new.
SessionsKept ==
    /\ tokens' \in Nat /\ tokens' >= tokens
    /\ \A t \in DOMAIN sessions' :
          t > tokens \/ (t \in DOMAIN sessions /\ sessions'[t] = sessions[t])

\* The part of the invariant that is about the sessions.
SessionsInv ==
    /\ DOMAIN sessions \subseteq 1..tokens /\ sessions \in [DOMAIN sessions -> Grants]
    /\ SessionsCurrent

\* The sessions that a handler keeps (revokeUserSessions, a deleted token).
Keeps(ss) ==
    /\ DOMAIN ss \subseteq DOMAIN sessions /\ ss \in [DOMAIN ss -> Grants]
    /\ \A t \in DOMAIN ss : ss[t] = sessions[t]

\* Revoking a user's sessions, or deleting one, keeps the others as they are.
LEMMA RevokeKeeps ==
    ASSUME TypeOK, NEW n
    PROVE  /\ Keeps(sessions) /\ Keeps(revokeUserSessions(sessions, n)) /\ Keeps(Without(sessions, n))
           /\ \A t \in DOMAIN revokeUserSessions(sessions, n) : sessions[t].username # n
  BY DEF TypeOK, Keeps, revokeUserSessions, Without, Restrict

\* Pending requests stay bound to their sessions: tokens are not used twice.
LEMMA PendingKept ==
    ASSUME TypeOK, PendingInv, SessionsKept, server' = "up", pending' \subseteq pending
    PROVE  PendingInv'
<1> SUFFICES ASSUME NEW p \in pending
             PROVE  /\ p.token <= tokens'
                    /\ p.token \in DOMAIN sessions' =>
                          /\ p.name = sessions'[p.token].username
                          /\ p.account = sessions'[p.token].account
  BY DEF PendingInv
<1>1. /\ p.token \in Nat /\ p.token <= tokens /\ tokens \in Nat /\ tokens' \in Nat /\ tokens' >= tokens
      /\ p.token \in DOMAIN sessions =>
            p.name = sessions[p.token].username /\ p.account = sessions[p.token].account
  BY DEF PendingInv, TypeOK, Requests, SessionsKept
<1>2. p.token \in DOMAIN sessions' =>
        p.token \in DOMAIN sessions /\ sessions'[p.token] = sessions[p.token]
  <2>1. ~(p.token > tokens)
    BY <1>1
  <2> QED BY <2>1 DEF SessionsKept
<1>3. p.token <= tokens'
  BY <1>1
<1> QED BY <1>1, <1>2, <1>3

\* A handler that ends with fewer sessions.
LEMMA KeepStep ==
    ASSUME TypeOK, Keeps(sessions'), tokens' = tokens, users' \in UserTables,
           \A t \in DOMAIN sessions' :
              /\ sessions[t].username \in DOMAIN users'
              /\ users'[sessions[t].username] = sessions[t].account
    PROVE  SessionsInv' /\ SessionsKept
<1>1. SessionsKept
  BY DEF SessionsKept, Keeps, TypeOK
<1>2. SessionsCurrent'
  BY DEF SessionsCurrent, Keeps
<1>3. DOMAIN sessions' \subseteq 1..tokens' /\ sessions' \in [DOMAIN sessions' -> Grants]
  BY DEF Keeps, TypeOK
<1> QED BY <1>1, <1>2, <1>3 DEF SessionsInv

\* issueDashboardSession: the new token is bound to the account as it is then.
LEMMA IssueStep ==
    ASSUME TypeOK, NEW ss, Keeps(ss), NEW n \in Names, NEW u \in Accounts,
           issueDashboardSession(ss, n, u), users' \in UserTables,
           n \in DOMAIN users', users'[n] = u,
           \A t \in DOMAIN ss :
              /\ sessions[t].username \in DOMAIN users'
              /\ users'[sessions[t].username] = sessions[t].account
    PROVE  SessionsInv' /\ SessionsKept
<1> DEFINE g == [username |-> n, account |-> u]
<1>1. /\ tokens \in Nat /\ tokens' = tokens + 1 /\ DOMAIN sessions \subseteq 1..tokens
      /\ sessions' = Put(ss, tokens', g)
  BY DEF issueDashboardSession, TypeOK
<1>2. g \in Grants /\ g.username = n /\ g.account = u
  BY DEF Grants
<1> HIDE DEF g
<1>3. /\ DOMAIN sessions' = DOMAIN ss \cup {tokens'} /\ sessions'[tokens'] = g
      /\ \A t \in DOMAIN ss \ {tokens'} : sessions'[t] = ss[t]
      /\ sessions' = [t \in DOMAIN ss \cup {tokens'} |-> IF t = tokens' THEN g ELSE ss[t]]
  BY <1>1 DEF Put
<1>4. DOMAIN ss \subseteq 1..tokens /\ tokens' \notin DOMAIN ss /\ DOMAIN ss \subseteq 1..tokens'
  BY <1>1 DEF Keeps
<1>5. sessions' \in [DOMAIN sessions' -> Grants]
  BY <1>2, <1>3 DEF Keeps
<1>6. DOMAIN sessions' \subseteq 1..tokens'
  BY <1>1, <1>3, <1>4
<1>7. \A t \in DOMAIN ss : sessions'[t] = sessions[t]
  BY <1>3, <1>4 DEF Keeps
<1>8. SessionsCurrent'
  <2> SUFFICES ASSUME NEW t \in DOMAIN sessions'
               PROVE  /\ sessions'[t].username \in DOMAIN users'
                      /\ users'[sessions'[t].username] = sessions'[t].account
    BY DEF SessionsCurrent
  <2>1. CASE t \in DOMAIN ss
    BY <2>1, <1>7
  <2>2. CASE t = tokens'
    BY <2>2, <1>2, <1>3
  <2> QED BY <2>1, <2>2, <1>3
<1>9. SessionsKept
  <2>1. \A t \in DOMAIN sessions' : t > tokens \/ (t \in DOMAIN sessions /\ sessions'[t] = sessions[t])
    <3>1. tokens' > tokens
      BY <1>1
    <3> QED BY <3>1, <1>3, <1>7 DEF Keeps
  <2> QED BY <2>1, <1>1 DEF SessionsKept
<1> QED BY <1>5, <1>6, <1>8, <1>9 DEF SessionsInv

\* A handler that touches no account and no file.
LEMMA SessionsOnly ==
    ASSUME AccountsInv, server = "up", SessionsInv', SessionsKept, pending' \subseteq pending,
           UNCHANGED <<server, files, users, settings, crashes>>
    PROVE  AccountsInv'
<1> USE DEF AccountsInv, files
<1>1. TypeOK'
  BY DEF TypeOK, SessionsInv, SessionsKept
<1>2. FilesInv' /\ RestartKeepsAccounts'
  BY DEF FilesInv, RestartKeepsAccounts
<1>3. PendingInv'
  BY PendingKept
<1> QED BY <1>1, <1>2, <1>3 DEF SessionsInv

\* A request passes its first check (dashboardLogin, session, dashboardAdmin): it
\* speaks for the account as it is now.
LEMMA ReceiveStep ==
    ASSUME AccountsInv, NEW kind \in {"login", "logout", "refresh", "change", "admin"},
           NEW t \in Nat, t <= tokens, NEW n \in DOMAIN users, NEW password \in Passwords,
           t \in DOMAIN sessions => sessions[t].username = n,
           Receives(Request(kind, t, n, password))
    PROVE  AccountsInv'
<1> USE DEF AccountsInv, Receives, files, memory
<1> DEFINE p == Request(kind, t, n, password)
<1>1. p \in Requests
  BY TableType DEF TypeOK, Requests, Request
<1>2. p.token = t /\ p.name = n /\ p.account = users[n]
  BY DEF Request
<1>3. pending' = pending \cup {p} /\ server = "up"
  OBVIOUS
<1> HIDE DEF p
<1>4. TypeOK'
  BY <1>1, <1>3 DEF TypeOK
<1>5. FilesInv' /\ RestartKeepsAccounts' /\ SessionsCurrent'
  BY DEF FilesInv, RestartKeepsAccounts, SessionsCurrent
<1>6. t \in DOMAIN sessions => p.name = sessions[t].username /\ p.account = sessions[t].account
  BY <1>2 DEF SessionsCurrent
<1>7. PendingInv'
  BY <1>2, <1>3, <1>6 DEF PendingInv
<1> QED BY <1>4, <1>5, <1>7

\* dashboardLogin before the mutex.
LEMMA LoginCheckStep ==
    ASSUME AccountsInv, NEW n \in Names, NEW password \in Passwords, LoginCheck(n, password)
    PROVE  AccountsInv'
<1>1. n \in DOMAIN users /\ 0 \notin DOMAIN sessions /\ 0 <= tokens
  BY DEF AccountsInv, TypeOK, LoginCheck, authenticate
<1> QED BY <1>1, ReceiveStep DEF LoginCheck

\* The handlers of a session, before the mutex.
LEMMA SessionCheckStep ==
    ASSUME AccountsInv, NEW kind \in {"logout", "refresh", "change", "admin"},
           NEW t \in DOMAIN sessions, NEW password \in Passwords, SessionCheck(kind, t, password)
    PROVE  AccountsInv'
<1>1. t \in Nat /\ t <= tokens /\ sessions[t].username \in DOMAIN users
  BY DEF AccountsInv, TypeOK, SessionsCurrent
<1> QED BY <1>1, ReceiveStep DEF SessionCheck

\* Deleting a session (dashboardLogout, an expiry).
LEMMA LogoutStep ==
    ASSUME AccountsInv, NEW t, server = "up", sessions' = Without(sessions, t),
           UNCHANGED <<server, files, users, settings, tokens, crashes>>, pending' \subseteq pending
    PROVE  AccountsInv'
<1>1. TypeOK /\ Keeps(sessions') /\ users' \in UserTables /\ users' = users
  BY RevokeKeeps DEF AccountsInv, TypeOK
<1>2. \A x \in DOMAIN sessions' :
        sessions[x].username \in DOMAIN users' /\ users'[sessions[x].username] = sessions[x].account
  BY <1>1 DEF AccountsInv, SessionsCurrent, Keeps
<1>3. SessionsInv' /\ SessionsKept
  BY <1>1, <1>2, KeepStep
<1> QED BY <1>3, SessionsOnly

\* dashboardLogin under the mutex: the account that is signed in is the current one.
LEMMA LoginStep == ASSUME AccountsInv, NEW p \in pending, Login(p) PROVE AccountsInv'
<1>1. /\ TypeOK /\ p \in Requests /\ server = "up" /\ users \in UserTables /\ users' = users
      /\ Keeps(sessions) /\ UNCHANGED <<server, files, users, settings, crashes>>
  BY RevokeKeeps DEF AccountsInv, TypeOK, PendingInv, Login
<1>2. pending' \subseteq pending
  BY <1>1 DEF Login, Handled
<1>3. \A t \in DOMAIN sessions :
        sessions[t].username \in DOMAIN users' /\ users'[sessions[t].username] = sessions[t].account
  BY <1>1 DEF AccountsInv, SessionsCurrent
<1>4. SessionsInv' /\ SessionsKept
  <2>1. CASE authenticate(p.name, p.password)
    <3>1. p.name \in DOMAIN users /\ p.name \in Names /\ users[p.name] \in Accounts
      BY <2>1, <1>1, TableType DEF authenticate
    <3> QED BY <2>1, <3>1, <1>1, <1>3, IssueStep DEF Login
  <2>2. CASE ~authenticate(p.name, p.password)
    <3>1. sessions' = sessions /\ tokens' = tokens
      BY <2>2 DEF Login
    <3> QED BY <3>1, <1>1, <1>3, KeepStep
  <2> QED BY <2>1, <2>2
<1> QED BY <1>1, <1>2, <1>4, SessionsOnly

\* dashboardRefreshSession under the mutex: the session that is renewed is still
\* there, so its account has not changed since it was checked.
LEMMA RefreshStep == ASSUME AccountsInv, NEW p \in pending, Refresh(p) PROVE AccountsInv'
<1>1. /\ TypeOK /\ p \in Requests /\ server = "up" /\ users \in UserTables /\ users' = users
      /\ Keeps(sessions) /\ Keeps(Without(sessions, p.token))
      /\ UNCHANGED <<server, files, users, settings, crashes>>
  BY RevokeKeeps DEF AccountsInv, TypeOK, PendingInv, Refresh
<1>2. pending' \subseteq pending
  BY <1>1 DEF Refresh, Handled
<1>3. \A t \in DOMAIN sessions :
        sessions[t].username \in DOMAIN users' /\ users'[sessions[t].username] = sessions[t].account
  BY <1>1 DEF AccountsInv, SessionsCurrent
<1>4. SessionsInv' /\ SessionsKept
  <2>1. CASE p.token \in DOMAIN sessions
    <3>1. /\ p.name = sessions[p.token].username /\ p.account = sessions[p.token].account
          /\ p.name \in Names /\ p.account \in Accounts
      BY <2>1, <1>1 DEF AccountsInv, PendingInv, Requests
    <3>2. p.name \in DOMAIN users' /\ users'[p.name] = p.account
      BY <2>1, <3>1, <1>3
    <3>3. \A t \in DOMAIN Without(sessions, p.token) :
            sessions[t].username \in DOMAIN users' /\ users'[sessions[t].username] = sessions[t].account
      BY <1>1, <1>3 DEF Keeps
    <3> QED BY <2>1, <3>1, <3>2, <3>3, <1>1, IssueStep DEF Refresh
  <2>2. CASE p.token \notin DOMAIN sessions
    <3>1. sessions' = sessions /\ tokens' = tokens
      BY <2>2 DEF Refresh
    <3> QED BY <3>1, <1>1, <1>3, KeepStep
  <2> QED BY <2>1, <2>2
<1> QED BY <1>1, <1>2, <1>4, SessionsOnly

-----------------------------------------------------------------------------
(* Changes *)

\* dashboardChangePassword verifies the current password without the mutex.
LEMMA VerifyStep == ASSUME AccountsInv, NEW p \in pending, VerifyCurrent(p) PROVE AccountsInv'
<1> USE DEF AccountsInv, VerifyCurrent, files, memory
<1> DEFINE q == [p EXCEPT !.pc = "verified"]
<1>1. p \in Requests
  BY DEF TypeOK
<1>2. q \in Requests /\ q.token = p.token /\ q.name = p.name /\ q.account = p.account
  BY <1>1 DEF Requests
<1>3. pending' \subseteq pending \cup {q}
  OBVIOUS
<1> HIDE DEF q
<1>4. TypeOK'
  BY <1>2, <1>3 DEF TypeOK
<1>5. FilesInv' /\ RestartKeepsAccounts' /\ SessionsCurrent'
  BY DEF FilesInv, RestartKeepsAccounts, SessionsCurrent
<1>6. PendingInv'
  BY <1>2, <1>3 DEF PendingInv
<1> QED BY <1>4, <1>5, <1>6

\* A handler that refuses its request.
LEMMA RefuseStep ==
    ASSUME AccountsInv, NEW p \in pending, UNCHANGED <<server, files, memory, tokens, crashes>>, Handled(p)
    PROVE  AccountsInv'
<1> USE DEF AccountsInv, files, memory
<1>1. server = "up" /\ pending' \subseteq pending
  BY DEF PendingInv, Handled
<1>2. TypeOK'
  BY <1>1 DEF TypeOK
<1>3. FilesInv' /\ RestartKeepsAccounts' /\ SessionsCurrent' /\ PendingInv'
  BY <1>1 DEF FilesInv, RestartKeepsAccounts, SessionsCurrent, PendingInv
<1> QED BY <1>2, <1>3

\* The transaction commits and the handler goes on: memory and file agree again.
LEMMA CommitStep ==
    ASSUME AccountsInv, NEW p \in pending, NEW us \in UserTables, NEW st \in Settings,
           ActiveAdmins(us) # {}, store' = Snapshot(us, st), users' = us, settings' = st,
           UNCHANGED <<server, legacy, temp, crashes>>, SessionsInv', SessionsKept, Handled(p)
    PROVE  AccountsInv'
<1> USE DEF AccountsInv
<1>1. /\ store' \in Stores /\ store' # None /\ store'.users = us
      /\ store' = Snapshot(users', settings')
  BY SnapshotType
<1>2. server = "up" /\ pending' \subseteq pending
  BY DEF PendingInv, Handled
<1>3. TypeOK'
  BY <1>1, <1>2 DEF TypeOK, SessionsInv, SessionsKept
<1>4. FilesInv' /\ RestartKeepsAccounts'
  BY <1>1, <1>2 DEF FilesInv, RestartKeepsAccounts
<1>5. PendingInv'
  BY <1>2, PendingKept
<1> QED BY <1>3, <1>4, <1>5 DEF SessionsInv

\* persist without the commit that the handler sees: the process ends after the
\* commit, or the transaction fails and the change is taken back.
LEMMA NotCommitted ==
    ASSUME AccountsInv, NEW p \in pending, NEW us \in UserTables, NEW st \in Settings,
           ActiveAdmins(us) # {}, Handled(p),
           \/ store' = Snapshot(us, st) /\ Stopped
           \/ TakenBack(us, st) /\ UNCHANGED <<server, files, sessions, tokens, crashes>>
    PROVE  AccountsInv'
<1>1. CASE store' = Snapshot(us, st) /\ Stopped
  <2>1. server = "up" /\ pending' = {}
    BY <1>1 DEF AccountsInv, PendingInv, Handled, Stopped
  <2>2. store' \in Stores /\ store' # None /\ store'.users = us
    BY <1>1, SnapshotType
  <2> QED BY <1>1, <2>1, <2>2, StoppedStep
<1>2. CASE TakenBack(us, st) /\ UNCHANGED <<server, files, sessions, tokens, crashes>>
  BY <1>2, RefuseStep DEF TakenBack, memory
<1> QED BY <1>1, <1>2

\* A session's account that is an active administrator keeps the store usable.
LEMMA AdminStays ==
    ASSUME NEW us, NEW n \in DOMAIN us, ActiveAdmin(us[n])
    PROVE  ActiveAdmins(us) # {}
  BY DEF ActiveAdmins

\* dashboardChangePassword under the mutex: the user's other sessions end, the new
\* one is bound to the changed account.
LEMMA ChangePasswordStep ==
    ASSUME AccountsInv, NEW p \in pending, NEW password \in Passwords, ChangePassword(p, password)
    PROVE  AccountsInv'
<1>1. Handled(p) /\ p \in Requests /\ server = "up" /\ TypeOK
  BY DEF ChangePassword, AccountsInv, TypeOK, PendingInv
<1>2. CASE ~ChangeAllowed(p)
  BY <1>1, <1>2, RefuseStep DEF ChangePassword, Refuses
<1>3. CASE ChangeAllowed(p)
  <2> DEFINE us == Changed(p, password)
             u == [users[p.name] EXCEPT !.password = password, !.mustChange = FALSE]
             ss == revokeUserSessions(sessions, p.name)
  <2>1. /\ users \in UserTables /\ settings \in Settings /\ p.name \in DOMAIN users
        /\ DOMAIN users \subseteq Names /\ users \in [DOMAIN users -> Accounts]
    BY <1>1, <1>3, TableType DEF TypeOK, ChangeAllowed, authenticate
  <2>2. /\ u \in Accounts
        /\ ActiveAdmin(users[p.name]) => ActiveAdmin(u)
    BY <2>1 DEF Accounts, ActiveAdmin
  <2>3. us = [users EXCEPT ![p.name] = u]
    BY DEF Changed
  <2>4. Keeps(ss) /\ \A t \in DOMAIN ss : sessions[t].username # p.name
    BY <1>1, RevokeKeeps
  <2>5. persist(us, settings, issueDashboardSession(ss, p.name, us[p.name]))
    BY <1>3 DEF ChangePassword
  <2> HIDE DEF u, us, ss
  <2>6. /\ DOMAIN us = DOMAIN users /\ us[p.name] = u
        /\ \A m \in DOMAIN users \ {p.name} : us[m] = users[m]
        /\ us \in [DOMAIN users -> Accounts]
    BY <2>1, <2>2, <2>3
  <2>7. us \in UserTables
    BY <2>1, <2>6, TableType
  <2>8. ActiveAdmins(us) # {}
    <3>1. ActiveAdmins(users) # {}
      BY <1>1, <2>1, SnapshotType DEF AccountsInv, RestartKeepsAccounts
    <3>2. PICK m \in DOMAIN users : ActiveAdmin(users[m])
      BY <3>1 DEF ActiveAdmins
    <3>3. ActiveAdmin(us[m])
      BY <3>2, <2>2, <2>6
    <3> QED BY <3>2, <3>3, <2>6, AdminStays
  <2>9. CASE /\ store' = Snapshot(us, settings) /\ users' = us /\ settings' = settings
             /\ issueDashboardSession(ss, p.name, us[p.name])
             /\ UNCHANGED <<server, legacy, temp, crashes>>
    <3>1. \A t \in DOMAIN ss :
            /\ sessions[t].username \in DOMAIN users'
            /\ users'[sessions[t].username] = sessions[t].account
      BY <2>4, <2>6, <2>9 DEF AccountsInv, SessionsCurrent, Keeps
    <3>2. SessionsInv' /\ SessionsKept
      BY <1>1, <2>1, <2>2, <2>4, <2>6, <2>7, <2>9, <3>1, IssueStep
    <3> QED BY <1>1, <2>1, <2>7, <2>8, <2>9, <3>2, CommitStep
  <2>10. CASE \/ store' = Snapshot(us, settings) /\ Stopped
              \/ TakenBack(us, settings) /\ UNCHANGED <<server, files, sessions, tokens, crashes>>
    BY <1>1, <2>1, <2>7, <2>8, <2>10, NotCommitted
  <2> QED BY <2>5, <2>9, <2>10 DEF persist
<1> QED BY <1>2, <1>3

\* dashboardUsers under the mutex: the account's sessions end, and the
\* administrator who asks stays one.
LEMMA EditUserStep ==
    ASSUME AccountsInv, NEW p \in pending, NEW name \in Names, NEW method \in {"POST", "PUT", "DELETE"},
           NEW role \in Roles, NEW disabled \in BOOLEAN, NEW password \in Passwords \cup {None},
           EditUser(p, name, method, role, disabled, password)
    PROVE  AccountsInv'
<1> DEFINE u == Requested(name, method, role, disabled, password)
           us == WithUser(name, method, u)
           ss == revokeUserSessions(sessions, name)
<1>1. Handled(p) /\ p \in Requests /\ server = "up" /\ TypeOK
  BY DEF EditUser, AccountsInv, TypeOK, PendingInv
<1>2. CASE ~(Administers(p.token) /\ Allowed(p.name, name, method, u))
  <2>1. Refuses
    BY <1>2 DEF EditUser
  <2> QED BY <1>1, <2>1, RefuseStep DEF Refuses
<1>3. CASE Administers(p.token) /\ Allowed(p.name, name, method, u)
  <2>1. /\ users \in UserTables /\ settings \in Settings
        /\ DOMAIN users \subseteq Names /\ users \in [DOMAIN users -> Accounts]
    BY <1>1, TableType DEF TypeOK
  <2>2. u \in Accounts
    <3>1. CASE password # None
      BY <3>1 DEF Requested, Account, Accounts
    <3>2. CASE password = None
      <4>1. name \in DOMAIN users
        BY <3>2 DEF EditUser
      <4> QED BY <3>2, <4>1, <2>1 DEF Requested, Accounts
    <3> QED BY <3>1, <3>2
  <2>3. /\ p.token \in DOMAIN sessions /\ p.name = sessions[p.token].username
        /\ p.name \in DOMAIN users /\ ActiveAdmin(users[p.name])
    BY <1>3 DEF Administers, session, AccountsInv, PendingInv, ActiveAdmin
  <2>4. /\ method = "POST" => name \notin DOMAIN users
        /\ name = p.name => method # "DELETE" /\ ActiveAdmin(u)
    BY <1>3 DEF Allowed
  <2>5. Keeps(ss) /\ \A t \in DOMAIN ss : sessions[t].username # name
    BY <1>1, RevokeKeeps
  <2>6. persist(us, settings, sessions' = ss /\ UNCHANGED tokens)
    BY <1>3 DEF EditUser
  <2> HIDE DEF u
  <2>7. /\ us \in UserTables
        /\ \A m \in DOMAIN users \ {name} : m \in DOMAIN us /\ us[m] = users[m]
        /\ method # "DELETE" => name \in DOMAIN us /\ us[name] = u
    <3>1. CASE method = "DELETE"
      <4>1. us = Restrict(users, DOMAIN users \ {name})
        BY <3>1 DEF WithUser
      <4> HIDE DEF us
      <4> QED BY <3>1, <4>1, <2>1, CutTable
    <3>2. CASE method # "DELETE"
      <4>1. us = Put(users, name, u)
        BY <3>2 DEF WithUser
      <4> HIDE DEF us
      <4>2. /\ us \in UserTables /\ DOMAIN us = DOMAIN users \cup {name} /\ us[name] = u
            /\ \A m \in DOMAIN users \ {name} : us[m] = users[m]
        BY <4>1, <2>1, <2>2, PutTable
      <4> QED BY <4>2
    <3> QED BY <3>1, <3>2
  <2> HIDE DEF us, ss
  <2>8. ActiveAdmins(us) # {}
    <3>1. p.name \in DOMAIN us /\ ActiveAdmin(us[p.name])
      BY <2>3, <2>4, <2>7
    <3> QED BY <3>1, AdminStays
  <2>9. CASE /\ store' = Snapshot(us, settings) /\ users' = us /\ settings' = settings
             /\ sessions' = ss /\ UNCHANGED tokens
             /\ UNCHANGED <<server, legacy, temp, crashes>>
    <3>1. \A t \in DOMAIN sessions' :
            /\ sessions[t].username \in DOMAIN users'
            /\ users'[sessions[t].username] = sessions[t].account
      BY <2>5, <2>7, <2>9 DEF AccountsInv, SessionsCurrent, Keeps
    <3>2. Keeps(sessions')
      BY <2>5, <2>9
    <3>3. SessionsInv' /\ SessionsKept
      BY <1>1, <2>7, <2>9, <3>1, <3>2, KeepStep
    <3> QED BY <1>1, <2>1, <2>7, <2>8, <2>9, <3>3, CommitStep
  <2>10. CASE \/ store' = Snapshot(us, settings) /\ Stopped
              \/ TakenBack(us, settings) /\ UNCHANGED <<server, files, sessions, tokens, crashes>>
    BY <1>1, <2>1, <2>7, <2>8, <2>10, NotCommitted
  <2> QED BY <2>6, <2>9, <2>10 DEF persist
<1> QED BY <1>2, <1>3

\* dashboardSettingsHandler under the mutex leaves the accounts alone.
LEMMA EditSettingsStep ==
    ASSUME AccountsInv, NEW p \in pending, NEW st \in Settings, EditSettings(p, st)
    PROVE  AccountsInv'
<1>1. Handled(p) /\ server = "up" /\ TypeOK /\ users \in UserTables /\ settings \in Settings
  BY DEF EditSettings, AccountsInv, TypeOK, PendingInv
<1>2. CASE ~Administers(p.token)
  BY <1>1, <1>2, RefuseStep DEF EditSettings, Refuses
<1>3. CASE Administers(p.token)
  <2>1. ActiveAdmins(users) # {}
    BY <1>1, SnapshotType DEF AccountsInv, RestartKeepsAccounts
  <2>2. persist(users, st, UNCHANGED <<sessions, tokens>>)
    BY <1>3 DEF EditSettings
  <2>3. CASE /\ store' = Snapshot(users, st) /\ users' = users /\ settings' = st
             /\ UNCHANGED <<sessions, tokens>>
             /\ UNCHANGED <<server, legacy, temp, crashes>>
    <3>1. \A t \in DOMAIN sessions' :
            /\ sessions[t].username \in DOMAIN users'
            /\ users'[sessions[t].username] = sessions[t].account
      BY <2>3 DEF AccountsInv, SessionsCurrent
    <3>2. Keeps(sessions')
      BY <1>1, <2>3, RevokeKeeps
    <3>3. SessionsInv' /\ SessionsKept
      BY <1>1, <2>3, <3>1, <3>2, KeepStep
    <3> QED BY <1>1, <2>1, <2>3, <3>3, CommitStep
  <2>4. CASE \/ store' = Snapshot(users, st) /\ Stopped
             \/ TakenBack(users, st) /\ UNCHANGED <<server, files, sessions, tokens, crashes>>
    BY <1>1, <2>1, <2>4, NotCommitted
  <2> QED BY <2>2, <2>3, <2>4 DEF persist
<1> QED BY <1>2, <1>3

-----------------------------------------------------------------------------
(* The theorems *)

\* Every step preserves the invariant.
LEMMA NextAccounts == ASSUME AccountsInv, [Next]_vars PROVE AccountsInv'
<1>1. CASE Prepare
  BY <1>1, PrepareStep
<1>2. CASE Rename
  BY <1>2, RenameStep
<1>3. CASE RemoveLegacy
  <2>1. store # None /\ server # "up" /\ legacy' \in BOOLEAN
    BY <1>3 DEF AccountsInv, FilesInv, RemoveLegacy
  <2> QED BY <1>3, <2>1, LoadStep DEF RemoveLegacy
<1>4. CASE Start
  <2>1. store # None /\ server # "up" /\ legacy' \in BOOLEAN
    BY <1>4 DEF AccountsInv, TypeOK, Start, files
  <2> QED BY <1>4, <2>1, LoadStep DEF Start, files
<1>5. CASE Crash
  <2>1. store' \in Stores \cup {None} /\ (store' # None => ActiveAdmins(store'.users) # {})
    BY <1>5 DEF AccountsInv, TypeOK, RestartKeepsAccounts, Crash
  <2> QED BY <1>5, <2>1, StoppedStep DEF Crash
<1>6. ASSUME NEW n \in Names, NEW password \in Passwords, LoginCheck(n, password)
      PROVE  AccountsInv'
  BY <1>6, LoginCheckStep
<1>7. ASSUME NEW t \in DOMAIN sessions, Expire(t) PROVE AccountsInv'
  BY <1>7, LogoutStep DEF Expire
<1>8. ASSUME NEW t \in DOMAIN sessions, AdminCheck(t) PROVE AccountsInv'
  BY <1>8, SessionCheckStep, AccountsAssumption DEF AdminCheck
<1>9. ASSUME NEW t \in DOMAIN sessions, NEW kind \in {"logout", "refresh"},
             SessionCheck(kind, t, BootstrapPassword)
      PROVE  AccountsInv'
  BY <1>9, SessionCheckStep, AccountsAssumption
<1>10. ASSUME NEW t \in DOMAIN sessions, NEW password \in Passwords, SessionCheck("change", t, password)
       PROVE  AccountsInv'
  BY <1>10, SessionCheckStep
<1>11. ASSUME NEW p \in pending, Login(p) \/ Refresh(p) \/ VerifyCurrent(p) PROVE AccountsInv'
  BY <1>11, LoginStep, RefreshStep, VerifyStep
<1>12. ASSUME NEW p \in pending, Logout(p) PROVE AccountsInv'
  <2>1. server = "up" /\ pending' \subseteq pending
    BY <1>12 DEF AccountsInv, PendingInv, Logout, Handled
  <2> QED BY <1>12, <2>1, LogoutStep DEF Logout
<1>13. ASSUME NEW p \in pending, NEW password \in Passwords, ChangePassword(p, password)
       PROVE  AccountsInv'
  BY <1>13, ChangePasswordStep
<1>14. ASSUME NEW p \in pending, NEW st \in Settings, EditSettings(p, st) PROVE AccountsInv'
  BY <1>14, EditSettingsStep
<1>15. ASSUME NEW p \in pending, NEW name \in Names, NEW method \in {"POST", "PUT", "DELETE"},
              NEW role \in Roles, NEW disabled \in BOOLEAN, NEW password \in Passwords \cup {None},
              EditUser(p, name, method, role, disabled, password)
       PROVE  AccountsInv'
  BY <1>15, EditUserStep
<1>16. CASE UNCHANGED vars
  BY <1>16 DEF AccountsInv, TypeOK, FilesInv, RestartKeepsAccounts, SessionsCurrent, PendingInv, vars
<1> QED
  BY <1>1, <1>2, <1>3, <1>4, <1>5, <1>6, <1>7, <1>8, <1>9, <1>10, <1>11, <1>12, <1>13, <1>14, <1>15,
     <1>16 DEF Next

\* The store is created from the older file when there is one: only the rename
\* creates it, and until then the older file is in place.
LEMMA CreationStep ==
    ASSUME AccountsInv, [Next]_vars, store = None, store' # None, HasLegacy
    PROVE  DOMAIN store'.users = {LegacyName} /\ store'.users[LegacyName].password = LegacyPassword
<1>1. server # "up"
  BY AccountsAssumption, SnapshotType DEF AccountsInv, TypeOK, RestartKeepsAccounts
<1>2. pending = {}
  BY <1>1 DEF AccountsInv, PendingInv
<1>3. Rename
  BY <1>1, <1>2 DEF Next, vars, files, Prepare, RemoveLegacy, Start, Crash, LoginCheck, Receives, Expire,
     AdminCheck, SessionCheck
<1>4. store' = newDashboardAuthenticator(LegacyName, LegacyPassword, FALSE)
  BY <1>3 DEF Rename, AccountsInv, FilesInv
<1> QED BY <1>4, FirstStore, AccountsAssumption

\* The invariant holds in every reachable state.
THEOREM AccountsCorrect == Spec => []AccountsInv
<1> QED BY InitAccounts, NextAccounts, PTL DEF Spec

\* A restart at any moment finds an active administrator and the accounts and
\* settings by which the running server decides.
THEOREM RestartsKeepAccounts == Spec => []RestartKeepsAccounts
<1>1. AccountsInv => RestartKeepsAccounts
  BY DEF AccountsInv
<1> QED BY <1>1, AccountsCorrect, PTL

\* No session outlives a change of its account.
THEOREM SessionsStayCurrent == Spec => []SessionsCurrent
<1>1. AccountsInv => SessionsCurrent
  BY DEF AccountsInv
<1> QED BY <1>1, AccountsCorrect, PTL

\* The operator's credentials never replace the verifier of the older file.
THEOREM MigrationsKeepVerifier == Spec => MigrationKeepsVerifier
<1>1. AccountsInv /\ [Next]_vars =>
        [store = None /\ store' # None /\ HasLegacy =>
           /\ DOMAIN store'.users = {LegacyName}
           /\ store'.users[LegacyName].password = LegacyPassword]_vars
  BY CreationStep
<1> QED BY <1>1, AccountsCorrect, PTL DEF Spec, MigrationKeepsVerifier

=============================================================================
