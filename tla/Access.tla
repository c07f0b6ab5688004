------------------------------- MODULE Access -------------------------------
(***************************************************************************)
(* Accounts, logins and sessions.  Logins, changes of a password, of the   *)
(* status of an account and its deletion read the database, verify a       *)
(* password for as long as that takes, write, and then call the session    *)
(* manager; each runs on a thread of the pool and they interleave.  What   *)
(* an operation may do was decided when its request came in, before it     *)
(* waited for a thread.                                                    *)
(*                                                                         *)
(* A scene says which operations and which clocks a behaviour has.         *)
(***************************************************************************)
EXTENDS Sessions, Credentials, Routes

CONSTANTS
    Threads,
    Admins, Users,   \* the accounts there can be
    RoleOf,          \* admin_role; the role of a user
    PhoneOf,         \* the phone a user's account is made with
    Passwords,
    FirstPassword,   \* of the accounts there are at first
    MaxVersion,      \* bound: changes of one account
    Scenes           \* what each scene has

ASSUME AccessAssumption ==
    /\ Principals = Admins \cup Users /\ Names = Admins
    /\ Admins \cap Users = {}
    /\ RoleOf \in [Principals -> Roles] /\ PhoneOf \in [Users -> Phones]
    /\ \A p \in Principals : RoleOf[p] = "User" <=> p \in Users
    /\ MaxVersion \in Nat /\ FirstPassword \in Passwords
    /\ IsFiniteSet(Threads) /\ {"LOGIN", "REGISTER", "RESET"} \subseteq Purposes

\* The accounts of a scene have a phone each; its inputs are of the sets above.
ASSUME ScenesAssumption == \A s \in DOMAIN Scenes :
    /\ Scenes[s].present \subseteq Principals
    /\ \A p, q \in Scenes[s].present \cap Users : PhoneOf[p] = PhoneOf[q] => p = q
    /\ Scenes[s].threads \subseteq Threads /\ Scenes[s].devices \subseteq Devices
    /\ Scenes[s].kinds \subseteq Kinds /\ Scenes[s].guesses \subseteq Passwords
    /\ Scenes[s].clients \subseteq Clients /\ Scenes[s].targets \subseteq Principals

VARIABLES
    scene,
    accounts,  \* user_account and admin_account, as committed
    audits,    \* audit_event, by target
    threads,   \* the operation of each thread
    epoch,     \* by principal: what its last change of access left
    basis,     \* by session: the epoch its login read, or was kept in
    raced,     \* the sessions whose login overlapped a change of the account
    lastCall   \* the route last entered, and by what session

accessVars == <<scene, accounts, audits, threads, epoch, basis, raced, lastCall>>
vars == <<sessionVars, credentialVars, accessVars>>

Account == [state: {"None", "Enabled", "Disabled", "Deleted"},
            password: Passwords \cup {"none"}, salt: Nat, version: Nat]
NoAccount == [state |-> "None", password |-> "none", salt |-> 0, version |-> 0]
\* Every hash of a password has a salt of its own.
NewAccount(w) == [state |-> "Enabled", password |-> w, salt |-> 0, version |-> 1]
Idle == [op |-> "Idle"]
NoCall == [route |-> "none"]

Free == {t \in Threads : threads[t] = Idle}
Busied == Threads \ Free
\* The thread inside BEGIN IMMEDIATE: nobody else writes.
Writing == {t \in Busied : threads[t].op = "SetStatus" /\ threads[t].at # "Write"}

\* The logins that have read p, and hold what they read.
LoggingIn(p) ==
    {t \in Busied : /\ threads[t].op = "Login" /\ threads[t].who = p
                    /\ threads[t].at \in {"Judge", "Issue"}}
\* A change of p is written, and its sessions are not yet revoked or it is not
\* yet committed.
Changing(p) ==
    \E t \in Busied : /\ threads[t].op # "Login" /\ threads[t].who = p
                      /\ threads[t].at \in {"Revoke", "Commit"}

AccessTypeOK ==
    /\ SessionsTypeOK
    /\ accounts \in [Principals -> Account]
    /\ \A p \in Admins :
         audits[p] + Cardinality(Scenes[scene].present \cap {p}) = accounts[p].version
    /\ \A p, q \in Users : PhoneOf[p] = PhoneOf[q] /\ p # q
         => {accounts[p].state, accounts[q].state} \cap {"None", "Deleted"} # {}
    /\ Cardinality(Writing) <= 1

Init ==
    /\ SessionsInit /\ CredentialsInit
    /\ scene \in DOMAIN Scenes
    /\ accounts = [p \in Principals |->
         IF p \in Scenes[scene].present
         THEN NewAccount(FirstPassword) ELSE NoAccount]
    /\ audits = [p \in Principals |-> 0]
    /\ threads = [t \in Threads |-> Idle]
    /\ epoch = [p \in Principals |-> 0] /\ basis = [i \in Ids |-> 0]
    /\ raced = {} /\ lastCall = NoCall

-----------------------------------------------------------------------------
\* Bound: a behaviour ends with the first call it watches.
Plays(op) == op \in Scenes[scene].ops /\ lastCall = NoCall
Starts(t, op) == t \in Free /\ Plays(op)
Begin(t, op) == threads' = [threads EXCEPT ![t] = op]
At(t, op, at) == t \in Busied /\ threads[t].op = op /\ threads[t].at = at
Goes(t, at) == threads' = [threads EXCEPT ![t].at = at]
Ends(t) == threads' = [threads EXCEPT ![t] = Idle]

\* The threads when p has been written to and t goes on to at: what is logging
\* in to p may have read what was there before.
Written(p, t, at) == [u \in Threads |->
    IF u = t THEN [threads[u] EXCEPT !.at = at]
    ELSE IF u \in LoggingIn(p) THEN [threads[u] EXCEPT !.raced = TRUE] ELSE threads[u]]

\* middleware::authorize: the token finds a session, of a kind the route and
\* its path allow, with one of its roles, and a recent proof if it needs one.
\* Mutation of Permitted: the proof of a password lasts as long as the session.
PermittedOnOldProof(i, r) ==
    /\ Authenticates(i) /\ sessions[i].kind \in Route[r].kinds
    /\ RoleOf[sessions[i].of] \in Route[r].roles
    /\ Route[r].reauth => sessions[i].reauth # "Never"
Permitted(i, r) ==
    /\ Authenticates(i) /\ sessions[i].kind \in Route[r].kinds
    /\ RoleOf[sessions[i].of] \in Route[r].roles
    /\ Route[r].reauth => RecentlyReauthenticated(i)

\* A request for a route is let in, whatever it does then.
Enter(i, r) ==
    /\ Permitted(i, r) /\ Seen(i)
    /\ lastCall' = [route |-> r, kind |-> sessions[i].kind, key |-> Route[r].key,
                    role |-> RoleOf[sessions[i].of], proof |-> sessions[i].reauth]
    /\ UNCHANGED <<scene, accounts, audits, threads, epoch, basis, raced, credentialVars>>

-----------------------------------------------------------------------------
\* Logins.  One that begins knows a name, or an account of a phone it has proved.
Login(p, d, k, guess) ==
    [op |-> "Login", at |-> "Read", who |-> p, device |-> d, kind |-> k, guess |-> guess,
     saw |-> NoAccount, raced |-> FALSE, epoch |-> 0]

Unlogged == <<scene, accounts, audits, epoch, lastCall>>

\* Bound: every login under way can get a session.
Logins == {t \in Busied : threads[t].op = "Login"}
MayLogIn == nextId + Cardinality(Logins) <= Scenes[scene].ids

\* AdminAuthService::loginAs: a locked name is refused at once.
AdminLogin(t, n, d, k, guess) ==
    /\ Starts(t, "AdminLogin") /\ MayLogIn /\ ~Locked(n)
    /\ Begin(t, Login(n, d, k, guess))
    /\ UNCHANGED <<Unlogged, basis, raced, sessionVars, credentialVars>>

\* loginPassword, behind the limiter of password work.
UserLogin(t, u, d, guess, c) ==
    /\ Starts(t, "UserLogin") /\ MayLogIn
    /\ \E allowed \in BOOLEAN :
         /\ Allow(c, allowed)
         /\ IF allowed THEN Begin(t, Login(u, d, "User", guess))
                       ELSE UNCHANGED threads
    /\ UNCHANGED <<Unlogged, basis, raced, sessionVars, lockVars, codeVars>>

LoginReads(t) ==
    LET p == threads[t].who IN
    /\ At(t, "Login", "Read")
    /\ threads' = [threads EXCEPT ![t].at = "Judge", ![t].saw = accounts[p],
                      ![t].epoch = epoch[p], ![t].raced = Changing(p)]
    /\ UNCHANGED <<Unlogged, basis, raced, sessionVars, credentialVars>>

Right(op) == op.saw.state = "Enabled" /\ op.guess = op.saw.password
MayHave(p, k) ==
    RoleOf[p] \in {"Operator", "Owner"} \cup IF k = "Dashboard" THEN {"Viewer"} ELSE {}

\* A failure is counted; a role that may not have this token is not a failure.
AdminJudged(t) ==
    LET op == threads[t] IN
    /\ At(t, "Login", "Judge") /\ op.who \in Admins
    /\ IF ~Right(op) THEN RecordFailure(op.who) /\ Ends(t)
       ELSE IF ~MayHave(op.who, op.kind) THEN UNCHANGED lockVars /\ Ends(t)
       ELSE ClearFailures(op.who) /\ Goes(t, "Issue")
    /\ UNCHANGED <<Unlogged, basis, raced, sessionVars, codeVars, rateVars>>

UserJudged(t) ==
    /\ At(t, "Login", "Judge") /\ threads[t].who \in Users
    /\ IF Right(threads[t]) THEN Goes(t, "Issue") ELSE Ends(t)
    /\ UNCHANGED <<Unlogged, basis, raced, sessionVars, credentialVars>>

LoginIssues(t) ==
    LET op == threads[t] IN
    /\ At(t, "Login", "Issue") /\ Ends(t)
    /\ \/ /\ Issue(op.who, op.device, op.kind)
          /\ basis' = [basis EXCEPT ![nextId] = op.epoch]
          /\ raced' = raced \cup IF op.raced THEN {nextId} ELSE {}
       \/ NotIssued(op.who, op.device, op.kind) /\ UNCHANGED <<basis, raced>>
    /\ UNCHANGED <<Unlogged, credentialVars>>

\* loginSms and registerUser: the code is used up, ...
Owned(ph) ==
    {u \in Users : PhoneOf[u] = ph /\ accounts[u].state \in {"Enabled", "Disabled"}}
ByPhone(ph, d, guess, at) ==
    [Login(ph, d, "User", guess) EXCEPT !.at = at]

SmsLogin(t, ph, d, right) ==
    /\ Starts(t, "SmsLogin") /\ MayLogIn
    /\ IF right THEN Accepted(ph, "LOGIN") /\ Begin(t, ByPhone(ph, d, "none", "Find"))
                ELSE Rejected(ph, "LOGIN") /\ UNCHANGED threads
    /\ UNCHANGED <<Unlogged, basis, raced, sessionVars, lockVars, rateVars>>

Register(t, ph, d, w, right) ==
    /\ Starts(t, "Register") /\ MayLogIn /\ Owned(ph) = {}
    /\ IF right THEN Accepted(ph, "REGISTER") /\ Begin(t, ByPhone(ph, d, w, "Create"))
                ELSE Rejected(ph, "REGISTER") /\ UNCHANGED threads
    /\ UNCHANGED <<Unlogged, basis, raced, sessionVars, lockVars, rateVars>>

\* ... the account of the phone is read, ...
SmsFinds(t) ==
    LET ph == threads[t].who IN
    /\ At(t, "Login", "Find")
    /\ \/ Owned(ph) = {} /\ Goes(t, "Create")
       \/ \E u \in Owned(ph) :
            IF accounts[u].state # "Enabled" THEN Ends(t)
            ELSE threads' = [threads EXCEPT ![t].at = "Issue", ![t].who = u,
                               ![t].epoch = epoch[u], ![t].raced = Changing(u)]
    /\ UNCHANGED <<Unlogged, basis, raced, sessionVars, credentialVars>>

\* ... or made, unless the phone has one by now.
CreateAccount(t) ==
    LET op == threads[t] IN
    /\ At(t, "Login", "Create") /\ Writing = {}
    /\ \/ Owned(op.who) # {} /\ Ends(t) /\ UNCHANGED accounts
       \/ \E u \in Users :
            /\ Owned(op.who) = {} /\ PhoneOf[u] = op.who /\ accounts[u].state = "None"
            /\ accounts' = [accounts EXCEPT ![u] = NewAccount(op.guess)]
            /\ threads' = [threads EXCEPT ![t].at = "Issue", ![t].who = u,
                              ![t].epoch = epoch[u]]
    /\ UNCHANGED <<scene, audits, epoch, lastCall, basis, raced>>
    /\ UNCHANGED <<sessionVars, credentialVars>>

-----------------------------------------------------------------------------
\* Changes.  A change knows the session that asked for it, and its target.
Change(op, at, i, p) ==
    [op |-> op, at |-> at, by |-> i, who |-> p, saw |-> NoAccount, guess |-> "none",
     raced |-> FALSE]
Unchanged == <<scene, lastCall, basis, raced>>
\* Bound: the changes under way leave an account room for one more.
MayChange(p) ==
    accounts[p].version + Cardinality({t \in Busied : threads[t].who = p}) < MaxVersion

\* updateStatus, of an administrator and of a user, as its route let it in; the
\* version is the one the caller last saw.
SetStatus(t, i, p, state) ==
    /\ Starts(t, "SetStatus") /\ state \in {"Enabled", "Disabled"}
    /\ Permitted(i, IF p \in Admins THEN "admin.accounts.status" ELSE "admin.users.status")
    /\ ~(p = sessions[i].of /\ state = "Disabled") /\ MayChange(p)
    /\ Begin(t, [Change("SetStatus", "Write", i, p) EXCEPT
                   !.saw = [accounts[p] EXCEPT !.state = state]])
    /\ Seen(i)
    /\ UNCHANGED <<Unchanged, accounts, audits, epoch, credentialVars>>

\* Inside the transaction of the idempotency service: the row is written if its
\* version still holds, ...
StatusWrites(t) ==
    LET op == threads[t] IN
    /\ At(t, "SetStatus", "Write") /\ Writing = {}
    /\ IF accounts[op.who].version # op.saw.version
          \/ accounts[op.who].state \in {"None", "Deleted"}
       THEN Ends(t)
       ELSE threads' = Written(op.who, t,
              IF op.saw.state = "Disabled" THEN "Revoke" ELSE "Commit")
    /\ UNCHANGED <<Unchanged, accounts, audits, epoch, sessionVars, credentialVars>>

\* ... the sessions are revoked before it commits, ...
StatusRevokes(t) ==
    /\ At(t, "SetStatus", "Revoke") /\ RevokePrincipal(threads[t].who) /\ Goes(t, "Commit")
    /\ UNCHANGED <<Unchanged, accounts, audits, epoch, credentialVars>>

\* ... and it commits with its audit event, or rolls back.
StatusCommits(t) ==
    LET op == threads[t] IN
    /\ At(t, "SetStatus", "Commit") /\ Ends(t)
    /\ \/ /\ accounts' = [accounts EXCEPT
               ![op.who].state = op.saw.state, ![op.who].version = @ + 1]
          /\ audits' = [audits EXCEPT ![op.who] = @ + 1]
          /\ epoch' = IF op.saw.state = "Disabled" THEN [epoch EXCEPT ![op.who] = @ + 1]
                                                   ELSE epoch
       \/ UNCHANGED <<accounts, audits, epoch>>
    /\ UNCHANGED <<Unchanged, sessionVars, credentialVars>>

\* changeOwnPassword, and updateCredential of a user by password or by code:
\* what the account was is read and the proof judged, ...
ChangePassword(t, i, w, guess) ==
    LET p == sessions[i].of IN
    /\ Starts(t, "ChangePassword") /\ MayChange(p)
    /\ Permitted(i, IF p \in Admins THEN "admin.me.password" ELSE "user.me.credential")
    /\ IF guess = accounts[p].password
       THEN Begin(t, [Change("ChangePassword", "Write", i, p) EXCEPT
                        !.saw = accounts[p], !.guess = w])
       ELSE UNCHANGED threads
    /\ Seen(i)
    /\ UNCHANGED <<Unchanged, accounts, audits, epoch, credentialVars>>

ResetPassword(t, i, w, right) ==
    LET p == sessions[i].of IN
    /\ Starts(t, "ResetPassword") /\ MayChange(p)
    /\ Permitted(i, "user.me.credential") /\ accounts[p].state # "Deleted"
    /\ IF right THEN /\ Accepted(PhoneOf[p], "RESET")
                     /\ Begin(t, [Change("ChangePassword", "Write", i, p) EXCEPT
                                    !.saw = accounts[p], !.guess = w])
                ELSE Rejected(PhoneOf[p], "RESET") /\ UNCHANGED threads
    /\ Seen(i)
    /\ UNCHANGED <<Unchanged, accounts, audits, epoch, lockVars, rateVars>>

\* ... and an administrator's password is replaced only if it is still the one
\* that was proved, a user's whatever it is by now.
PasswordWrites(t) ==
    LET op == threads[t]  p == op.who IN
    /\ At(t, "ChangePassword", "Write") /\ Writing = {}
    /\ IF IF p \in Admins THEN accounts[p].salt # op.saw.salt
                          ELSE accounts[p].state = "Deleted"
       THEN Ends(t) /\ UNCHANGED <<accounts, audits, epoch>>
       ELSE /\ accounts' = [accounts EXCEPT
                 ![p].password = op.guess, ![p].salt = @ + 1, ![p].version = @ + 1]
            /\ audits' = [audits EXCEPT ![p] = @ + IF p \in Admins THEN 1 ELSE 0]
            /\ epoch' = [epoch EXCEPT ![p] = @ + 1]
            /\ threads' = Written(p, t, "Revoke")
    /\ UNCHANGED <<Unchanged, sessionVars, credentialVars>>

\* The other sessions are revoked; the one that asked goes on.
PasswordRevokes(t) ==
    LET op == threads[t] IN
    /\ At(t, "ChangePassword", "Revoke") /\ RevokeOthers(op.who, op.by) /\ Ends(t)
    /\ basis' = [basis EXCEPT ![op.by] = epoch[op.who]]
    /\ UNCHANGED <<scene, lastCall, raced, accounts, audits, epoch, credentialVars>>

\* deleteAccount, proved by password or code: the account is made anonymous, then
\* its sessions are revoked.  (An account with a flow is refused: ChargeFlow.)
DeleteAccount(t, i, proof) ==
    LET p == sessions[i].of IN
    /\ Starts(t, "DeleteAccount") /\ Permitted(i, "user.me.delete") /\ Seen(i)
    /\ MayChange(p) /\ accounts[p].state # "Deleted"
    /\ \/ /\ proof = "password" /\ accounts[p].password # "none" /\ UNCHANGED codeVars
          /\ Begin(t, Change("DeleteAccount", "Write", i, p))
       \/ /\ proof = "code" /\ Accepted(PhoneOf[p], "RESET")
          /\ Begin(t, Change("DeleteAccount", "Write", i, p))
       \/ /\ proof = "wrong code" /\ Rejected(PhoneOf[p], "RESET")
          /\ UNCHANGED threads
    /\ UNCHANGED <<Unchanged, accounts, audits, epoch, lockVars, rateVars>>
DeletionWrites(t) ==
    LET p == threads[t].who IN
    /\ At(t, "DeleteAccount", "Write") /\ Writing = {}
    /\ IF accounts[p].state = "Deleted" THEN Ends(t) /\ UNCHANGED <<accounts, epoch>>
       ELSE /\ accounts' = [accounts EXCEPT
                 ![p].state = "Deleted", ![p].password = "none", ![p].version = @ + 1]
            /\ epoch' = [epoch EXCEPT ![p] = @ + 1]
            /\ threads' = Written(p, t, "Revoke")
    /\ UNCHANGED <<Unchanged, audits, sessionVars, credentialVars>>
DeletionRevokes(t) ==
    /\ At(t, "DeleteAccount", "Revoke") /\ RevokePrincipal(threads[t].who) /\ Ends(t)
    /\ UNCHANGED <<Unchanged, accounts, audits, epoch, credentialVars>>

\* updateNickname of the version the user saw, updateAvatar of any: the version
\* moves, and a status seen before is stale.
EditProfile(i) ==
    LET p == sessions[i].of IN
    /\ Plays("EditProfile") /\ Permitted(i, "user.me.nickname") /\ Seen(i)
    /\ MayChange(p) /\ accounts[p].state # "Deleted" /\ Writing = {}
    /\ accounts' = [accounts EXCEPT ![p].version = @ + 1]
    /\ UNCHANGED <<Unchanged, threads, audits, epoch, credentialVars>>

\* createAdminAccount: the name is free or it is not.
CreateAdmin(i, p, w) ==
    /\ Plays("CreateAdmin") /\ Permitted(i, "admin.accounts.create") /\ Seen(i)
    /\ accounts[p].state = "None" /\ Writing = {}
    /\ accounts' = [accounts EXCEPT ![p] = NewAccount(w)]
    /\ audits' = [audits EXCEPT ![p] = @ + 1]
    /\ UNCHANGED <<Unchanged, threads, epoch, credentialVars>>

\* reauthenticate: the password is proved, then the session marked if it is there.
Reauthenticate(t, i) ==
    LET p == sessions[i].of IN
    /\ Starts(t, "Reauthenticate") /\ Permitted(i, "admin.reauth") /\ Seen(i)
    /\ accounts[p].state = "Enabled"
    /\ Begin(t, Change("Reauthenticate", "Mark", i, p))
    /\ UNCHANGED <<Unchanged, accounts, audits, epoch, credentialVars>>
ReauthMarks(t) ==
    /\ At(t, "Reauthenticate", "Mark") /\ Ends(t)
    /\ \/ MarkReauthenticated(threads[t].by)
       \/ threads[t].by \notin Live /\ UNCHANGED sessionVars
    /\ UNCHANGED <<Unchanged, accounts, audits, epoch, credentialVars>>

-----------------------------------------------------------------------------
\* Logging out, a user's list of sessions, and the table's own cleaning.
Logout(i, j) ==
    /\ Plays("Logout") /\ Authenticates(i) /\ j \in Live
    /\ i = j \/ Permitted(i, "user.sessions.revoke")
    /\ RevokeOne(sessions[i].of, j)
    /\ UNCHANGED <<accessVars, credentialVars>>

\* A request with a token that is over, and the periodic cleanup.
SessionsEnd ==
    /\ CleanupSessions \/ \E i \in Ids : NotSeen(i)
    /\ UNCHANGED <<accessVars, credentialVars>>

\* Codes are asked for by anyone.
AskForCode(ph, purpose) ==
    /\ Plays(purpose) /\ (IssueCode(ph, purpose) \/ CooldownOver(ph, purpose)
                          \/ CodeExpires(ph, purpose) \/ CleanupCodes)
    /\ UNCHANGED <<accessVars, sessionVars>>

\* Clocks: of sessions, of locks, of codes and of the limiter.
TimePasses ==
    /\ \/ Plays("Age") /\ (\E i \in Ids : Older(i)) /\ UNCHANGED credentialVars
       \/ /\ Plays("Lock") /\ UNCHANGED sessionVars
          /\ \E n \in Names : LockOver(n) \/ Forget(n)
       \/ Plays("Day") /\ DayPasses /\ UNCHANGED sessionVars
       \/ Plays("Tick") /\ (Tick \/ OpenWindow) /\ UNCHANGED sessionVars
    /\ UNCHANGED accessVars

LoginSteps ==
    LET from == Scenes[scene] IN
    \E t \in from.threads :
      \/ \E n \in Admins, d \in from.devices, k \in from.kinds, w \in from.guesses :
           AdminLogin(t, n, d, k, w)
      \/ \E u \in Users, d \in from.devices, w \in from.guesses, c \in from.clients :
           UserLogin(t, u, d, w, c)
      \/ \E ph \in Phones, d \in from.devices, right \in BOOLEAN :
           \/ SmsLogin(t, ph, d, right)
           \/ \E w \in Passwords : Register(t, ph, d, w, right)
      \/ LoginReads(t) \/ AdminJudged(t) \/ UserJudged(t) \/ LoginIssues(t)
      \/ SmsFinds(t) \/ CreateAccount(t)

ChangeSteps ==
    \E t \in Scenes[scene].threads :
      \/ \E i \in Live, p \in Scenes[scene].targets, state \in {"Enabled", "Disabled"} :
           SetStatus(t, i, p, state)
      \/ StatusWrites(t) \/ StatusRevokes(t) \/ StatusCommits(t)
      \/ \E i \in Live, w, guess \in Passwords : ChangePassword(t, i, w, guess)
      \/ \E i \in Live, w \in Passwords, right \in BOOLEAN : ResetPassword(t, i, w, right)
      \/ PasswordWrites(t) \/ PasswordRevokes(t)
      \/ \E i \in Live, proof \in {"password", "code", "wrong code"} :
           DeleteAccount(t, i, proof)
      \/ DeletionWrites(t) \/ DeletionRevokes(t)
      \/ \E i \in Live : Reauthenticate(t, i)
      \/ ReauthMarks(t)

Next ==
    \/ LoginSteps \/ ChangeSteps
    \/ Plays("Enter") /\ \E i \in Live, r \in DOMAIN Route : Enter(i, r)
    \/ \E i \in Live, p \in Admins, w \in Passwords : CreateAdmin(i, p, w)
    \/ \E i \in Live : EditProfile(i) \/ \E j \in Live : Logout(i, j)
    \/ SessionsEnd
    \/ \E ph \in Phones, purpose \in Purposes : AskForCode(ph, purpose)
    \/ TimePasses

Spec == Init /\ [][Next]_vars

-----------------------------------------------------------------------------
\* A live session stands on the account as it is: what was disabled, deleted or
\* given another password keeps no session from before, except one whose login
\* overlapped the change (it had read the account and not yet its session).
\* With it go the indexes of the sessions and their limits, the versions of the
\* accounts and their audits, and a phone's one account (AccessTypeOK).
NoStaleSession ==
    /\ AccessTypeOK
    /\ \A i \in Live : LET p == sessions[i].of IN
          i \in raced \/ Changing(p) \/ basis[i] = epoch[p]

\* However logins interleave, a name is guessed wrong at most five times, and
\* once by each other login under way, before it is locked; a phone's codes are
\* guessed wrong as often a day as its codes have tries; and a client gets no
\* more password work in a stretch of time than its bucket and that time allow,
\* unless its bucket was evicted.  The tables keep their limits, and the list of
\* buckets has each once, by age (CredentialsTypeOK).
GuessesAreBounded ==
    /\ CredentialsTypeOK
    /\ \A n \in Names : misses[n] <= MaxFailures + Cardinality(Threads) - 1
    /\ \A ph \in Phones : tries[ph] <= MaxTries * (DailyIssues + Cardinality(Purposes))
    /\ \A c \in Clients \ admitted.lost : admitted.of[c] <= Burst + admitted.ticks

\* What the interface promises of its routes: each area is for one kind of token;
\* administrators' accounts, the audit log and backups are for owners; creating
\* and disabling administrators, restarts, releases and backups follow a password
\* proved within a quarter of an hour; what moves a flow, money, a status or a
\* charger comes under a key, and a recharge and a settlement under one for good.
OwnersOnly == {"admin.accounts.list", "admin.accounts.create", "admin.accounts.status",
               "admin.audit", "admin.backups.create", "admin.backups.verify"}
Sensitive == {"admin.accounts.create", "admin.accounts.status", "admin.backups.create",
              "admin.chargers.restart", "admin.flows.release"}
Money == {"user.wallet.recharge", "user.flows.settle"}
Keyed == Money \cup
         {"user.flows.create", "user.flows.confirm", "user.flows.cancel",
          "user.flows.start", "admin.users.status", "admin.chargers.status",
          "admin.stations.create", "admin.chargers.create"} \cup Sensitive
OnlyPermitted ==
    lastCall # NoCall =>
      LET r == lastCall.route IN
      /\ r \in OwnersOnly => lastCall.role = "Owner"
      /\ r \in Sensitive => lastCall.kind = "Administrator" /\ lastCall.proof = "Recent"
      /\ lastCall.role = "User" <=> lastCall.kind = "User"
      /\ lastCall.role = "Viewer" => r = "dashboard.summary"
      /\ lastCall.kind = "Dashboard" => r \notin Keyed
      /\ r \in Keyed => lastCall.key # "No"
      /\ r \in Money => lastCall.key = "ForGood"
=============================================================================
