------------------------------ MODULE Accounts ------------------------------
(***************************************************************************)
(* Sign-in, two-factor enrolment, password reset and logout of the         *)
(* SecureVault backend: app/src/routes/session.js, two-factor.js and       *)
(* password-reset.js over the ports users.js and sessions.js, the session  *)
(* issuer and the audit log.                                               *)
(*                                                                         *)
(* Every request is a process that runs from one awaited database call to  *)
(* the next, and any other request may run in between.  A handler reads    *)
(* the user once, at its first step, and keeps working from that snapshot; *)
(* a database transaction becomes visible in the single step that commits  *)
(* it.  Any awaited call may fail and the process may die, which ends the  *)
(* request where it stands (Fail).                                         *)
(*                                                                         *)
(* A request that changes nothing and writes nothing (an unknown email, a  *)
(* 409, a weak new password) is a stuttering step and has no action.       *)
(***************************************************************************)
EXTENDS UserRow, FiniteSets

CONSTANTS
  Users,            \* the registered accounts
  Requests,         \* the requests that may be in flight at the same time
  InitialPassword,  \* the password every account was registered with
  MaxSessions,      \* bound: SESSIONS rows ever inserted
  MaxClock          \* bound: the clock, in minutes, stops here

ASSUME AccountsAssumption ==
  /\ IsFiniteSet(Requests)
  /\ InitialPassword \in Passwords
  /\ MaxSessions \in Nat
  /\ MaxClock \in Nat

VARIABLES
  user,         \* USERS: one Row for each account
  twoFactor,    \* TWO_FACTOR_CONFIGS: one TwoFactor for each account
  sessions,     \* SESSIONS: the committed rows
  nextSession,  \* the AUTO_INCREMENT of SESSIONS; a rollback does not return it
  audit,        \* AUDIT_LOG: the committed entries
  pc,           \* what each request awaits next
  req,          \* what each request holds across its awaits
  now           \* the clock

vars == <<user, twoFactor, sessions, nextSession, audit, pc, req, now>>

(***************************************************************************)
(* A row of SESSIONS.  `proved', a history field, is the password that the *)
(* login behind the session proved.                                        *)
(***************************************************************************)
Session == [id : Nat, user : Users, proved : Passwords]

(***************************************************************************)
(* An audit entry.  `about', a history field, names the session, the       *)
(* secret or the password the entry describes, 0 for a failed login.       *)
(***************************************************************************)
Actions ==
  { "LOGIN_FAILED", "ACCOUNT_LOCKED", "DEVICE_SEEN", "LOGIN_SUCCEEDED",
    "SESSION_ENDED", "TWO_FACTOR_ENABLED", "MASTER_PASSWORD_CHANGED" }

AuditEntry ==
  [action : Actions, user : Users, about : Nat \cup Secrets \cup Passwords]

Entry(action, u, about) == [action |-> action, user |-> u, about |-> about]

(***************************************************************************)
(* A request in flight: its kind, the account, the password and the secret *)
(* of the snapshot it verified (the new password for a reset), whether it  *)
(* still has to enable the configuration, the error it failed with, and    *)
(* its session.                                                            *)
(***************************************************************************)
Kinds == {"login", "enroll", "confirm", "reset", "logout"}

Errors == {"ok", "ACCOUNT_LOCKED", "INVALID_CREDENTIALS",
           "TWO_FACTOR_NOT_ENABLED", "INVALID_TWO_FACTOR"}

Request ==
  [kind : Kinds, user : Users, password : Passwords,
   secret : Secrets \cup {NoSecret}, enables : BOOLEAN, err : Errors, sid : Nat]

NoRequest == [kind |-> "none"]

Steps == {"idle", "logFailure", "count", "start", "device", "commit", "clear",
          "upsert", "change", "end"}

(***************************************************************************)
(* A submitted code: made from a secret, or from none (NoSecret).          *)
(***************************************************************************)
Codes == Secrets \cup {NoSecret}

Idle(r) == pc[r] = "idle"

(***************************************************************************)
(* Row locks.  From its first statement to its commit, the transaction of  *)
(* a login holds the USERS row shared (the foreign key of the SESSIONS row *)
(* it inserted), so no UPDATE of that row gets in; that of a confirmation  *)
(* which enables also holds the configuration row it updated.              *)
(***************************************************************************)
SigningIn(r) == pc[r] \in {"device", "commit"}

UserRowFree(u) == \A r \in Requests : SigningIn(r) => req[r].user # u

ConfigRowFree(u) ==
  \A r \in Requests : SigningIn(r) => ~(req[r].enables /\ req[r].user = u)

(***************************************************************************)
(* The first step of every handler: findByEmail (the session check, for a  *)
(* logout), and the checks that need nothing but the snapshot.  `next' is  *)
(* the call it awaits.                                                     *)
(***************************************************************************)
Begin(r, request, next) ==
  /\ Idle(r)
  /\ req' = [req EXCEPT ![r] = request]
  /\ pc' = [pc EXCEPT ![r] = next]
  /\ UNCHANGED <<user, twoFactor, sessions, nextSession, audit, now>>

Goto(r, next) == pc' = [pc EXCEPT ![r] = next] /\ UNCHANGED req

Respond(r) ==
  /\ pc' = [pc EXCEPT ![r] = "idle"]
  /\ req' = [req EXCEPT ![r] = NoRequest]

(***************************************************************************)
(* POST /api/session.                                                      *)
(***************************************************************************)
Login(r) ==
  \E u \in Users, password \in Passwords, code \in Codes :
    LET err == VerifyBoth(user[u], twoFactor[u], password, code)
    IN  Begin(r, [kind |-> "login", user |-> u, password |-> password,
                  secret |-> twoFactor[u].secret, enables |-> FALSE,
                  err |-> err, sid |-> 0],
              IF err = "ok" THEN "start" ELSE "logFailure")

(***************************************************************************)
(* The failure is logged before it is counted, and before the 401.         *)
(***************************************************************************)
FailureAction(err) ==
  IF err = "ACCOUNT_LOCKED" THEN "ACCOUNT_LOCKED" ELSE "LOGIN_FAILED"

LogFailure(r) ==
  /\ pc[r] = "logFailure"
  /\ audit' = audit \cup {Entry(FailureAction(req[r].err), req[r].user, 0)}
  /\ IF Counted(req[r].err) THEN Goto(r, "count") ELSE Respond(r)
  /\ UNCHANGED <<user, twoFactor, sessions, nextSession, now>>

CountFailure(r) ==
  /\ pc[r] = "count"
  /\ UserRowFree(req[r].user)
  /\ user' = [user EXCEPT ![req[r].user] = RecordFailed(@, now)]
  /\ Respond(r)
  /\ UNCHANGED <<twoFactor, sessions, nextSession, audit, now>>

(***************************************************************************)
(* POST /api/2fa/enroll.  A wrong password is counted but not logged; a    *)
(* locked account is refused; a snapshot that is enabled is a 409.         *)
(***************************************************************************)
Enroll(r) ==
  \E u \in Users, password \in Passwords :
    LET err == VerifyMasterPassword(user[u], password)
    IN  /\ \/ Counted(err)
           \/ err = "ok" /\ twoFactor[u].status # "enabled"
        /\ Begin(r, [kind |-> "enroll", user |-> u, password |-> password,
                     secret |-> twoFactor[u].secret, enables |-> FALSE,
                     err |-> err, sid |-> 0],
                 IF err = "ok" THEN "upsert" ELSE "count")

(***************************************************************************)
(* generateSecret: never the secret the account already has.               *)
(***************************************************************************)
UnsetSecret(u) == {NoSecret}        \* faulty variant: upserted before it is generated

NewSecrets(u) == Secrets \ {twoFactor[u].secret}

UpsertPending(r) ==
  /\ pc[r] = "upsert"
  /\ ConfigRowFree(req[r].user)
  /\ \E secret \in NewSecrets(req[r].user) :
       twoFactor' = [twoFactor EXCEPT ![req[r].user] = PendingWith(secret)]
  /\ Respond(r)
  /\ UNCHANGED <<user, sessions, nextSession, audit, now>>

(***************************************************************************)
(* POST /api/2fa/confirm.  The code is checked against a view of the       *)
(* snapshot in which the configuration is enabled.                         *)
(***************************************************************************)
EnabledView(config) == [config EXCEPT !.status = "enabled"]

Confirm(r) ==
  \E u \in Users, password \in Passwords, code \in Codes :
    LET config == twoFactor[u]
        err    == VerifyBoth(user[u], EnabledView(config), password, code)
    IN  /\ err = "ok" \/ Counted(err)
        /\ VerifyMasterPassword(user[u], password) = "ok" => config.status # "none"
        /\ Begin(r, [kind |-> "confirm", user |-> u, password |-> password,
                     secret |-> config.secret,
                     enables |-> config.status # "enabled",
                     err |-> err, sid |-> 0],
                 IF err = "ok" THEN "start" ELSE "count")

(***************************************************************************)
(* The transaction that login and confirm share.  It updates the           *)
(* configuration that is still to be enabled and inserts the session,      *)
(* neither visible to anybody yet;                                         *)
(***************************************************************************)
StartSession(r) ==
  /\ pc[r] = "start"
  /\ req[r].enables => ConfigRowFree(req[r].user)
  /\ nextSession < MaxSessions
  /\ nextSession' = nextSession + 1
  /\ req' = [req EXCEPT ![r].sid = nextSession + 1]
  /\ pc' = [pc EXCEPT ![r] = "device"]
  /\ UNCHANGED <<user, twoFactor, sessions, audit, now>>

(***************************************************************************)
(* issues the token, for which onDeviceSeen appends the sighting on a      *)
(* connection of its own, so that the entry outlives a rollback;           *)
(***************************************************************************)
RecordDevice(r) ==
  /\ pc[r] = "device"
  /\ audit' = audit \cup {Entry("DEVICE_SEEN", req[r].user, req[r].sid)}
  /\ Goto(r, "commit")
  /\ UNCHANGED <<user, twoFactor, sessions, nextSession, now>>

(***************************************************************************)
(* and commits: a pending configuration is enabled, the session and the    *)
(* entries of both appear.                                                 *)
(***************************************************************************)
LoginEntriesWithoutLogin(r) ==      \* faulty variant: the login itself is not logged
  IF req[r].enables
  THEN {Entry("TWO_FACTOR_ENABLED", req[r].user, req[r].secret)} ELSE {}

LoginEntries(r) ==
  {Entry("LOGIN_SUCCEEDED", req[r].user, req[r].sid)}
    \cup (IF req[r].enables
          THEN {Entry("TWO_FACTOR_ENABLED", req[r].user, req[r].secret)} ELSE {})

CommitLogin(r) ==
  /\ pc[r] = "commit"
  /\ sessions' = sessions \cup
       {[id |-> req[r].sid, user |-> req[r].user, proved |-> req[r].password]}
  /\ twoFactor' = IF req[r].enables
                  THEN [twoFactor EXCEPT ![req[r].user] = Enabled(@)]
                  ELSE twoFactor
  /\ audit' = audit \cup LoginEntries(r)
  /\ Goto(r, "clear")
  /\ UNCHANGED <<user, nextSession, now>>

(***************************************************************************)
(* After the commit, outside it, the failed-attempt counter is cleared.    *)
(***************************************************************************)
ClearFailures(r) ==
  /\ pc[r] = "clear"
  /\ UserRowFree(req[r].user)
  /\ user' = [user EXCEPT ![req[r].user] = ResetFailed(@)]
  /\ Respond(r)
  /\ UNCHANGED <<twoFactor, sessions, nextSession, audit, now>>

(***************************************************************************)
(* POST /api/password-reset: a locked account and one without an enabled   *)
(* configuration are refused, a wrong code is counted, a right one lets    *)
(* the caller set the new password.                                        *)
(***************************************************************************)
MayResetLocked(u) ==                \* faulty variant: the lock is not looked at
  twoFactor[u].status = "enabled"

MayReset(u) == ~user[u].locked /\ twoFactor[u].status = "enabled"

Reset(r) ==
  \E u \in Users, new \in Passwords, code \in Codes :
    LET err == VerifyTwoFactorCode(twoFactor[u], code)
    IN  /\ MayReset(u)
        /\ Begin(r, [kind |-> "reset", user |-> u, password |-> new,
                     secret |-> twoFactor[u].secret, enables |-> FALSE,
                     err |-> err, sid |-> 0],
                 IF err = "ok" THEN "change" ELSE "count")

(***************************************************************************)
(* Its transaction: the hash, every session of the account (which          *)
(* revokeAllForUser deletes), the entry.                                   *)
(***************************************************************************)
SessionsKept(u) == sessions         \* faulty variant: the DELETE matches no row

SessionsWithout(u) == {s \in sessions : s.user # u}

ResetEntries(r) ==
  {Entry("MASTER_PASSWORD_CHANGED", req[r].user, req[r].password)}

ChangePassword(r) ==
  /\ pc[r] = "change"
  /\ UserRowFree(req[r].user)
  /\ user' = [user EXCEPT ![req[r].user] = SetHash(@, req[r].password)]
  /\ sessions' = SessionsWithout(req[r].user)
  /\ audit' = audit \cup ResetEntries(r)
  /\ Goto(r, "clear")
  /\ UNCHANGED <<twoFactor, nextSession, now>>

(***************************************************************************)
(* DELETE /api/session: the middleware finds the session live, then the    *)
(* handler's transaction deletes it, if it is still there, and logs it.    *)
(***************************************************************************)
Logout(r) ==
  \E s \in sessions :
    Begin(r, [kind |-> "logout", user |-> s.user, password |-> s.proved,
              secret |-> NoSecret, enables |-> FALSE, err |-> "ok", sid |-> s.id],
          "end")

RevokeNothing(sid) == sessions      \* faulty variant: the DELETE matches no row

Revoked(sid) == {s \in sessions : s.id # sid}

EndSession(r) ==
  /\ pc[r] = "end"
  /\ sessions' = Revoked(req[r].sid)
  /\ audit' = audit \cup {Entry("SESSION_ENDED", req[r].user, req[r].sid)}
  /\ Respond(r)
  /\ UNCHANGED <<user, twoFactor, nextSession, now>>

(***************************************************************************)
(* The awaited call rejects, or the process dies: what was not committed   *)
(* is rolled back, what was committed stays.                               *)
(***************************************************************************)
Fail(r) ==
  /\ ~Idle(r)
  /\ Respond(r)
  /\ UNCHANGED <<user, twoFactor, sessions, nextSession, audit, now>>

Tick ==
  /\ now < MaxClock
  /\ now' = now + 1
  /\ UNCHANGED <<user, twoFactor, sessions, nextSession, audit, pc, req>>

Init ==
  /\ user = [u \in Users |-> NewRow(InitialPassword)]
  /\ twoFactor = [u \in Users |-> NoTwoFactor]
  /\ sessions = {}
  /\ nextSession = 0
  /\ audit = {}
  /\ pc = [r \in Requests |-> "idle"]
  /\ req = [r \in Requests |-> NoRequest]
  /\ now = 0

Next ==
  \/ \E r \in Requests :
       \/ Login(r) \/ Enroll(r) \/ Confirm(r) \/ Reset(r) \/ Logout(r)
       \/ LogFailure(r) \/ CountFailure(r) \/ ClearFailures(r)
       \/ UpsertPending(r) \/ ChangePassword(r) \/ EndSession(r)
       \/ StartSession(r) \/ RecordDevice(r) \/ CommitLogin(r)
       \/ Fail(r)
  \/ Tick

Spec == Init /\ [][Next]_vars

------------------------------------------------------------------------------
(***************************************************************************)
(* Types: a request holds a record of its own kind while it is in flight.  *)
(***************************************************************************)
TypeOK ==
  /\ user \in [Users -> Row]
  /\ twoFactor \in [Users -> TwoFactor]
  /\ sessions \subseteq Session
  /\ nextSession \in Nat
  /\ audit \subseteq AuditEntry
  /\ pc \in [Requests -> Steps]
  /\ DOMAIN req = Requests
  /\ \A r \in Requests :
       req[r] \in (IF Idle(r) THEN {NoRequest} ELSE Request)
  /\ now \in Nat

(***************************************************************************)
(* Whatever fails and in whatever order requests interleave, what the      *)
(* account tables say is in the audit log: a live session has its login    *)
(* and its device sighting (session-issuer.js: "an unlogged login is worse *)
(* than a failed one"), an enabled second factor the entry that enabled    *)
(* one, a hash other than the registered one its change.                   *)
(***************************************************************************)
StateIsAudited ==
  /\ \A s \in sessions :
       /\ Entry("LOGIN_SUCCEEDED", s.user, s.id) \in audit
       /\ Entry("DEVICE_SEEN", s.user, s.id) \in audit
  /\ \A u \in Users :
       /\ twoFactor[u].status = "enabled" =>
            \E e \in audit : e.action = "TWO_FACTOR_ENABLED" /\ e.user = u
       /\ user[u].hash # InitialPassword =>
            Entry("MASTER_PASSWORD_CHANGED", u, user[u].hash) \in audit

(***************************************************************************)
(* A session that was started is live exactly until an entry accounts for  *)
(* its end: its own SESSION_ENDED, after which it is gone for good, or a   *)
(* password change of the same account (logout and reset of one account    *)
(* never touch another's sessions).                                        *)
(***************************************************************************)
SessionEndsAudited ==
  \A e \in audit : e.action = "LOGIN_SUCCEEDED" =>
    IF \E s \in sessions : s.id = e.about
    THEN Entry("SESSION_ENDED", e.user, e.about) \notin audit
    ELSE \/ Entry("SESSION_ENDED", e.user, e.about) \in audit
         \/ \E c \in audit : c.action = "MASTER_PASSWORD_CHANGED" /\ c.user = e.user

(***************************************************************************)
(* The flag and the counter of users.js never drift apart, although        *)
(* failures are counted and counters cleared outside every transaction,    *)
(* from snapshots that may be stale.                                       *)
(***************************************************************************)
LockTracksCounter ==
  \A u \in Users : user[u].locked <=> user[u].failed + 1 >= LockoutThreshold

(***************************************************************************)
(* Guesses in flight when the lock trips may still be counted, but no      *)
(* more: the counter never passes the threshold by more than the requests  *)
(* that can run at once.                                                   *)
(***************************************************************************)
FailureCap ==
  \A u \in Users : user[u].failed + 2 <= LockoutThreshold + Cardinality(Requests)

(***************************************************************************)
(* The lockout of users.js: the flag says what the counter says, and the   *)
(* counter stays within reach of the threshold.                            *)
(***************************************************************************)
Lockout == LockTracksCounter /\ FailureCap

(***************************************************************************)
(* A lock outlasts everything the code can do: once no request that read   *)
(* the account unlocked is still on its way to a session or to a new       *)
(* password, no login, confirmation or reset lifts it, and none starts a   *)
(* session.                                                                *)
(***************************************************************************)
LockedForGood(u) ==
  /\ user[u].locked
  /\ \A r \in Requests :
       pc[r] \in {"start", "device", "commit", "change", "clear"} => req[r].user # u

LockIsPermanent ==
  [][\A u \in Users : LockedForGood(u) =>
       /\ LockedForGood(u)'
       /\ {s \in sessions' : s.user = u} \subseteq sessions]_vars

(***************************************************************************)
(* sessions.js: a reset must kick every live session.  It does but for one *)
(* race: a session, or a login on its way to one, comes to rest on a       *)
(* password that is not the account's any more only when a reset changes   *)
(* the password between a login's check of it and that login's own         *)
(* transaction, for which the reset would have waited.                     *)
(***************************************************************************)
OnCurrentPassword(u) ==
  /\ \A s \in sessions : s.user = u => s.proved = user[u].hash
  /\ \A r \in Requests :
       pc[r] \in {"start", "device", "commit"} /\ req[r].user = u =>
         req[r].password = user[u].hash

KickedUnlessRaced ==
  [][\A u \in Users : OnCurrentPassword(u) /\ ~OnCurrentPassword(u)' =>
       /\ user'[u].hash # user[u].hash
       /\ \E r \in Requests : pc[r] = "start" /\ req[r].user = u]_vars

------------------------------------------------------------------------------
(***************************************************************************)
(* Accounts implements AccountLedger: the requests, their snapshots and    *)
(* their failures only decide which of its steps are taken.                *)
(***************************************************************************)
LedgerActions ==
  {"LOGIN_SUCCEEDED", "SESSION_ENDED", "TWO_FACTOR_ENABLED", "MASTER_PASSWORD_CHANGED"}

LiveSessions == {<<s.user, s.id>> : s \in sessions}

EnabledUsers == {u \in Users : twoFactor[u].status = "enabled"}

LedgerEntries == {e \in audit : e.action \in LedgerActions}

Ledger == INSTANCE AccountLedger WITH
            SessionIds <- 1 .. MaxSessions,
            live <- LiveSessions, enabled <- EnabledUsers, log <- LedgerEntries

LedgerSpec == Ledger!Spec

------------------------------------------------------------------------------
(***************************************************************************)
(* What the repository says of the program and the code does not do.       *)
(*                                                                         *)
(* A reset kicks every live session (sessions.js): no session rests on a   *)
(* password that is not the account's any more.                            *)
(***************************************************************************)
NoSessionOutlivesReset ==
  \A s \in sessions : s.proved = user[s.user].hash
==============================================================================
