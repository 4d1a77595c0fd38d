---------------------------- MODULE AccountsProofs ----------------------------
(***************************************************************************)
(* Theorems about Accounts, for any number of accounts, requests,          *)
(* passwords and secrets, any threshold and any bounds.                    *)
(***************************************************************************)
EXTENDS Accounts, FiniteSetTheorems, TLAPS

------------------------------------------------------------------------------
(***************************************************************************)
(* The row operators: they keep a row a row, and the flag and the counter  *)
(* together.                                                               *)
(***************************************************************************)
Coupled(row) == row.locked <=> row.failed + 1 >= LockoutThreshold

LEMMA RecordFailedRow ==
  ASSUME NEW row \in Row, NEW t \in Nat
  PROVE  /\ RecordFailed(row, t) \in Row
         /\ RecordFailed(row, t).hash = row.hash
         /\ RecordFailed(row, t).failed = row.failed + 1
         /\ row.locked => RecordFailed(row, t).locked
         /\ Coupled(row) => Coupled(RecordFailed(row, t))
  <1> DEFINE trips == row.failed + 1 + 1 >= LockoutThreshold
             new == RecordFailed(row, t)
  <1>1. new \in Row
    <2>1. row.failed + 1 \in Nat
          /\ (IF trips THEN t + LockoutMinutes ELSE row.lockoutUntil) \in Nat
      BY RowAssumption DEF Row
    <2>2. (IF trips THEN TRUE ELSE row.locked) \in BOOLEAN
      <3>1. row.locked \in BOOLEAN
        BY DEF Row
      <3>2. QED
        BY <3>1, Zenon
    <2>3. new = [row EXCEPT
             !.failed = row.failed + 1,
             !.locked = IF trips THEN TRUE ELSE row.locked,
             !.lockoutUntil = IF trips THEN t + LockoutMinutes ELSE row.lockoutUntil]
      BY DEF RecordFailed
    <2> HIDE DEF trips, new
    <2>4. QED
      BY <2>1, <2>2, <2>3 DEF Row
  <1>2. new.hash = row.hash /\ new.failed = row.failed + 1
    BY DEF RecordFailed, Row
  <1>3. row.locked => new.locked
    BY DEF RecordFailed, Row
  <1>4. Coupled(row) => Coupled(new)
    <2>1. CASE trips
      BY <2>1, RowAssumption DEF RecordFailed, Row, Coupled
    <2>2. CASE ~trips
      BY <2>2, RowAssumption DEF RecordFailed, Row, Coupled
    <2>3. QED
      BY <2>1, <2>2
  <1>5. QED
    BY <1>1, <1>2, <1>3, <1>4

LEMMA ResetFailedRow ==
  ASSUME NEW row \in Row
  PROVE  /\ ResetFailed(row) \in Row
         /\ ResetFailed(row).hash = row.hash
         /\ ResetFailed(row).failed = 0
         /\ Coupled(ResetFailed(row))
  <1>1. ResetFailed(row) \in Row
    BY DEF Row, ResetFailed
  <1>2. ResetFailed(row).hash = row.hash /\ ResetFailed(row).failed = 0
    BY DEF Row, ResetFailed
  <1>3. Coupled(ResetFailed(row))
    BY RowAssumption DEF Row, ResetFailed, Coupled
  <1>4. QED
    BY <1>1, <1>2, <1>3

LEMMA SetHashRow ==
  ASSUME NEW row \in Row, NEW password \in Passwords
  PROVE  /\ SetHash(row, password) \in Row
         /\ SetHash(row, password).hash = password
         /\ SetHash(row, password).failed = row.failed
         /\ SetHash(row, password).locked = row.locked
  BY DEF Row, SetHash

LEMMA NewRowRow ==
  ASSUME NEW password \in Passwords
  PROVE  /\ NewRow(password) \in Row
         /\ NewRow(password).hash = password
         /\ NewRow(password).failed = 0
         /\ Coupled(NewRow(password))
  <1>1. NewRow(password) \in Row
    BY DEF Row, NewRow
  <1>2. NewRow(password).hash = password /\ NewRow(password).failed = 0
    BY DEF NewRow
  <1>3. Coupled(NewRow(password))
    BY RowAssumption DEF NewRow, Coupled
  <1>4. QED
    BY <1>1, <1>2, <1>3

LEMMA TwoFactorRows ==
  /\ NoTwoFactor \in TwoFactor
  /\ \A secret \in Secrets : PendingWith(secret) \in TwoFactor
  /\ \A c \in TwoFactor :
       /\ Enabled(c) \in TwoFactor
       /\ c.status # "none" => c.secret \in Secrets
       /\ c.secret \in Secrets \cup {NoSecret}
  BY DEF TwoFactor, NoTwoFactor, PendingWith, Enabled

(***************************************************************************)
(* The verdicts: what an error code says of the row it was found on.       *)
(***************************************************************************)
LEMMA Verdicts ==
  ASSUME NEW row \in Row, NEW config \in TwoFactor, NEW password, NEW code
  PROVE  /\ VerifyMasterPassword(row, password) \in Errors
         /\ VerifyTwoFactorCode(config, code) \in Errors
         /\ VerifyTwoFactorCode(EnabledView(config), code) \in Errors
         /\ VerifyBoth(row, config, password, code) \in Errors
         /\ VerifyBoth(row, EnabledView(config), password, code) \in Errors
         /\ VerifyMasterPassword(row, password) = "ok"
              => ~row.locked /\ password = row.hash
         /\ Counted(VerifyMasterPassword(row, password)) => ~row.locked
         /\ VerifyTwoFactorCode(config, code) = "ok"
              => config.status = "enabled" /\ code = config.secret
         /\ VerifyBoth(row, config, password, code) = "ok"
              => /\ ~row.locked /\ password = row.hash
                 /\ config.status = "enabled" /\ code = config.secret
         /\ Counted(VerifyBoth(row, config, password, code)) => ~row.locked
         /\ VerifyBoth(row, EnabledView(config), password, code) = "ok"
              => VerifyMasterPassword(row, password) = "ok"
         /\ Counted(VerifyBoth(row, EnabledView(config), password, code)) => ~row.locked
  <1>1. row.locked \in BOOLEAN
    BY DEF Row
  <1>2. VerifyMasterPassword(row, password) \in Errors
    BY <1>1 DEF VerifyMasterPassword, Errors
  <1>3. VerifyTwoFactorCode(config, code) \in Errors
    BY DEF VerifyTwoFactorCode, Errors
  <1>4. VerifyTwoFactorCode(EnabledView(config), code) \in Errors
    BY DEF VerifyTwoFactorCode, Errors
  <1>5. VerifyMasterPassword(row, password) = "ok"
              => ~row.locked /\ password = row.hash
    BY <1>1 DEF VerifyMasterPassword
  <1>6. Counted(VerifyMasterPassword(row, password)) => ~row.locked
    BY <1>1 DEF VerifyMasterPassword, Counted
  <1>7. VerifyTwoFactorCode(config, code) = "ok"
              => config.status = "enabled" /\ code = config.secret
    BY DEF VerifyTwoFactorCode
  <1>8. VerifyTwoFactorCode(config, code) # "ACCOUNT_LOCKED" /\ VerifyTwoFactorCode(EnabledView(config), code) # "ACCOUNT_LOCKED"
    BY DEF VerifyTwoFactorCode
  <1>9. QED
    BY <1>2, <1>3, <1>4, <1>5, <1>6, <1>7, <1>8 DEF VerifyBoth

------------------------------------------------------------------------------
(***************************************************************************)
(* Type correctness.  A request on its way to a session carries the secret *)
(* of a configuration that exists, which the entry of its enabling needs.  *)
(***************************************************************************)
SecretKnown ==
  \A r \in Requests :
    pc[r] \in {"start", "device", "commit"} => req[r].secret \in Secrets

TypeInv == TypeOK /\ SecretKnown

LEMMA TypeInit == Init => TypeInv
  <1> SUFFICES ASSUME Init PROVE TypeInv
    OBVIOUS
  <1>1. user \in [Users -> Row] /\ twoFactor \in [Users -> TwoFactor]
    BY AccountsAssumption, NewRowRow, TwoFactorRows DEF Init
  <1>2. QED
    BY <1>1 DEF Init, TypeInv, TypeOK, SecretKnown, Steps, Idle

LEMMA BeginTypes ==
  ASSUME TypeInv, NEW r \in Requests, NEW q \in Request, NEW next \in Steps \ {"idle"},
         Begin(r, q, next), next = "start" => q.secret \in Secrets,
         next \notin {"device", "commit"}
  PROVE  TypeInv'
  BY DEF TypeInv, TypeOK, SecretKnown, Begin, Idle, Steps

LEMMA RespondTypes ==
  ASSUME TypeInv, NEW r \in Requests, Respond(r)
  PROVE  /\ pc' \in [Requests -> Steps]
         /\ DOMAIN req' = Requests
         /\ \A t \in Requests : req'[t] \in (IF Idle(t)' THEN {NoRequest} ELSE Request)
         /\ SecretKnown'
  BY DEF TypeInv, TypeOK, SecretKnown, Respond, Idle, Steps

LEMMA GotoTypes ==
  ASSUME TypeInv, NEW r \in Requests, NEW next \in Steps \ {"idle"}, ~Idle(r),
         Goto(r, next),
         next \in {"start", "device", "commit"} => req[r].secret \in Secrets
  PROVE  /\ pc' \in [Requests -> Steps]
         /\ DOMAIN req' = Requests
         /\ \A t \in Requests : req'[t] \in (IF Idle(t)' THEN {NoRequest} ELSE Request)
         /\ SecretKnown'
  BY DEF TypeInv, TypeOK, SecretKnown, Goto, Idle, Steps

LEMMA InFlight ==
  ASSUME TypeInv, NEW r \in Requests, ~Idle(r)
  PROVE  /\ req[r] \in Request
         /\ req[r].user \in Users
         /\ req[r].password \in Passwords
         /\ req[r].sid \in Nat
         /\ user[req[r].user] \in Row
         /\ twoFactor[req[r].user] \in TwoFactor
  BY DEF TypeInv, TypeOK, Request

(***************************************************************************)
(* The five handlers begin alike.  What their checks leave to be used: a   *)
(* request that will count a failure, start a session or change the        *)
(* password read the account unlocked; one that will start a session gave  *)
(* its password, one that will end a session found it live.                *)
(***************************************************************************)
Arrival(r) ==
  \E q \in Request, next \in {"logFailure", "count", "start", "upsert", "change", "end"} :
    /\ Begin(r, q, next)
    /\ next = "start" => /\ q.secret \in Secrets
                         /\ twoFactor[q.user].status # "none"
                         /\ q.password = user[q.user].hash
    /\ next \in {"count", "start", "change"} => ~user[q.user].locked
    /\ next = "logFailure" /\ Counted(q.err) => ~user[q.user].locked
    /\ next = "end" => \E s \in sessions : s.id = q.sid /\ s.user = q.user

LEMMA Arrivals ==
  ASSUME TypeInv, NEW r \in Requests,
         Login(r) \/ Enroll(r) \/ Confirm(r) \/ Reset(r) \/ Logout(r)
  PROVE  Arrival(r)
  <1> DEFINE Q(kind, u, password, secret, enables, err, sid) ==
               [kind |-> kind, user |-> u, password |-> password, secret |-> secret,
                enables |-> enables, err |-> err, sid |-> sid]
  <1>0. \A kind \in Kinds, u \in Users, password \in Passwords,
           secret \in Secrets \cup {NoSecret}, enables \in BOOLEAN,
           err \in Errors, sid \in Nat :
          LET q == Q(kind, u, password, secret, enables, err, sid)
          IN  /\ q \in Request
              /\ q.user = u
              /\ q.password = password
              /\ q.secret = secret
              /\ q.err = err
              /\ q.sid = sid
    BY DEF Request
  <1>1. \A u \in Users : user[u] \in Row /\ twoFactor[u] \in TwoFactor
    BY DEF TypeInv, TypeOK
  <1>2. CASE Login(r)
    <2>1. PICK u \in Users, password \in Passwords, code \in Codes :
            LET err == VerifyBoth(user[u], twoFactor[u], password, code)
            IN  Begin(r, Q("login", u, password, twoFactor[u].secret, FALSE, err, 0),
                      IF err = "ok" THEN "start" ELSE "logFailure")
      BY <1>2 DEF Login
    <2> DEFINE err == VerifyBoth(user[u], twoFactor[u], password, code)
               q == Q("login", u, password, twoFactor[u].secret, FALSE, err, 0)
    <2>2. /\ err \in Errors
          /\ err = "ok" => /\ ~user[u].locked /\ twoFactor[u].status = "enabled"
                           /\ password = user[u].hash
          /\ Counted(err) => ~user[u].locked
      BY <1>1, Verdicts
    <2>3. Begin(r, q, IF err = "ok" THEN "start" ELSE "logFailure")
      BY <2>1
    <2> HIDE DEF err
    <2>4. /\ q \in Request /\ q.user = u /\ q.err = err /\ q.password = password
          /\ q.secret = twoFactor[u].secret
      BY <1>0, <1>1, <2>2, TwoFactorRows, ZenonT(60) DEF Kinds
    <2> HIDE DEF q
    <2>5. CASE err = "ok"
      BY <1>1, <2>2, <2>3, <2>4, <2>5, TwoFactorRows DEF Arrival
    <2>6. CASE err # "ok"
      BY <2>2, <2>3, <2>4, <2>6 DEF Arrival
    <2>7. QED
      BY <2>5, <2>6
  <1>3. CASE Enroll(r)
    <2>1. PICK u \in Users, password \in Passwords :
            LET err == VerifyMasterPassword(user[u], password)
            IN  /\ Counted(err) \/ err = "ok"
                /\ Begin(r, Q("enroll", u, password, twoFactor[u].secret, FALSE, err, 0),
                         IF err = "ok" THEN "upsert" ELSE "count")
      BY <1>3 DEF Enroll
    <2> DEFINE err == VerifyMasterPassword(user[u], password)
               q == Q("enroll", u, password, twoFactor[u].secret, FALSE, err, 0)
    <2>2. err \in Errors /\ (Counted(err) => ~user[u].locked)
      BY <1>1, Verdicts
    <2>3. /\ Begin(r, q, IF err = "ok" THEN "upsert" ELSE "count")
          /\ Counted(err) \/ err = "ok"
      BY <2>1
    <2> HIDE DEF err
    <2>4. q \in Request /\ q.user = u
      BY <1>0, <1>1, <2>2, TwoFactorRows, ZenonT(60) DEF Kinds
    <2> HIDE DEF q
    <2>5. CASE err = "ok"
      BY <2>3, <2>4, <2>5 DEF Arrival
    <2>6. CASE err # "ok"
      BY <2>2, <2>3, <2>4, <2>6 DEF Arrival
    <2>7. QED
      BY <2>5, <2>6
  <1>4. CASE Confirm(r)
    <2>1. PICK u \in Users, password \in Passwords, code \in Codes :
            LET config == twoFactor[u]
                err    == VerifyBoth(user[u], EnabledView(config), password, code)
            IN  /\ err = "ok" \/ Counted(err)
                /\ VerifyMasterPassword(user[u], password) = "ok" => config.status # "none"
                /\ Begin(r, Q("confirm", u, password, config.secret,
                              config.status # "enabled", err, 0),
                         IF err = "ok" THEN "start" ELSE "count")
      BY <1>4 DEF Confirm
    <2> DEFINE err == VerifyBoth(user[u], EnabledView(twoFactor[u]), password, code)
               enables == twoFactor[u].status # "enabled"
               q == Q("confirm", u, password, twoFactor[u].secret, enables, err, 0)
    <2>2. /\ err \in Errors
          /\ err = "ok" => VerifyMasterPassword(user[u], password) = "ok"
          /\ VerifyMasterPassword(user[u], password) = "ok"
               => ~user[u].locked /\ password = user[u].hash
          /\ Counted(err) => ~user[u].locked
      BY <1>1, Verdicts
    <2>3. /\ Begin(r, q, IF err = "ok" THEN "start" ELSE "count")
          /\ Counted(err) \/ err = "ok"
          /\ VerifyMasterPassword(user[u], password) = "ok" => twoFactor[u].status # "none"
      BY <2>1
    <2>b. enables \in BOOLEAN
      OBVIOUS
    <2> HIDE DEF err, enables
    <2>4. q \in Request /\ q.user = u /\ q.secret = twoFactor[u].secret /\ q.password = password
      BY <1>0, <1>1, <2>2, <2>b, TwoFactorRows DEF Kinds
    <2> HIDE DEF q
    <2>5. CASE err = "ok"
      BY <1>1, <2>2, <2>3, <2>4, <2>5, TwoFactorRows DEF Arrival
    <2>6. CASE err # "ok"
      BY <2>2, <2>3, <2>4, <2>6 DEF Arrival
    <2>7. QED
      BY <2>5, <2>6
  <1>5. CASE Reset(r)
    <2>1. PICK u \in Users, new \in Passwords, code \in Codes :
            LET err == VerifyTwoFactorCode(twoFactor[u], code)
            IN  /\ MayReset(u)
                /\ Begin(r, Q("reset", u, new, twoFactor[u].secret, FALSE, err, 0),
                         IF err = "ok" THEN "change" ELSE "count")
      BY <1>5 DEF Reset
    <2> DEFINE err == VerifyTwoFactorCode(twoFactor[u], code)
               q == Q("reset", u, new, twoFactor[u].secret, FALSE, err, 0)
    <2>2. err \in Errors /\ ~user[u].locked
      BY <1>1, <2>1, Verdicts DEF MayReset
    <2>3. Begin(r, q, IF err = "ok" THEN "change" ELSE "count")
      BY <2>1
    <2> HIDE DEF err
    <2>4. q \in Request /\ q.user = u
      BY <1>0, <1>1, <2>2, TwoFactorRows, ZenonT(60) DEF Kinds
    <2> HIDE DEF q
    <2>5. CASE err = "ok"
      BY <2>2, <2>3, <2>4, <2>5 DEF Arrival
    <2>6. CASE err # "ok"
      BY <2>2, <2>3, <2>4, <2>6 DEF Arrival
    <2>7. QED
      BY <2>5, <2>6
  <1>6. CASE Logout(r)
    <2>1. PICK s \in sessions :
            Begin(r, Q("logout", s.user, s.proved, NoSecret, FALSE, "ok", s.id), "end")
      BY <1>6 DEF Logout
    <2> DEFINE q == Q("logout", s.user, s.proved, NoSecret, FALSE, "ok", s.id)
    <2>2. s.user \in Users /\ s.proved \in Passwords /\ s.id \in Nat
      BY DEF TypeInv, TypeOK, Session
    <2>b. "logout" \in Kinds /\ "ok" \in Errors /\ NoSecret \in Secrets \cup {NoSecret}
      BY DEF Kinds, Errors
    <2>3. q \in Request /\ q.user = s.user /\ q.sid = s.id
      BY <1>0, <2>2, <2>b
    <2>4. Begin(r, q, "end")
      BY <2>1
    <2> HIDE DEF q
    <2>5. QED
      BY <2>3, <2>4 DEF Arrival
  <1>7. QED
    BY <1>2, <1>3, <1>4, <1>5, <1>6

(***************************************************************************)
(* A step of Next by its effect: an arrival, or one of the nine steps of a *)
(* request in flight, or the clock.                                        *)
(***************************************************************************)
LEMMA NextCases ==
  ASSUME TypeInv, Next
  PROVE  \/ \E r \in Requests :
              \/ Arrival(r)
              \/ LogFailure(r) \/ CountFailure(r) \/ ClearFailures(r)
              \/ UpsertPending(r) \/ ChangePassword(r) \/ EndSession(r)
              \/ StartSession(r) \/ RecordDevice(r) \/ CommitLogin(r)
              \/ Fail(r)
         \/ Tick
  <1>1. CASE Tick
    BY <1>1
  <1>2. CASE ~Tick
    <2>1. PICK r \in Requests :
            \/ Login(r) \/ Enroll(r) \/ Confirm(r) \/ Reset(r) \/ Logout(r)
            \/ LogFailure(r) \/ CountFailure(r) \/ ClearFailures(r)
            \/ UpsertPending(r) \/ ChangePassword(r) \/ EndSession(r)
            \/ StartSession(r) \/ RecordDevice(r) \/ CommitLogin(r)
            \/ Fail(r)
      BY <1>2 DEF Next
    <2>2. QED
      BY <2>1, Arrivals
  <1>3. QED
    BY <1>1, <1>2

LEMMA EntryTypes ==
  \A action \in Actions, u \in Users, about \in Nat \cup Secrets \cup Passwords :
    Entry(action, u, about) \in AuditEntry
  BY DEF Entry, AuditEntry

LEMMA TypeNext == TypeInv /\ [Next]_vars => TypeInv'
  <1> SUFFICES ASSUME TypeInv, [Next]_vars PROVE TypeInv'
    OBVIOUS
  <1>1. CASE UNCHANGED vars
    BY <1>1 DEF vars, TypeInv, TypeOK, SecretKnown, Idle
  <1>2. CASE Tick
    BY <1>2 DEF Tick, TypeInv, TypeOK, SecretKnown, Idle
  <1>3. ASSUME NEW r \in Requests, Arrival(r) PROVE TypeInv'
    BY <1>3, BeginTypes DEF Arrival, Steps
  <1>4. ASSUME NEW r \in Requests, LogFailure(r) PROVE TypeInv'
    <2>1. ~Idle(r)
      BY <1>4 DEF LogFailure, Idle
    <2>2. FailureAction(req[r].err) \in Actions
      BY DEF FailureAction, Actions
    <2>3. Entry(FailureAction(req[r].err), req[r].user, 0) \in AuditEntry
      BY <2>1, <2>2, InFlight, EntryTypes
    <2>4. audit' \subseteq AuditEntry
      BY <1>4, <2>3 DEF LogFailure, TypeInv, TypeOK
    <2>5. Goto(r, "count") \/ Respond(r)
      BY <1>4 DEF LogFailure
    <2>6. /\ pc' \in [Requests -> Steps]
          /\ DOMAIN req' = Requests
          /\ \A t \in Requests : req'[t] \in (IF Idle(t)' THEN {NoRequest} ELSE Request)
          /\ SecretKnown'
      <3>1. "count" \in Steps \ {"idle"}
        BY DEF Steps
      <3>2. QED
        BY <2>1, <2>5, <3>1, GotoTypes, RespondTypes
    <2>7. QED
      BY <1>4, <2>4, <2>6 DEF LogFailure, TypeInv, TypeOK
  <1>5. ASSUME NEW r \in Requests, CountFailure(r) PROVE TypeInv'
    <2>1. ~Idle(r)
      BY <1>5 DEF CountFailure, Idle
    <2>2. RecordFailed(user[req[r].user], now) \in Row
      BY <2>1, InFlight, RecordFailedRow DEF TypeInv, TypeOK
    <2>3. user' \in [Users -> Row]
      BY <1>5, <2>2 DEF CountFailure, TypeInv, TypeOK
    <2>4. QED
      BY <1>5, <2>3, RespondTypes DEF CountFailure, TypeInv, TypeOK
  <1>6. ASSUME NEW r \in Requests, ClearFailures(r) PROVE TypeInv'
    <2>1. ~Idle(r)
      BY <1>6 DEF ClearFailures, Idle
    <2>2. ResetFailed(user[req[r].user]) \in Row
      BY <2>1, InFlight, ResetFailedRow
    <2>3. user' \in [Users -> Row]
      BY <1>6, <2>2 DEF ClearFailures, TypeInv, TypeOK
    <2>4. QED
      BY <1>6, <2>3, RespondTypes DEF ClearFailures, TypeInv, TypeOK
  <1>7. ASSUME NEW r \in Requests, UpsertPending(r) PROVE TypeInv'
    <2>1. PICK secret \in NewSecrets(req[r].user) :
            twoFactor' = [twoFactor EXCEPT ![req[r].user] = PendingWith(secret)]
      BY <1>7 DEF UpsertPending
    <2>2. PendingWith(secret) \in TwoFactor
      BY TwoFactorRows DEF NewSecrets
    <2>3. twoFactor' \in [Users -> TwoFactor]
      BY <2>1, <2>2 DEF TypeInv, TypeOK
    <2>4. QED
      BY <1>7, <2>3, RespondTypes DEF UpsertPending, TypeInv, TypeOK
  <1>8. ASSUME NEW r \in Requests, ChangePassword(r) PROVE TypeInv'
    <2>1. ~Idle(r)
      BY <1>8 DEF ChangePassword, Idle
    <2>2. SetHash(user[req[r].user], req[r].password) \in Row
      BY <2>1, InFlight, SetHashRow
    <2>3. user' \in [Users -> Row]
      BY <1>8, <2>2 DEF ChangePassword, TypeInv, TypeOK
    <2>4. sessions' \subseteq Session
      BY <1>8 DEF ChangePassword, SessionsWithout, TypeInv, TypeOK
    <2>5. audit' \subseteq AuditEntry
      <3>1. "MASTER_PASSWORD_CHANGED" \in Actions
        BY DEF Actions
      <3>2. Entry("MASTER_PASSWORD_CHANGED", req[r].user, req[r].password) \in AuditEntry
        BY <2>1, <3>1, InFlight, EntryTypes
      <3>3. QED
        BY <1>8, <3>2 DEF ChangePassword, ResetEntries, TypeInv, TypeOK
    <2>6. "clear" \in Steps \ {"idle"}
      BY DEF Steps
    <2>7. QED
      BY <1>8, <2>1, <2>3, <2>4, <2>5, <2>6, GotoTypes DEF ChangePassword, TypeInv, TypeOK
  <1>9. ASSUME NEW r \in Requests, EndSession(r) PROVE TypeInv'
    <2>1. ~Idle(r)
      BY <1>9 DEF EndSession, Idle
    <2>2. "SESSION_ENDED" \in Actions
      BY DEF Actions
    <2>3. Entry("SESSION_ENDED", req[r].user, req[r].sid) \in AuditEntry
      BY <2>1, <2>2, InFlight, EntryTypes
    <2>4. sessions' \subseteq Session /\ audit' \subseteq AuditEntry
      BY <1>9, <2>3 DEF EndSession, Revoked, TypeInv, TypeOK
    <2>5. QED
      BY <1>9, <2>4, RespondTypes DEF EndSession, TypeInv, TypeOK
  <1>10. ASSUME NEW r \in Requests, StartSession(r) PROVE TypeInv'
    <2>1. ~Idle(r) /\ pc[r] = "start"
      BY <1>10 DEF StartSession, Idle
    <2>2. nextSession' \in Nat /\ nextSession' = nextSession + 1
      BY <1>10 DEF StartSession, TypeInv, TypeOK
    <2>3. [req[r] EXCEPT !.sid = nextSession'] \in Request
      BY <2>1, <2>2, InFlight DEF Request
    <2>4. [req[r] EXCEPT !.sid = nextSession'].secret = req[r].secret
      BY <2>1, InFlight DEF Request
    <2>5. /\ req' = [req EXCEPT ![r] = [req[r] EXCEPT !.sid = nextSession']]
          /\ pc' = [pc EXCEPT ![r] = "device"]
      BY <1>10 DEF StartSession
    <2>6. pc' \in [Requests -> Steps] /\ DOMAIN req' = Requests
      BY <2>5 DEF TypeInv, TypeOK, Steps
    <2>7. \A t \in Requests : req'[t] \in (IF Idle(t)' THEN {NoRequest} ELSE Request)
      BY <2>3, <2>5 DEF TypeInv, TypeOK, Idle
    <2>8. SecretKnown'
      BY <2>1, <2>4, <2>5 DEF TypeInv, TypeOK, SecretKnown
    <2>9. QED
      BY <1>10, <2>2, <2>6, <2>7, <2>8 DEF StartSession, TypeInv, TypeOK
  <1>11. ASSUME NEW r \in Requests, RecordDevice(r) PROVE TypeInv'
    <2>1. ~Idle(r) /\ pc[r] = "device"
      BY <1>11 DEF RecordDevice, Idle
    <2>2. "DEVICE_SEEN" \in Actions /\ "commit" \in Steps \ {"idle"}
      BY DEF Actions, Steps
    <2>3. Entry("DEVICE_SEEN", req[r].user, req[r].sid) \in AuditEntry
      BY <2>1, <2>2, InFlight, EntryTypes
    <2>4. audit' \subseteq AuditEntry
      BY <1>11, <2>3 DEF RecordDevice, TypeInv, TypeOK
    <2>5. req[r].secret \in Secrets
      BY <2>1 DEF TypeInv, SecretKnown
    <2>6. QED
      BY <1>11, <2>1, <2>2, <2>4, <2>5, GotoTypes DEF RecordDevice, TypeInv, TypeOK
  <1>12. ASSUME NEW r \in Requests, CommitLogin(r) PROVE TypeInv'
    <2>1. ~Idle(r) /\ pc[r] = "commit"
      BY <1>12 DEF CommitLogin, Idle
    <2>2. "LOGIN_SUCCEEDED" \in Actions /\ "TWO_FACTOR_ENABLED" \in Actions
      BY DEF Actions
    <2>3. req[r].secret \in Secrets
      BY <2>1 DEF TypeInv, SecretKnown
    <2>4. audit' \subseteq AuditEntry
      <3>1. LoginEntries(r) \subseteq AuditEntry
        BY <2>1, <2>2, <2>3, InFlight, EntryTypes DEF LoginEntries
      <3>2. QED
        BY <1>12, <3>1 DEF CommitLogin, TypeInv, TypeOK
    <2>5. sessions' \subseteq Session
      <3>1. [id |-> req[r].sid, user |-> req[r].user, proved |-> req[r].password] \in Session
        BY <2>1, InFlight DEF Session
      <3>2. QED
        BY <1>12, <3>1 DEF CommitLogin, TypeInv, TypeOK
    <2>6. twoFactor' \in [Users -> TwoFactor]
      <3>1. Enabled(twoFactor[req[r].user]) \in TwoFactor
        BY <2>1, InFlight, TwoFactorRows
      <3>2. QED
        BY <1>12, <3>1 DEF CommitLogin, TypeInv, TypeOK
    <2>7. "clear" \in Steps \ {"idle"}
      BY DEF Steps
    <2>8. QED
      BY <1>12, <2>1, <2>4, <2>5, <2>6, <2>7, GotoTypes DEF CommitLogin, TypeInv, TypeOK
  <1>13. ASSUME NEW r \in Requests, Fail(r) PROVE TypeInv'
    BY <1>13, RespondTypes DEF Fail, TypeInv, TypeOK
  <1>14. QED
    BY <1>1, <1>2, <1>3, <1>4, <1>5, <1>6, <1>7, <1>8, <1>9, <1>10, <1>11, <1>12,
       <1>13, NextCases

LEMMA TypeInvariant == Spec => []TypeInv
  BY TypeInit, TypeNext, PTL DEF Spec

(***************************************************************************)
(* Every reachable state is well typed.                                    *)
(***************************************************************************)
THEOREM TypeCorrect == Spec => []TypeOK
  <1>1. TypeInv => TypeOK
    BY DEF TypeInv
  <1>2. QED
    BY <1>1, TypeInvariant, PTL

------------------------------------------------------------------------------
(***************************************************************************)
(* The lock.  One step changes an account's row in one of three ways.      *)
(***************************************************************************)
LEMMA UserSteps ==
  ASSUME TypeInv, [Next]_vars, NEW u \in Users
  PROVE  \/ user'[u] = user[u]
         \/ /\ user'[u] = RecordFailed(user[u], now)
            /\ \E r \in Requests : CountFailure(r) /\ req[r].user = u
         \/ user'[u] = ResetFailed(user[u])
         \/ \E password \in Passwords : user'[u] = SetHash(user[u], password)
  <1>1. CASE UNCHANGED vars
    BY <1>1 DEF vars
  <1>2. CASE Tick
    BY <1>2 DEF Tick
  <1>3. ASSUME NEW r \in Requests, Arrival(r) PROVE user' = user
    BY <1>3 DEF Arrival, Begin
  <1>4. ASSUME NEW r \in Requests, CountFailure(r)
        PROVE  \/ user'[u] = user[u]
               \/ user'[u] = RecordFailed(user[u], now) /\ req[r].user = u
    BY <1>4 DEF CountFailure, TypeInv, TypeOK
  <1>5. ASSUME NEW r \in Requests, ClearFailures(r)
        PROVE  user'[u] = user[u] \/ user'[u] = ResetFailed(user[u])
    BY <1>5 DEF ClearFailures, TypeInv, TypeOK
  <1>6. ASSUME NEW r \in Requests, ChangePassword(r)
        PROVE  \/ user'[u] = user[u]
               \/ \E password \in Passwords : user'[u] = SetHash(user[u], password)
    <2>1. req[r].password \in Passwords
      BY <1>6, InFlight DEF ChangePassword, Idle
    <2>2. QED
      BY <1>6, <2>1 DEF ChangePassword, TypeInv, TypeOK
  <1>7. ASSUME NEW r \in Requests,
               \/ LogFailure(r) \/ UpsertPending(r) \/ EndSession(r)
               \/ StartSession(r) \/ RecordDevice(r) \/ CommitLogin(r) \/ Fail(r)
        PROVE  user' = user
    BY <1>7 DEF LogFailure, UpsertPending, EndSession, StartSession, RecordDevice,
                CommitLogin, Fail
  <1>8. QED
    BY <1>1, <1>2, <1>3, <1>4, <1>5, <1>6, <1>7, NextCases

LEMMA CoupledInit == Init => LockTracksCounter
  BY AccountsAssumption, NewRowRow DEF Init, LockTracksCounter, Coupled

LEMMA CoupledNext == TypeInv /\ LockTracksCounter /\ [Next]_vars => LockTracksCounter'
  <1> SUFFICES ASSUME TypeInv, LockTracksCounter, [Next]_vars, NEW u \in Users
               PROVE  Coupled(user'[u])
    BY DEF LockTracksCounter, Coupled
  <1>1. user[u] \in Row /\ Coupled(user[u]) /\ now \in Nat
    BY DEF TypeInv, TypeOK, LockTracksCounter, Coupled
  <1>2. CASE user'[u] = user[u]
    BY <1>1, <1>2
  <1>3. CASE user'[u] = RecordFailed(user[u], now)
    BY <1>1, <1>3, RecordFailedRow
  <1>4. CASE user'[u] = ResetFailed(user[u])
    BY <1>1, <1>4, ResetFailedRow
  <1>5. CASE \E password \in Passwords : user'[u] = SetHash(user[u], password)
    BY <1>1, <1>5, SetHashRow DEF Coupled
  <1>6. QED
    BY <1>2, <1>3, <1>4, <1>5, UserSteps

(***************************************************************************)
(* The lock flag and the failure counter of an account never drift apart,  *)
(* for any threshold, number of accounts and number of requests in flight. *)
(***************************************************************************)
THEOREM LockFollowsCounter == Spec => []LockTracksCounter
  <1>1. TypeInv /\ LockTracksCounter /\ [Next]_vars => LockTracksCounter'
    BY CoupledNext
  <1>2. QED
    BY CoupledInit, <1>1, TypeInvariant, PTL DEF Spec

(***************************************************************************)
(* The lock is for good: whatever step is taken.                           *)
(***************************************************************************)
Committed == {"start", "device", "commit", "change", "clear"}

LEMMA LockedStep ==
  ASSUME TypeInv, [Next]_vars, NEW u \in Users, LockedForGood(u)
  PROVE  /\ LockedForGood(u)'
         /\ {s \in sessions' : s.user = u} \subseteq sessions
  <1>0. /\ user[u] \in Row /\ user[u].locked
        /\ \A t \in Requests : pc[t] \in Committed => req[t].user # u
    BY DEF TypeInv, TypeOK, LockedForGood, Committed
  <1> DEFINE Conclusion ==
        /\ user'[u].locked
        /\ \A t \in Requests : pc'[t] \in Committed => req'[t].user # u
        /\ {s \in sessions' : s.user = u} \subseteq sessions
  <1>S. SUFFICES Conclusion
    BY DEF LockedForGood, Committed
  <1>R. ASSUME NEW r \in Requests, Respond(r)
        PROVE  \A t \in Requests : pc'[t] \in Committed => req'[t].user # u
    BY <1>0, <1>R DEF Respond, Committed, TypeInv, TypeOK
  <1>G. ASSUME NEW r \in Requests, NEW next, Goto(r, next), pc[r] \in Committed \/ next \notin Committed
        PROVE  \A t \in Requests : pc'[t] \in Committed => req'[t].user # u
    BY <1>0, <1>G DEF Goto, Committed, TypeInv, TypeOK
  <1>1. CASE UNCHANGED vars
    BY <1>0, <1>1 DEF vars
  <1>2. CASE Tick
    BY <1>0, <1>2 DEF Tick
  <1>3. ASSUME NEW r \in Requests, Arrival(r) PROVE Conclusion
    <2>1. PICK q \in Request, next \in {"logFailure", "count", "start", "upsert", "change", "end"} :
            /\ Begin(r, q, next)
            /\ next \in {"count", "start", "change"} => ~user[q.user].locked
      BY <1>3 DEF Arrival
    <2>2. next \in Committed => q.user # u
      BY <1>0, <2>1 DEF Committed
    <2>3. \A t \in Requests : pc'[t] \in Committed => req'[t].user # u
      BY <1>0, <2>1, <2>2 DEF Begin, TypeInv, TypeOK
    <2>4. QED
      BY <1>0, <2>1, <2>3 DEF Begin
  <1>4. ASSUME NEW r \in Requests, LogFailure(r) PROVE Conclusion
    <2>1. Goto(r, "count") \/ Respond(r)
      BY <1>4 DEF LogFailure
    <2>2. "count" \notin Committed
      BY DEF Committed
    <2>3. QED
      BY <1>0, <1>4, <1>R, <1>G, <2>1, <2>2 DEF LogFailure
  <1>5. ASSUME NEW r \in Requests, CountFailure(r) PROVE Conclusion
    <2>1. user'[u] = user[u] \/ user'[u] = RecordFailed(user[u], now)
      BY <1>5 DEF CountFailure, TypeInv, TypeOK
    <2>2. user'[u].locked
      BY <1>0, <2>1, RecordFailedRow DEF TypeInv, TypeOK
    <2>3. QED
      BY <1>0, <1>5, <1>R, <2>2 DEF CountFailure
  <1>6. ASSUME NEW r \in Requests, ClearFailures(r) PROVE Conclusion
    <2>1. req[r].user # u
      BY <1>0, <1>6 DEF ClearFailures, Committed
    <2>2. user'[u] = user[u]
      BY <1>6, <2>1 DEF ClearFailures, TypeInv, TypeOK
    <2>3. QED
      BY <1>0, <1>6, <1>R, <2>2 DEF ClearFailures
  <1>7. ASSUME NEW r \in Requests, UpsertPending(r) PROVE Conclusion
    BY <1>0, <1>7, <1>R DEF UpsertPending
  <1>8. ASSUME NEW r \in Requests, ChangePassword(r) PROVE Conclusion
    <2>1. req[r].user # u /\ pc[r] \in Committed
      BY <1>0, <1>8 DEF ChangePassword, Committed
    <2>2. user'[u] = user[u]
      BY <1>8, <2>1 DEF ChangePassword, TypeInv, TypeOK
    <2>3. Goto(r, "clear") /\ sessions' \subseteq sessions
      BY <1>8 DEF ChangePassword, SessionsWithout
    <2>4. QED
      BY <1>0, <1>G, <2>1, <2>2, <2>3
  <1>9. ASSUME NEW r \in Requests, EndSession(r) PROVE Conclusion
    BY <1>0, <1>9, <1>R DEF EndSession, Revoked
  <1>10. ASSUME NEW r \in Requests, StartSession(r) PROVE Conclusion
    <2>1. /\ req[r].user # u
          /\ req[r] \in Request
      BY <1>0, <1>10, InFlight DEF StartSession, Committed, Idle
    <2>2. [req[r] EXCEPT !.sid = nextSession + 1].user # u
      BY <2>1 DEF Request
    <2>3. \A t \in Requests : pc'[t] \in Committed => req'[t].user # u
      BY <1>0, <1>10, <2>2 DEF StartSession, TypeInv, TypeOK, Committed
    <2>4. QED
      BY <1>0, <1>10, <2>3 DEF StartSession
  <1>11. ASSUME NEW r \in Requests, RecordDevice(r) PROVE Conclusion
    <2>1. pc[r] \in Committed /\ Goto(r, "commit")
      BY <1>11 DEF RecordDevice, Committed
    <2>2. QED
      BY <1>0, <1>11, <1>G, <2>1 DEF RecordDevice
  <1>12. ASSUME NEW r \in Requests, CommitLogin(r) PROVE Conclusion
    <2>1. pc[r] \in Committed /\ Goto(r, "clear") /\ req[r].user # u
      BY <1>0, <1>12 DEF CommitLogin, Committed
    <2>2. {s \in sessions' : s.user = u} \subseteq sessions
      BY <1>12, <2>1 DEF CommitLogin
    <2>3. QED
      BY <1>0, <1>12, <1>G, <2>1, <2>2 DEF CommitLogin
  <1>13. ASSUME NEW r \in Requests, Fail(r) PROVE Conclusion
    BY <1>0, <1>13, <1>R DEF Fail
  <1>14. QED
    BY <1>1, <1>2, <1>3, <1>4, <1>5, <1>6, <1>7, <1>8, <1>9, <1>10, <1>11, <1>12,
       <1>13, NextCases

(***************************************************************************)
(* A lock outlasts every login, confirmation and reset that had not read   *)
(* the account unlocked: nothing the code does lifts it.                   *)
(***************************************************************************)
THEOREM LockNeverLifted == Spec => LockIsPermanent
  <1>1. TypeInv /\ [Next]_vars =>
          [\A u \in Users : LockedForGood(u) =>
             /\ LockedForGood(u)'
             /\ {s \in sessions' : s.user = u} \subseteq sessions]_vars
    BY LockedStep
  <1>2. QED
    BY <1>1, TypeInvariant, PTL DEF Spec, LockIsPermanent

(***************************************************************************)
(* What rests on a password.  Logins bring only the password the account   *)
(* has, a reset of it takes the sessions away and waits for the logins in  *)
(* their transactions.                                                     *)
(***************************************************************************)
Entering == {"start", "device", "commit"}

LEMMA ResetStep ==
  ASSUME TypeInv, NEW u \in Users, NEW r \in Requests, ChangePassword(r),
         req[r].user = u,
         \A t \in Requests : pc[t] = "start" => req[t].user # u
  PROVE  OnCurrentPassword(u)'
  <1>1. {s \in sessions' : s.user = u} = {}
    BY DEF ChangePassword, SessionsWithout
  <1>2. \A t \in Requests : pc[t] \in Entering => req[t].user # u
    BY DEF ChangePassword, UserRowFree, SigningIn, Entering
  <1>3. \A t \in Requests : pc'[t] \in Entering => pc[t] \in Entering
    BY DEF ChangePassword, Goto, Entering, TypeInv, TypeOK
  <1>4. req' = req
    BY DEF ChangePassword, Goto
  <1>5. QED
    BY <1>1, <1>2, <1>3, <1>4 DEF OnCurrentPassword, Entering

LEMMA CurrentStep ==
  ASSUME TypeInv, [Next]_vars, NEW u \in Users, OnCurrentPassword(u)
  PROVE  \/ OnCurrentPassword(u)'
         \/ /\ user'[u].hash # user[u].hash
            /\ \E r \in Requests : pc[r] = "start" /\ req[r].user = u
  <1>0. /\ user[u] \in Row
        /\ \A s \in sessions : s.user = u => s.proved = user[u].hash
        /\ \A t \in Requests : pc[t] \in Entering /\ req[t].user = u => req[t].password = user[u].hash
    BY DEF TypeInv, TypeOK, OnCurrentPassword, Entering
  <1> DEFINE Quiet == \A t \in Requests :
                        pc'[t] \in Entering /\ req'[t].user = u => req'[t].password = user[u].hash
             SameHash == user'[u].hash = user[u].hash
             OldSessions == \A s \in sessions' : s.user = u => s.proved = user[u].hash
  <1>Q. ASSUME Quiet, SameHash, OldSessions PROVE OnCurrentPassword(u)'
    BY <1>Q DEF OnCurrentPassword, Entering
  <1>R. ASSUME NEW r \in Requests, Respond(r) PROVE Quiet
    BY <1>0, <1>R DEF Respond, Entering, TypeInv, TypeOK
  <1>G. ASSUME NEW r \in Requests, NEW next, Goto(r, next), pc[r] \in Entering \/ next \notin Entering
        PROVE  Quiet
    BY <1>0, <1>G DEF Goto, Entering, TypeInv, TypeOK
  <1>1. CASE UNCHANGED vars
    BY <1>0, <1>1, <1>Q DEF vars
  <1>2. CASE Tick
    BY <1>0, <1>2, <1>Q DEF Tick
  <1>3. ASSUME NEW r \in Requests, Arrival(r) PROVE OnCurrentPassword(u)'
    <2>1. PICK q \in Request, next \in {"logFailure", "count", "start", "upsert", "change", "end"} :
            /\ Begin(r, q, next)
            /\ next = "start" => q.password = user[q.user].hash
      BY <1>3 DEF Arrival
    <2>2. Quiet
      BY <1>0, <2>1 DEF Begin, Entering, TypeInv, TypeOK
    <2>3. QED
      BY <1>0, <2>1, <2>2, <1>Q DEF Begin
  <1>4. ASSUME NEW r \in Requests, LogFailure(r) PROVE OnCurrentPassword(u)'
    <2>1. Goto(r, "count") \/ Respond(r)
      BY <1>4 DEF LogFailure
    <2>2. "count" \notin Entering
      BY DEF Entering
    <2>3. QED
      BY <1>0, <1>4, <1>R, <1>G, <1>Q, <2>1, <2>2 DEF LogFailure
  <1>5. ASSUME NEW r \in Requests, CountFailure(r) PROVE OnCurrentPassword(u)'
    <2>1. user'[u] = user[u] \/ user'[u] = RecordFailed(user[u], now)
      BY <1>5 DEF CountFailure, TypeInv, TypeOK
    <2>2. SameHash
      BY <1>0, <2>1, RecordFailedRow DEF TypeInv, TypeOK
    <2>3. QED
      BY <1>0, <1>5, <1>R, <1>Q, <2>2 DEF CountFailure
  <1>6. ASSUME NEW r \in Requests, ClearFailures(r) PROVE OnCurrentPassword(u)'
    <2>1. user'[u] = user[u] \/ user'[u] = ResetFailed(user[u])
      BY <1>6 DEF ClearFailures, TypeInv, TypeOK
    <2>2. SameHash
      BY <1>0, <2>1, ResetFailedRow
    <2>3. QED
      BY <1>0, <1>6, <1>R, <1>Q, <2>2 DEF ClearFailures
  <1>7. ASSUME NEW r \in Requests, UpsertPending(r) PROVE OnCurrentPassword(u)'
    BY <1>0, <1>7, <1>R, <1>Q DEF UpsertPending
  <1>8. ASSUME NEW r \in Requests, ChangePassword(r)
        PROVE  \/ OnCurrentPassword(u)'
               \/ /\ user'[u].hash # user[u].hash
                  /\ \E t \in Requests : pc[t] = "start" /\ req[t].user = u
    <2>1. Goto(r, "clear") /\ "clear" \notin Entering /\ sessions' \subseteq sessions
      BY <1>8 DEF ChangePassword, SessionsWithout, Entering
    <2>2. CASE SameHash
      BY <1>0, <1>G, <1>Q, <2>1, <2>2
    <2>3. CASE ~SameHash
      <3>1. req[r].user = u
        BY <1>8, <2>3 DEF ChangePassword, TypeInv, TypeOK
      <3>2. QED
        BY <1>8, <2>3, <3>1, ResetStep
    <2>4. QED
      BY <2>2, <2>3
  <1>9. ASSUME NEW r \in Requests, EndSession(r) PROVE OnCurrentPassword(u)'
    BY <1>0, <1>9, <1>R, <1>Q DEF EndSession, Revoked
  <1>10. ASSUME NEW r \in Requests, StartSession(r) PROVE OnCurrentPassword(u)'
    <2>1. req[r] \in Request /\ pc[r] \in Entering
      BY <1>10, InFlight DEF StartSession, Entering, Idle
    <2>2. PICK q : q = [req[r] EXCEPT !.sid = nextSession + 1]
      OBVIOUS
    <2>3. q.user = req[r].user /\ q.password = req[r].password
      BY <2>1, <2>2 DEF Request
    <2>4. req' = [req EXCEPT ![r] = q] /\ pc' = [pc EXCEPT ![r] = "device"]
      BY <1>10, <2>2 DEF StartSession
    <2>5. Quiet
      BY <1>0, <2>1, <2>3, <2>4 DEF TypeInv, TypeOK
    <2>6. QED
      BY <1>0, <1>10, <1>Q, <2>5 DEF StartSession
  <1>11. ASSUME NEW r \in Requests, RecordDevice(r) PROVE OnCurrentPassword(u)'
    <2>1. pc[r] \in Entering /\ Goto(r, "commit")
      BY <1>11 DEF RecordDevice, Entering
    <2>2. QED
      BY <1>0, <1>11, <1>G, <1>Q, <2>1 DEF RecordDevice
  <1>12. ASSUME NEW r \in Requests, CommitLogin(r) PROVE OnCurrentPassword(u)'
    <2>1. pc[r] \in Entering /\ Goto(r, "clear")
      BY <1>12 DEF CommitLogin, Entering
    <2>2. OldSessions
      BY <1>0, <1>12, <2>1 DEF CommitLogin
    <2>3. QED
      BY <1>0, <1>12, <1>G, <1>Q, <2>1, <2>2 DEF CommitLogin
  <1>13. ASSUME NEW r \in Requests, Fail(r) PROVE OnCurrentPassword(u)'
    BY <1>0, <1>13, <1>R, <1>Q DEF Fail
  <1>14. QED
    BY <1>1, <1>2, <1>3, <1>4, <1>5, <1>6, <1>7, <1>8, <1>9, <1>10, <1>11, <1>12,
       <1>13, NextCases

(***************************************************************************)
(* A reset kicks every session of its account, and whoever is on the way   *)
(* to one, but for logins it overtakes between their check of the password *)
(* and their transaction.                                                  *)
(***************************************************************************)
THEOREM ResetsKick == Spec => KickedUnlessRaced
  <1>1. TypeInv /\ [Next]_vars =>
          [\A u \in Users : OnCurrentPassword(u) /\ ~OnCurrentPassword(u)' =>
             /\ user'[u].hash # user[u].hash
             /\ \E r \in Requests : pc[r] = "start" /\ req[r].user = u]_vars
    BY CurrentStep
  <1>2. QED
    BY <1>1, TypeInvariant, PTL DEF Spec, KickedUnlessRaced

(***************************************************************************)
(* The guesses in flight.  Every failure an account will still be charged  *)
(* for belongs to one of them: a guess is in flight only if it read the    *)
(* account unlocked, so once the account is locked no more are added, and  *)
(* counting one takes it out.                                              *)
(***************************************************************************)
Guess(t, u) ==
  /\ pc[t] \in {"count", "logFailure"}
  /\ pc[t] = "logFailure" => Counted(req[t].err)
  /\ req[t].user = u

Guesses(u) == {t \in Requests : Guess(t, u)}

GuessBound ==
  \A u \in Users :
    user[u].failed + Cardinality(Guesses(u)) + 2
      <= LockoutThreshold + Cardinality(Requests)

LEMMA GuessesFinite ==
  ASSUME NEW S \in SUBSET Requests
  PROVE  /\ IsFiniteSet(S)
         /\ Cardinality(S) \in Nat
         /\ Cardinality(Requests) \in Nat
         /\ Cardinality(S) <= Cardinality(Requests)
  BY AccountsAssumption, FS_Subset, FS_CardinalityType

LEMMA NoNewGuess ==
  ASSUME TypeInv, [Next]_vars, NEW u \in Users, user[u].locked
  PROVE  Guesses(u)' \subseteq Guesses(u)
  <1> DEFINE Conclusion == \A t \in Requests : Guess(t, u)' => Guess(t, u)
  <1>S. SUFFICES Conclusion
    BY DEF Guesses
  <1>R. ASSUME NEW r \in Requests, Respond(r) PROVE Conclusion
    BY <1>R DEF Respond, Guess, TypeInv, TypeOK
  <1>G. ASSUME NEW r \in Requests, NEW next, Goto(r, next),
               next \notin {"count", "logFailure"}
        PROVE  Conclusion
    BY <1>G DEF Goto, Guess, TypeInv, TypeOK
  <1>1. CASE UNCHANGED vars
    BY <1>1 DEF vars, Guess
  <1>2. CASE Tick
    BY <1>2 DEF Tick, Guess
  <1>3. ASSUME NEW r \in Requests, Arrival(r) PROVE Conclusion
    <2>1. PICK q \in Request, next \in {"logFailure", "count", "start", "upsert", "change", "end"} :
            /\ Begin(r, q, next)
            /\ next \in {"count", "start", "change"} => ~user[q.user].locked
            /\ next = "logFailure" /\ Counted(q.err) => ~user[q.user].locked
      BY <1>3 DEF Arrival
    <2>2. Guess(r, u)' => q.user # u
      BY <2>1 DEF Begin, Guess, TypeInv, TypeOK
    <2>3. ~Guess(r, u)'
      BY <2>1, <2>2 DEF Begin, Guess, TypeInv, TypeOK
    <2>4. QED
      BY <2>1, <2>3 DEF Begin, Guess, TypeInv, TypeOK
  <1>4. ASSUME NEW r \in Requests, LogFailure(r) PROVE Conclusion
    <2>1. CASE Counted(req[r].err)
      BY <1>4, <2>1 DEF LogFailure, Goto, Guess, TypeInv, TypeOK
    <2>2. CASE ~Counted(req[r].err)
      BY <1>4, <2>2, <1>R DEF LogFailure
    <2>3. QED
      BY <2>1, <2>2
  <1>5. ASSUME NEW r \in Requests,
               \/ CountFailure(r) \/ ClearFailures(r) \/ UpsertPending(r)
               \/ EndSession(r) \/ Fail(r)
        PROVE  Conclusion
    BY <1>5, <1>R DEF CountFailure, ClearFailures, UpsertPending, EndSession, Fail
  <1>6. ASSUME NEW r \in Requests, ChangePassword(r) \/ RecordDevice(r) \/ CommitLogin(r)
        PROVE  Conclusion
    BY <1>6, <1>G DEF ChangePassword, RecordDevice, CommitLogin
  <1>7. ASSUME NEW r \in Requests, StartSession(r) PROVE Conclusion
    BY <1>7 DEF StartSession, Guess, TypeInv, TypeOK
  <1>8. QED
    BY <1>1, <1>2, <1>3, <1>4, <1>5, <1>6, <1>7, NextCases

LEMMA GuessInit == Init => GuessBound
  <1> SUFFICES ASSUME Init, NEW u \in Users
               PROVE  user[u].failed + Cardinality(Guesses(u)) + 2
                        <= LockoutThreshold + Cardinality(Requests)
    BY DEF GuessBound
  <1>1. user[u].failed = 0
    BY AccountsAssumption, NewRowRow DEF Init
  <1>2. Guesses(u) \in SUBSET Requests
    BY DEF Guesses
  <1>3. QED
    BY <1>1, <1>2, GuessesFinite, RowAssumption

LEMMA GuessNext ==
  ASSUME TypeInv, LockTracksCounter, GuessBound, [Next]_vars
  PROVE  GuessBound'
  <1> SUFFICES ASSUME NEW u \in Users
               PROVE  user'[u].failed + Cardinality(Guesses(u)') + 2
                        <= LockoutThreshold + Cardinality(Requests)
    BY DEF GuessBound
  <1> DEFINE before == Guesses(u)
             after  == Guesses(u)'
             room   == LockoutThreshold + Cardinality(Requests)
  <1>1. /\ user[u] \in Row /\ user[u].failed \in Nat
        /\ now \in Nat
        /\ ~user[u].locked => user[u].failed + 2 <= LockoutThreshold
        /\ user[u].failed + Cardinality(before) + 2 <= room
    BY RowAssumption DEF TypeInv, TypeOK, LockTracksCounter, GuessBound, Row
  <1>2. /\ IsFiniteSet(before) /\ Cardinality(before) \in Nat
        /\ Cardinality(after) \in Nat
        /\ Cardinality(after) <= Cardinality(Requests)
        /\ Cardinality(Requests) \in Nat
    <2>1. before \in SUBSET Requests /\ after \in SUBSET Requests
      BY DEF Guesses
    <2> HIDE DEF before, after
    <2>2. QED
      BY <2>1, GuessesFinite
  <1>3. user[u].locked => Cardinality(after) <= Cardinality(before)
    <2>1. user[u].locked => after \in SUBSET before
      BY NoNewGuess
    <2> HIDE DEF before, after
    <2>2. QED
      BY <1>2, <2>1, FS_Subset
  <1>4. CASE user'[u].failed = user[u].failed
    BY <1>1, <1>2, <1>3, <1>4, RowAssumption
  <1>5. CASE user'[u].failed = 0
    BY <1>2, <1>5, RowAssumption
  <1>6. ASSUME NEW r \in Requests, CountFailure(r), req[r].user = u
        PROVE  user'[u].failed + Cardinality(after) + 2 <= room
    <2>1. user'[u].failed = user[u].failed + 1
      BY <1>1, <1>6, RecordFailedRow DEF CountFailure, TypeInv, TypeOK
    <2>2. r \in before
      BY <1>6 DEF CountFailure, Guesses, Guess
    <2>3. after \subseteq before \ {r}
      BY <1>6 DEF CountFailure, Respond, Guesses, Guess, TypeInv, TypeOK
    <2> HIDE DEF before, after
    <2>4. /\ IsFiniteSet(before \ {r})
          /\ Cardinality(before \ {r}) = Cardinality(before) - 1
      BY <1>2, <2>2, FS_RemoveElement
    <2>5. Cardinality(after) <= Cardinality(before) - 1
      BY <2>3, <2>4, FS_Subset
    <2>6. QED
      BY <1>1, <1>2, <2>1, <2>5, RowAssumption
  <1>7. \/ user'[u].failed = user[u].failed
        \/ user'[u].failed = 0
        \/ \E r \in Requests : CountFailure(r) /\ req[r].user = u
    BY <1>1, UserSteps, ResetFailedRow, SetHashRow
  <1>8. QED
    BY <1>4, <1>5, <1>6, <1>7

(***************************************************************************)
(* However many guesses run at once, the counter passes the threshold by   *)
(* no more than the guesses that were in flight when the lock tripped, and *)
(* the account is locked from one below the threshold on.                  *)
(***************************************************************************)
THEOREM GuessesAreBounded == Spec => []Lockout
  <1>1. GuessBound /\ TypeInv => FailureCap
    <2> SUFFICES ASSUME GuessBound, TypeInv, NEW u \in Users
                 PROVE  user[u].failed + 2 <= LockoutThreshold + Cardinality(Requests)
      BY DEF FailureCap
    <2>1. user[u].failed \in Nat
      BY DEF TypeInv, TypeOK, Row
    <2>2. Guesses(u) \in SUBSET Requests
      BY DEF Guesses
    <2>3. user[u].failed + Cardinality(Guesses(u)) + 2
            <= LockoutThreshold + Cardinality(Requests)
      BY DEF GuessBound
    <2>4. QED
      BY <2>1, <2>2, <2>3, GuessesFinite, RowAssumption
  <1>2. TypeInv /\ LockTracksCounter /\ GuessBound /\ [Next]_vars => GuessBound'
    BY GuessNext
  <1>3. QED
    BY <1>1, <1>2, GuessInit, TypeInvariant, LockFollowsCounter, PTL DEF Spec, Lockout

------------------------------------------------------------------------------
(***************************************************************************)
(* Theorems about the audit log of Accounts: what the tables say is        *)
(* logged, every session that ended is accounted for, and Accounts         *)
(* implements AccountLedger.                                               *)
(***************************************************************************)

(***************************************************************************)
(* Session numbers.  A number belongs to the one login that drew it from   *)
(* the AUTO_INCREMENT, before its entry is written (Drawn) and after       *)
(* (Owned, Unique); only a number that was logged in is logged out         *)
(* (EndsKnown, LogoutsKnown).                                              *)
(***************************************************************************)
SignIns  == {e \in audit : e.action = "LOGIN_SUCCEEDED"}
SignOuts == {e \in audit : e.action = "SESSION_ENDED"}

Drawn ==
  \A t \in Requests : SigningIn(t) =>
    /\ req[t].sid \in 1 .. nextSession
    /\ \A e \in SignIns : e.about # req[t].sid
    /\ \A v \in Requests \ {t} : SigningIn(v) => req[v].sid # req[t].sid

Owned == \A e \in SignIns : e.about \in 1 .. nextSession

Unique == \A e, f \in SignIns : e.about = f.about => e.user = f.user

EndsKnown == \A e \in SignOuts : Entry("LOGIN_SUCCEEDED", e.user, e.about) \in audit

LogoutsKnown ==
  \A t \in Requests : pc[t] = "end" =>
    Entry("LOGIN_SUCCEEDED", req[t].user, req[t].sid) \in audit

SessionsKnown ==
  \A s \in sessions : Entry("LOGIN_SUCCEEDED", s.user, s.id) \in audit

Numbering ==
  /\ Drawn
  /\ Owned
  /\ Unique
  /\ EndsKnown
  /\ LogoutsKnown
  /\ SessionsKnown
  /\ nextSession <= MaxSessions

LEMMA EntryFields ==
  \A action, u, about : /\ Entry(action, u, about).action = action
                        /\ Entry(action, u, about).user = u
                        /\ Entry(action, u, about).about = about
  BY DEF Entry

LEMMA NumberingInit == Init => Numbering
  BY AccountsAssumption
     DEF Init, Numbering, Drawn, Owned, Unique, EndsKnown, LogoutsKnown, SessionsKnown,
         SignIns, SignOuts, SigningIn

(***************************************************************************)
(* A step that draws no number and logs no session in or out.              *)
(***************************************************************************)
Quiet ==
  /\ sessions' \subseteq sessions
  /\ nextSession' = nextSession
  /\ audit \subseteq audit'
  /\ SignIns' = SignIns
  /\ SignOuts' = SignOuts

LEMMA QuietEntry ==
  ASSUME NEW e, audit' = audit \cup {e}, e.action \notin {"LOGIN_SUCCEEDED", "SESSION_ENDED"}
  PROVE  audit \subseteq audit' /\ SignIns' = SignIns /\ SignOuts' = SignOuts
  BY DEF SignIns, SignOuts

LEMMA QuietNumbering ==
  ASSUME TypeInv, Numbering, Quiet,
         \A t \in Requests : SigningIn(t)' => SigningIn(t) /\ req'[t].sid = req[t].sid,
         \A t \in Requests : pc'[t] = "end" =>
           Entry("LOGIN_SUCCEEDED", req'[t].user, req'[t].sid) \in audit
  PROVE  Numbering'
  <1>1. Drawn'
    BY DEF Numbering, Drawn, Quiet
  <1>2. Owned' /\ Unique' /\ EndsKnown'
    BY DEF Numbering, Owned, Unique, EndsKnown, Quiet
  <1>3. LogoutsKnown' /\ SessionsKnown'
    BY DEF Numbering, LogoutsKnown, SessionsKnown, Quiet
  <1>4. QED
    BY <1>1, <1>2, <1>3 DEF Numbering, Quiet

LEMMA NumberingNext == TypeInv /\ Numbering /\ [Next]_vars => Numbering'
  <1> SUFFICES ASSUME TypeInv, Numbering, [Next]_vars PROVE Numbering'
    OBVIOUS
  <1> DEFINE Keeps ==
        /\ \A t \in Requests : SigningIn(t)' => SigningIn(t) /\ req'[t].sid = req[t].sid
        /\ \A t \in Requests : pc'[t] = "end" =>
             Entry("LOGIN_SUCCEEDED", req'[t].user, req'[t].sid) \in audit
  <1>Q. ASSUME Quiet, Keeps PROVE Numbering'
    BY <1>Q, QuietNumbering
  <1>0. \A t \in Requests : pc[t] = "end" =>
             Entry("LOGIN_SUCCEEDED", req[t].user, req[t].sid) \in audit
    BY DEF Numbering, LogoutsKnown
  <1>R. ASSUME NEW r \in Requests, Respond(r) PROVE Keeps
    BY <1>0, <1>R DEF Respond, SigningIn, TypeInv, TypeOK
  <1>G. ASSUME NEW r \in Requests, NEW next, Goto(r, next), next # "end",
               next \in {"device", "commit"} => SigningIn(r)
        PROVE  Keeps
    BY <1>0, <1>G DEF Goto, SigningIn, TypeInv, TypeOK
  <1>1. CASE UNCHANGED vars
    <2>1. Quiet
      BY <1>1 DEF vars, Quiet, SignIns, SignOuts
    <2>2. Keeps
      BY <1>0, <1>1 DEF vars, SigningIn
    <2>3. QED
      BY <2>1, <2>2, <1>Q
  <1>2. CASE Tick
    <2>1. Quiet
      BY <1>2 DEF Tick, Quiet, SignIns, SignOuts
    <2>2. Keeps
      BY <1>0, <1>2 DEF Tick, SigningIn
    <2>3. QED
      BY <2>1, <2>2, <1>Q
  <1>3. ASSUME NEW r \in Requests, Arrival(r) PROVE Numbering'
    <2>1. PICK q \in Request, next \in {"logFailure", "count", "start", "upsert", "change", "end"} :
            /\ Begin(r, q, next)
            /\ next = "end" => \E s \in sessions : s.id = q.sid /\ s.user = q.user
      BY <1>3 DEF Arrival
    <2>2. Quiet
      BY <2>1 DEF Begin, Quiet, SignIns, SignOuts
    <2>3. next = "end" => Entry("LOGIN_SUCCEEDED", q.user, q.sid) \in audit
      BY <2>1 DEF Numbering, SessionsKnown
    <2>4. Keeps
      BY <1>0, <2>1, <2>3 DEF Begin, SigningIn, TypeInv, TypeOK
    <2>5. QED
      BY <2>2, <2>4, <1>Q
  <1>4. ASSUME NEW r \in Requests, LogFailure(r) PROVE Numbering'
    <2>1. Quiet
      BY <1>4, QuietEntry, EntryFields DEF LogFailure, FailureAction, Quiet
    <2>2. (Goto(r, "count") \/ Respond(r))
      BY <1>4 DEF LogFailure
    <2>3. Keeps
      BY <2>2, <1>R, <1>G
    <2>4. QED
      BY <2>1, <2>3, <1>Q
  <1>5. ASSUME NEW r \in Requests,
               CountFailure(r) \/ ClearFailures(r) \/ UpsertPending(r) \/ Fail(r)
        PROVE  Numbering'
    <2>1. Quiet /\ Respond(r)
      BY <1>5 DEF CountFailure, ClearFailures, UpsertPending, Fail, Quiet, SignIns, SignOuts
    <2>2. QED
      BY <2>1, <1>R, <1>Q
  <1>6. ASSUME NEW r \in Requests, ChangePassword(r) PROVE Numbering'
    <2>1. Quiet
      <3>1. audit' = audit \cup {Entry("MASTER_PASSWORD_CHANGED", req[r].user, req[r].password)}
        BY <1>6 DEF ChangePassword, ResetEntries
      <3>2. QED
        BY <1>6, <3>1, QuietEntry, EntryFields DEF ChangePassword, SessionsWithout, Quiet
    <2>2. Goto(r, "clear")
      BY <1>6 DEF ChangePassword
    <2>3. QED
      BY <2>1, <2>2, <1>G, <1>Q
  <1>7. ASSUME NEW r \in Requests, RecordDevice(r) PROVE Numbering'
    <2>1. Quiet
      BY <1>7, QuietEntry, EntryFields DEF RecordDevice, Quiet
    <2>2. Goto(r, "commit") /\ SigningIn(r)
      BY <1>7 DEF RecordDevice, SigningIn
    <2>3. QED
      BY <2>1, <2>2, <1>G, <1>Q
  <1>8. ASSUME NEW r \in Requests, StartSession(r) PROVE Numbering'
    <2>1. /\ nextSession \in Nat /\ nextSession' = nextSession + 1
          /\ nextSession' <= MaxSessions
          /\ req[r] \in Request
      BY <1>8, InFlight, AccountsAssumption DEF StartSession, TypeInv, TypeOK, Idle
    <2>2. UNCHANGED <<sessions, audit, SignIns, SignOuts>>
      BY <1>8 DEF StartSession, SignIns, SignOuts
    <2>3. /\ pc' = [pc EXCEPT ![r] = "device"]
          /\ \A t \in Requests \ {r} : req'[t] = req[t]
          /\ req'[r].sid = nextSession + 1
      <3>1. [req[r] EXCEPT !.sid = nextSession + 1].sid = nextSession + 1
        BY <2>1 DEF Request
      <3>2. QED
        BY <1>8, <3>1 DEF StartSession, TypeInv, TypeOK
    <2>4. Drawn'
      <3>1. \A t \in Requests \ {r} : SigningIn(t)' =>
               SigningIn(t) /\ req'[t].sid = req[t].sid /\ req[t].sid \in 1 .. nextSession
        BY <2>3 DEF SigningIn, TypeInv, TypeOK, Numbering, Drawn
      <3>2. \A e \in SignIns : e.about \in 1 .. nextSession
        BY DEF Numbering, Owned
      <3>3. ASSUME NEW t \in Requests, SigningIn(t)'
            PROVE  /\ req'[t].sid \in 1 .. nextSession'
                   /\ \A e \in SignIns' : e.about # req'[t].sid
                   /\ \A v \in Requests \ {t} : SigningIn(v)' => req'[v].sid # req'[t].sid
        <4>1. CASE t = r
          BY <2>1, <2>2, <2>3, <3>1, <3>2, <4>1
        <4>2. CASE t # r
          <5>1. SigningIn(t) /\ req'[t].sid = req[t].sid /\ req[t].sid \in 1 .. nextSession
            BY <3>1, <3>3, <4>2
          <5>2. /\ \A e \in SignIns : e.about # req[t].sid
                /\ \A v \in Requests \ {t} : SigningIn(v) => req[v].sid # req[t].sid
            BY <5>1 DEF Numbering, Drawn
          <5>3. QED
            BY <2>1, <2>2, <2>3, <3>1, <5>1, <5>2
        <4>3. QED
          BY <4>1, <4>2
      <3>4. QED
        BY <3>3 DEF Drawn
    <2>5. Owned' /\ Unique' /\ EndsKnown' /\ SessionsKnown'
      BY <2>1, <2>2 DEF Numbering, Owned, Unique, EndsKnown, SessionsKnown
    <2>6. LogoutsKnown'
      BY <1>0, <2>2, <2>3 DEF LogoutsKnown, TypeInv, TypeOK
    <2>7. QED
      BY <2>1, <2>4, <2>5, <2>6 DEF Numbering
  <1>9. ASSUME NEW r \in Requests, CommitLogin(r) PROVE Numbering'
    <2> DEFINE e0 == Entry("LOGIN_SUCCEEDED", req[r].user, req[r].sid)
               s0 == [id |-> req[r].sid, user |-> req[r].user, proved |-> req[r].password]
    <2>1. /\ SigningIn(r)
          /\ req[r].sid \in 1 .. nextSession
          /\ \A e \in SignIns : e.about # req[r].sid
          /\ \A v \in Requests \ {r} : SigningIn(v) => req[v].sid # req[r].sid
      BY <1>9 DEF CommitLogin, SigningIn, Numbering, Drawn
    <2>2. /\ e0.action = "LOGIN_SUCCEEDED" /\ e0.user = req[r].user /\ e0.about = req[r].sid
          /\ s0.user = req[r].user /\ s0.id = req[r].sid
      BY EntryFields
    <2>3. /\ SignIns' = SignIns \cup {e0} /\ SignOuts' = SignOuts
          /\ audit \subseteq audit' /\ e0 \in audit'
      BY <1>9, EntryFields DEF CommitLogin, LoginEntries, SignIns, SignOuts
    <2>4. nextSession' = nextSession /\ sessions' = sessions \cup {s0} /\ Goto(r, "clear")
      BY <1>9 DEF CommitLogin
    <2>5. \A t \in Requests : SigningIn(t)' =>
             t # r /\ SigningIn(t) /\ req'[t].sid = req[t].sid
      BY <2>4 DEF Goto, SigningIn, TypeInv, TypeOK
    <2>b. \A t \in Requests : pc'[t] = "end" => pc[t] = "end" /\ req'[t] = req[t]
      BY <2>4 DEF Goto, TypeInv, TypeOK
    <2> HIDE DEF e0, s0
    <2>6. Drawn'
      <3>1. \A t \in Requests : SigningIn(t) =>
              /\ req[t].sid \in 1 .. nextSession
              /\ \A e \in SignIns : e.about # req[t].sid
              /\ \A v \in Requests \ {t} : SigningIn(v) => req[v].sid # req[t].sid
        BY DEF Numbering, Drawn
      <3>2. QED
        BY <2>1, <2>2, <2>3, <2>4, <2>5, <3>1 DEF Drawn
    <2>7. Owned' /\ Unique'
      BY <2>1, <2>2, <2>3, <2>4 DEF Numbering, Owned, Unique
    <2>8. EndsKnown'
      BY <2>3 DEF Numbering, EndsKnown
    <2>9. LogoutsKnown'
      BY <1>0, <2>3, <2>b DEF LogoutsKnown
    <2>10. SessionsKnown'
      BY <2>2, <2>3, <2>4 DEF Numbering, SessionsKnown, e0
    <2>11. QED
      BY <2>4, <2>6, <2>7, <2>8, <2>9, <2>10 DEF Numbering
  <1>10. ASSUME NEW r \in Requests, EndSession(r) PROVE Numbering'
    <2> DEFINE e0 == Entry("SESSION_ENDED", req[r].user, req[r].sid)
    <2>1. Entry("LOGIN_SUCCEEDED", req[r].user, req[r].sid) \in audit
      BY <1>0, <1>10 DEF EndSession
    <2>2. /\ SignIns' = SignIns /\ SignOuts' = SignOuts \cup {e0}
          /\ audit \subseteq audit'
          /\ e0.user = req[r].user /\ e0.about = req[r].sid
      BY <1>10, EntryFields DEF EndSession, SignIns, SignOuts
    <2>3. /\ nextSession' = nextSession /\ sessions' \subseteq sessions
          /\ Respond(r)
      BY <1>10 DEF EndSession, Revoked
    <2>4. Keeps
      BY <2>3, <1>R
    <2> HIDE DEF e0
    <2>5. Drawn'
      BY <2>2, <2>3, <2>4 DEF Numbering, Drawn
    <2>6. Owned' /\ Unique' /\ SessionsKnown'
      BY <2>2, <2>3 DEF Numbering, Owned, Unique, SessionsKnown
    <2>7. EndsKnown'
      BY <2>1, <2>2 DEF Numbering, EndsKnown
    <2>8. LogoutsKnown'
      BY <2>2, <2>4 DEF LogoutsKnown
    <2>9. QED
      BY <2>3, <2>5, <2>6, <2>7, <2>8 DEF Numbering
  <1>11. QED
    BY <1>1, <1>2, <1>3, <1>4, <1>5, <1>6, <1>7, <1>8, <1>9, <1>10, NextCases

LEMMA NumberingInvariant == Spec => []Numbering
  <1>1. TypeInv /\ Numbering /\ [Next]_vars => Numbering'
    BY NumberingNext
  <1>2. QED
    BY NumberingInit, <1>1, TypeInvariant, PTL DEF Spec

------------------------------------------------------------------------------
(***************************************************************************)
(* The tables and the log.  What a login needs to commit is there before   *)
(* it does: its device sighting, and the configuration row it enables.     *)
(***************************************************************************)
ReadyToCommit ==
  \A t \in Requests :
    /\ pc[t] = "commit" => Entry("DEVICE_SEEN", req[t].user, req[t].sid) \in audit
    /\ pc[t] = "start" \/ SigningIn(t) => twoFactor[req[t].user].status # "none"

AuditInv == StateIsAudited /\ ReadyToCommit

LEMMA AuditInit == Init => AuditInv
  <1> SUFFICES ASSUME Init PROVE AuditInv
    OBVIOUS
  <1>1. ReadyToCommit
    BY DEF Init, ReadyToCommit, SigningIn
  <1>2. \A u \in Users : twoFactor[u].status = "none" /\ user[u].hash = InitialPassword
    BY AccountsAssumption, NewRowRow DEF Init, NoTwoFactor
  <1>3. StateIsAudited
    BY <1>2 DEF Init, StateIsAudited
  <1>4. QED
    BY <1>1, <1>3 DEF AuditInv

(***************************************************************************)
(* A step that adds no session, enables nothing and changes no hash, but   *)
(* may write anything to the log.                                          *)
(***************************************************************************)
Tame ==
  /\ sessions' \subseteq sessions
  /\ audit \subseteq audit'
  /\ \A u \in Users :
       /\ twoFactor'[u].status = "enabled" => twoFactor[u].status = "enabled"
       /\ user'[u].hash = user[u].hash

LEMMA TameAudited ==
  ASSUME StateIsAudited, Tame
  PROVE  StateIsAudited'
  <1>1. \A s \in sessions' : /\ Entry("LOGIN_SUCCEEDED", s.user, s.id) \in audit'
                             /\ Entry("DEVICE_SEEN", s.user, s.id) \in audit'
    BY DEF StateIsAudited, Tame
  <1>2. ASSUME NEW u \in Users
        PROVE  /\ twoFactor'[u].status = "enabled" =>
                    \E e \in audit' : e.action = "TWO_FACTOR_ENABLED" /\ e.user = u
               /\ user'[u].hash # InitialPassword =>
                    Entry("MASTER_PASSWORD_CHANGED", u, user'[u].hash) \in audit'
    BY DEF StateIsAudited, Tame
  <1>3. QED
    BY <1>1, <1>2 DEF StateIsAudited

(***************************************************************************)
(* A configuration row, once there, stays.                                 *)
(***************************************************************************)
LEMMA ConfigStays ==
  ASSUME TypeInv, [Next]_vars, NEW u \in Users, twoFactor[u].status # "none"
  PROVE  twoFactor'[u].status # "none"
  <1>1. ASSUME NEW r \in Requests, UpsertPending(r) PROVE twoFactor'[u].status # "none"
    BY <1>1 DEF UpsertPending, PendingWith, TypeInv, TypeOK
  <1>2. ASSUME NEW r \in Requests, CommitLogin(r) PROVE twoFactor'[u].status # "none"
    <2>1. Enabled(twoFactor[u]).status # "none"
      BY DEF Enabled, TwoFactor, TypeInv, TypeOK
    <2>2. QED
      BY <1>2, <2>1 DEF CommitLogin, TypeInv, TypeOK
  <1>3. ASSUME NEW r \in Requests,
               \/ Arrival(r) \/ LogFailure(r) \/ CountFailure(r) \/ ClearFailures(r)
               \/ ChangePassword(r) \/ EndSession(r) \/ StartSession(r)
               \/ RecordDevice(r) \/ Fail(r)
        PROVE  twoFactor' = twoFactor
    BY <1>3 DEF Arrival, Begin, LogFailure, CountFailure, ClearFailures, ChangePassword,
                EndSession, StartSession, RecordDevice, Fail
  <1>4. CASE UNCHANGED vars \/ Tick
    BY <1>4 DEF vars, Tick
  <1>5. QED
    BY <1>1, <1>2, <1>3, <1>4, NextCases

LEMMA AuditNext == TypeInv /\ AuditInv /\ [Next]_vars => AuditInv'
  <1> SUFFICES ASSUME TypeInv, AuditInv, [Next]_vars PROVE AuditInv'
    OBVIOUS
  <1> DEFINE Ready(t) ==
        /\ pc[t] = "commit" => Entry("DEVICE_SEEN", req[t].user, req[t].sid) \in audit
        /\ pc[t] = "start" \/ SigningIn(t) => twoFactor[req[t].user].status # "none"
  <1>0. \A t \in Requests : Ready(t)
    BY DEF AuditInv, ReadyToCommit
  <1>S. ASSUME NEW t \in Requests, audit \subseteq audit',
               pc[t] \in {"start", "device", "commit"} => req[t].user \in Users,
               pc'[t] = pc[t], req'[t] = req[t]
        PROVE  Ready(t)'
    BY <1>0, <1>S, ConfigStays DEF SigningIn
  <1>U. \A t \in Requests : pc[t] \in {"start", "device", "commit"} => req[t].user \in Users
    BY InFlight DEF Idle
  <1>R. ASSUME NEW r \in Requests, Respond(r), audit \subseteq audit'
        PROVE  \A t \in Requests : Ready(t)'
    <2>1. \A t \in Requests \ {r} : Ready(t)'
      BY <1>R, <1>S, <1>U DEF Respond, TypeInv, TypeOK
    <2>2. Ready(r)'
      BY <1>R DEF Respond, SigningIn, TypeInv, TypeOK
    <2>3. QED
      BY <2>1, <2>2
  <1>G. ASSUME NEW r \in Requests, NEW next \in {"count", "clear"}, Goto(r, next),
               audit \subseteq audit'
        PROVE  \A t \in Requests : Ready(t)'
    <2>1. \A t \in Requests \ {r} : Ready(t)'
      BY <1>G, <1>S, <1>U DEF Goto, TypeInv, TypeOK
    <2>2. Ready(r)'
      BY <1>G DEF Goto, SigningIn, TypeInv, TypeOK
    <2>3. QED
      BY <2>1, <2>2
  <1>Q. ASSUME Tame, \A t \in Requests : Ready(t)' PROVE AuditInv'
    BY <1>Q, TameAudited DEF AuditInv, ReadyToCommit
  <1>1. CASE UNCHANGED vars \/ Tick
    <2>1. Tame
      BY <1>1 DEF vars, Tick, Tame
    <2>2. \A t \in Requests : Ready(t)'
      BY <1>0, <1>1 DEF vars, Tick, SigningIn
    <2>3. QED
      BY <2>1, <2>2, <1>Q
  <1>2. ASSUME NEW r \in Requests, Arrival(r) PROVE AuditInv'
    <2>1. PICK q \in Request, next \in {"logFailure", "count", "start", "upsert", "change", "end"} :
            /\ Begin(r, q, next)
            /\ next = "start" => twoFactor[q.user].status # "none"
      BY <1>2 DEF Arrival
    <2>2. Tame
      BY <2>1 DEF Begin, Tame
    <2>3. \A t \in Requests \ {r} : Ready(t)'
      BY <2>1, <1>S, <1>U DEF Begin, TypeInv, TypeOK
    <2>4. Ready(r)'
      BY <2>1 DEF Begin, SigningIn, TypeInv, TypeOK
    <2>5. QED
      BY <2>2, <2>3, <2>4, <1>Q
  <1>3. ASSUME NEW r \in Requests, LogFailure(r) PROVE AuditInv'
    <2>1. Tame /\ (Goto(r, "count") \/ Respond(r))
      BY <1>3 DEF LogFailure, Tame
    <2>2. \A t \in Requests : Ready(t)'
      BY <2>1, <1>R, <1>G DEF Tame
    <2>3. QED
      BY <2>1, <2>2, <1>Q
  <1>4. ASSUME NEW r \in Requests, CountFailure(r) \/ ClearFailures(r) PROVE AuditInv'
    <2>1. req[r].user \in Users /\ user[req[r].user] \in Row /\ now \in Nat
      BY <1>4, InFlight DEF CountFailure, ClearFailures, Idle, TypeInv, TypeOK
    <2>2. \A u \in Users : user'[u].hash = user[u].hash
      <3>1. CASE CountFailure(r)
        BY <2>1, <3>1, RecordFailedRow DEF CountFailure, TypeInv, TypeOK
      <3>2. CASE ClearFailures(r)
        BY <2>1, <3>2, ResetFailedRow DEF ClearFailures, TypeInv, TypeOK
      <3>3. QED
        BY <1>4, <3>1, <3>2
    <2>3. Tame /\ Respond(r)
      BY <1>4, <2>2 DEF CountFailure, ClearFailures, Tame
    <2>4. QED
      BY <2>3, <1>R, <1>Q DEF Tame
  <1>5. ASSUME NEW r \in Requests, UpsertPending(r) PROVE AuditInv'
    <2>1. \A u \in Users :
            twoFactor'[u].status = "enabled" => twoFactor[u].status = "enabled"
      BY <1>5 DEF UpsertPending, PendingWith, TypeInv, TypeOK
    <2>2. Tame /\ Respond(r)
      BY <1>5, <2>1 DEF UpsertPending, Tame
    <2>3. QED
      BY <2>2, <1>R, <1>Q DEF Tame
  <1>6. ASSUME NEW r \in Requests, ChangePassword(r) PROVE AuditInv'
    <2>1. /\ sessions' \subseteq sessions /\ twoFactor' = twoFactor
          /\ audit' = audit \cup {Entry("MASTER_PASSWORD_CHANGED", req[r].user, req[r].password)}
          /\ Goto(r, "clear")
      BY <1>6 DEF ChangePassword, SessionsWithout, ResetEntries
    <2>2. ASSUME NEW u \in Users
          PROVE  \/ user'[u].hash = user[u].hash
                 \/ u = req[r].user /\ user'[u].hash = req[r].password
      <3>1. req[r].password \in Passwords
        BY <1>6, InFlight DEF ChangePassword, Idle
      <3>2. user[u] \in Row
        BY DEF TypeInv, TypeOK
      <3>3. QED
        BY <1>6, <3>1, <3>2, SetHashRow DEF ChangePassword, TypeInv, TypeOK
    <2>3. \A u \in Users : user'[u].hash # InitialPassword =>
             Entry("MASTER_PASSWORD_CHANGED", u, user'[u].hash) \in audit'
      BY <2>1, <2>2 DEF AuditInv, StateIsAudited
    <2>4. \A s \in sessions' : /\ Entry("LOGIN_SUCCEEDED", s.user, s.id) \in audit'
                               /\ Entry("DEVICE_SEEN", s.user, s.id) \in audit'
      BY <2>1 DEF AuditInv, StateIsAudited
    <2>5. \A u \in Users : twoFactor'[u].status = "enabled" =>
             \E e \in audit' : e.action = "TWO_FACTOR_ENABLED" /\ e.user = u
      BY <2>1 DEF AuditInv, StateIsAudited
    <2>6. StateIsAudited'
      BY <2>3, <2>4, <2>5 DEF StateIsAudited
    <2>7. \A t \in Requests : Ready(t)'
      BY <2>1, <1>G
    <2>8. QED
      BY <2>6, <2>7 DEF AuditInv, ReadyToCommit
  <1>7. ASSUME NEW r \in Requests, EndSession(r) \/ Fail(r) PROVE AuditInv'
    <2>1. Tame /\ Respond(r)
      BY <1>7 DEF EndSession, Revoked, Fail, Tame
    <2>2. QED
      BY <2>1, <1>R, <1>Q DEF Tame
  <1>8. ASSUME NEW r \in Requests, StartSession(r) PROVE AuditInv'
    <2>1. Tame
      BY <1>8 DEF StartSession, Tame
    <2>2. \A t \in Requests \ {r} : Ready(t)'
      BY <1>8, <1>S, <1>U DEF StartSession, TypeInv, TypeOK
    <2>3. req[r] \in Request /\ pc[r] = "start"
      BY <1>8, InFlight DEF StartSession, Idle
    <2>4. pc'[r] = "device" /\ req'[r].user = req[r].user
      <3>1. [req[r] EXCEPT !.sid = nextSession + 1].user = req[r].user
        BY <2>3 DEF Request
      <3>2. QED
        BY <1>8, <3>1 DEF StartSession, TypeInv, TypeOK
    <2>5. Ready(r)'
      BY <1>0, <1>8, <2>3, <2>4 DEF StartSession
    <2>6. QED
      BY <2>1, <2>2, <2>5, <1>Q
  <1>9. ASSUME NEW r \in Requests, RecordDevice(r) PROVE AuditInv'
    <2>1. /\ Tame /\ Goto(r, "commit") /\ pc[r] = "device" /\ twoFactor' = twoFactor
          /\ Entry("DEVICE_SEEN", req[r].user, req[r].sid) \in audit'
      BY <1>9 DEF RecordDevice, Tame
    <2>2. \A t \in Requests \ {r} : Ready(t)'
      BY <2>1, <1>S, <1>U DEF Tame, Goto, TypeInv, TypeOK
    <2>3. Ready(r)'
      BY <1>0, <2>1 DEF Goto, SigningIn, TypeInv, TypeOK
    <2>4. QED
      BY <2>1, <2>2, <2>3, <1>Q
  <1>10. ASSUME NEW r \in Requests, CommitLogin(r) PROVE AuditInv'
    <2> DEFINE s0 == [id |-> req[r].sid, user |-> req[r].user, proved |-> req[r].password]
    <2>1. /\ pc[r] = "commit" /\ user' = user /\ Goto(r, "clear")
          /\ sessions' = sessions \cup {s0} /\ audit' = audit \cup LoginEntries(r)
      BY <1>10 DEF CommitLogin
    <2>2. /\ Entry("LOGIN_SUCCEEDED", req[r].user, req[r].sid) \in audit'
          /\ Entry("DEVICE_SEEN", req[r].user, req[r].sid) \in audit'
          /\ req[r].enables =>
               Entry("TWO_FACTOR_ENABLED", req[r].user, req[r].secret) \in audit'
      BY <1>0, <2>1 DEF LoginEntries
    <2>3. s0.user = req[r].user /\ s0.id = req[r].sid
      OBVIOUS
    <2> HIDE DEF s0
    <2>4. \A s \in sessions' : /\ Entry("LOGIN_SUCCEEDED", s.user, s.id) \in audit'
                               /\ Entry("DEVICE_SEEN", s.user, s.id) \in audit'
      BY <2>1, <2>2, <2>3 DEF AuditInv, StateIsAudited
    <2>5. ASSUME NEW u \in Users, twoFactor'[u].status = "enabled"
          PROVE  \E e \in audit' : e.action = "TWO_FACTOR_ENABLED" /\ e.user = u
      <3>1. \/ twoFactor[u].status = "enabled"
            \/ u = req[r].user /\ req[r].enables
        BY <1>10, <2>5 DEF CommitLogin, TypeInv, TypeOK
      <3>2. CASE twoFactor[u].status = "enabled"
        BY <2>1, <3>2 DEF AuditInv, StateIsAudited
      <3>3. CASE u = req[r].user /\ req[r].enables
        BY <2>2, <3>3, EntryFields
      <3>4. QED
        BY <3>1, <3>2, <3>3
    <2>6. \A u \in Users : user'[u].hash # InitialPassword =>
             Entry("MASTER_PASSWORD_CHANGED", u, user'[u].hash) \in audit'
      BY <2>1 DEF AuditInv, StateIsAudited
    <2>7. StateIsAudited'
      BY <2>4, <2>5, <2>6 DEF StateIsAudited
    <2>8. \A t \in Requests : Ready(t)'
      BY <2>1, <1>G
    <2>9. QED
      BY <2>7, <2>8 DEF AuditInv, ReadyToCommit
  <1>11. QED
    BY <1>1, <1>2, <1>3, <1>4, <1>5, <1>6, <1>7, <1>8, <1>9, <1>10, NextCases

(***************************************************************************)
(* Whatever fails and however requests interleave, a live session, an      *)
(* enabled second factor and a changed password have their entries.        *)
(***************************************************************************)
THEOREM TablesAreAudited == Spec => []StateIsAudited
  <1>1. AuditInv => StateIsAudited
    BY DEF AuditInv
  <1>2. TypeInv /\ AuditInv /\ [Next]_vars => AuditInv'
    BY AuditNext
  <1>3. QED
    BY <1>1, <1>2, AuditInit, TypeInvariant, PTL DEF Spec

------------------------------------------------------------------------------
(***************************************************************************)
(* The end of a session.                                                   *)
(***************************************************************************)
Accounted(e) ==
  IF \E s \in sessions : s.id = e.about
  THEN Entry("SESSION_ENDED", e.user, e.about) \notin audit
  ELSE \/ Entry("SESSION_ENDED", e.user, e.about) \in audit
       \/ \E c \in audit : c.action = "MASTER_PASSWORD_CHANGED" /\ c.user = e.user

EndsInv == \A e \in SignIns : Accounted(e)

LEMMA SameEnds ==
  ASSUME EndsInv, sessions' = sessions, audit \subseteq audit', SignIns' = SignIns,
         SignOuts' = SignOuts
  PROVE  EndsInv'
  <1> SUFFICES ASSUME NEW e \in SignIns PROVE Accounted(e)'
    BY DEF EndsInv
  <1>1. Entry("SESSION_ENDED", e.user, e.about) \in audit'
          <=> Entry("SESSION_ENDED", e.user, e.about) \in audit
    BY EntryFields DEF SignOuts
  <1>2. QED
    BY <1>1 DEF EndsInv, Accounted

LEMMA EndsNext == TypeInv /\ Numbering /\ EndsInv /\ [Next]_vars => EndsInv'
  <1> SUFFICES ASSUME TypeInv, Numbering, EndsInv, [Next]_vars PROVE EndsInv'
    OBVIOUS
  <1>1. CASE UNCHANGED vars \/ Tick
    BY <1>1, SameEnds DEF vars, Tick, SignIns, SignOuts
  <1>2. ASSUME NEW r \in Requests,
               \/ Arrival(r) \/ CountFailure(r) \/ ClearFailures(r) \/ UpsertPending(r)
               \/ StartSession(r) \/ Fail(r)
        PROVE  EndsInv'
    <2>1. sessions' = sessions /\ audit' = audit
      BY <1>2 DEF Arrival, Begin, CountFailure, ClearFailures, UpsertPending, StartSession, Fail
    <2>2. QED
      BY <2>1, SameEnds DEF SignIns, SignOuts
  <1>3. ASSUME NEW r \in Requests, LogFailure(r) PROVE EndsInv'
    BY <1>3, SameEnds, QuietEntry, EntryFields DEF LogFailure, FailureAction
  <1>4. ASSUME NEW r \in Requests, RecordDevice(r) PROVE EndsInv'
    BY <1>4, SameEnds, QuietEntry, EntryFields DEF RecordDevice
  <1>5. ASSUME NEW r \in Requests, CommitLogin(r) PROVE EndsInv'
    <2> DEFINE e0 == Entry("LOGIN_SUCCEEDED", req[r].user, req[r].sid)
               s0 == [id |-> req[r].sid, user |-> req[r].user, proved |-> req[r].password]
    <2>1. /\ SigningIn(r)
          /\ \A e \in SignIns : e.about # req[r].sid
      BY <1>5 DEF CommitLogin, SigningIn, Numbering, Drawn
    <2>2. /\ e0.about = req[r].sid /\ s0.id = req[r].sid
          /\ SignIns' = SignIns \cup {e0}
          /\ sessions' = sessions \cup {s0}
          /\ audit \subseteq audit'
      BY <1>5, EntryFields DEF CommitLogin, LoginEntries, SignIns
    <2>3. \A u, id : Entry("SESSION_ENDED", u, id) \in audit'
                       <=> Entry("SESSION_ENDED", u, id) \in audit
      BY <1>5 DEF CommitLogin, LoginEntries, Entry
    <2>4. Entry("SESSION_ENDED", e0.user, e0.about) \notin audit
      <3>1. ASSUME Entry("SESSION_ENDED", e0.user, e0.about) \in audit PROVE FALSE
        <4>1. Entry("LOGIN_SUCCEEDED", e0.user, e0.about) \in audit
          BY <3>1, EntryFields DEF Numbering, EndsKnown, SignOuts
        <4>2. Entry("LOGIN_SUCCEEDED", e0.user, e0.about) \in SignIns
          BY <4>1, EntryFields DEF SignIns
        <4>3. QED
          BY <2>1, <2>2, <4>2, EntryFields
      <3>2. QED
        BY <3>1
    <2> HIDE DEF e0, s0
    <2>5. ASSUME NEW e, e = e0 PROVE Accounted(e)'
      <3>1. \E s \in sessions' : s.id = e.about
        BY <2>2, <2>5
      <3>2. Entry("SESSION_ENDED", e.user, e.about) \notin audit'
        BY <2>3, <2>4, <2>5
      <3>3. QED
        BY <3>1, <3>2 DEF Accounted
    <2>6. ASSUME NEW e \in SignIns PROVE Accounted(e)'
      <3>1. (\E s \in sessions' : s.id = e.about) <=> (\E s \in sessions : s.id = e.about)
        BY <2>1, <2>2
      <3>2. QED
        BY <2>2, <2>3, <3>1 DEF EndsInv, Accounted
    <2>7. QED
      BY <2>2, <2>5, <2>6 DEF EndsInv
  <1>6. ASSUME NEW r \in Requests, ChangePassword(r) PROVE EndsInv'
    <2> DEFINE c0 == Entry("MASTER_PASSWORD_CHANGED", req[r].user, req[r].password)
    <2>1. /\ sessions' = {s \in sessions : s.user # req[r].user}
          /\ audit' = audit \cup {c0}
          /\ c0.action = "MASTER_PASSWORD_CHANGED" /\ c0.user = req[r].user
      BY <1>6, EntryFields DEF ChangePassword, SessionsWithout, ResetEntries
    <2>2. SignIns' = SignIns /\ SignOuts' = SignOuts
      BY <2>1, QuietEntry
    <2>3. ASSUME NEW e \in SignIns PROVE Accounted(e)'
      <3>1. Entry("SESSION_ENDED", e.user, e.about) \in audit'
              <=> Entry("SESSION_ENDED", e.user, e.about) \in audit
        BY <2>2, EntryFields DEF SignOuts
      <3>2. CASE \E s \in sessions : s.id = e.about
        <4>1. PICK s \in sessions : s.id = e.about
          BY <3>2
        <4>2. s.user = e.user
          BY <4>1, EntryFields DEF Numbering, SessionsKnown, Unique, SignIns
        <4>3. CASE s \in sessions'
          BY <2>3, <3>1, <3>2, <4>1, <4>3 DEF EndsInv, Accounted
        <4>4. CASE s \notin sessions'
          <5>1. e.user = req[r].user
            BY <2>1, <4>2, <4>4
          <5>2. \A x \in sessions : x.id = e.about => x.user = e.user
            BY EntryFields DEF Numbering, SessionsKnown, Unique, SignIns
          <5>3. ~\E x \in sessions' : x.id = e.about
            BY <2>1, <5>1, <5>2
          <5>4. QED
            BY <2>1, <5>1, <5>3 DEF Accounted
        <4>5. QED
          BY <4>3, <4>4
      <3>3. CASE ~\E s \in sessions : s.id = e.about
        BY <2>1, <3>1, <3>3 DEF EndsInv, Accounted
      <3>4. QED
        BY <3>2, <3>3
    <2>4. QED
      BY <2>2, <2>3 DEF EndsInv
  <1>7. ASSUME NEW r \in Requests, EndSession(r) PROVE EndsInv'
    <2>1. /\ sessions' = {s \in sessions : s.id # req[r].sid}
          /\ audit' = audit \cup {Entry("SESSION_ENDED", req[r].user, req[r].sid)}
      BY <1>7 DEF EndSession, Revoked
    <2>2. SignIns' = SignIns
      BY <2>1, EntryFields DEF SignIns
    <2>3. Entry("LOGIN_SUCCEEDED", req[r].user, req[r].sid) \in audit
      BY <1>7 DEF EndSession, Numbering, LogoutsKnown
    <2>4. ASSUME NEW e \in SignIns PROVE Accounted(e)'
      <3>1. CASE e.about = req[r].sid
        <4>1. e.user = req[r].user
          BY <2>3, <3>1, EntryFields DEF Numbering, Unique, SignIns
        <4>2. Entry("SESSION_ENDED", e.user, e.about) \in audit'
          BY <2>1, <3>1, <4>1
        <4>3. QED
          BY <2>1, <3>1, <4>2 DEF Accounted
      <3>2. CASE e.about # req[r].sid
        <4>1. Entry("SESSION_ENDED", e.user, e.about) # Entry("SESSION_ENDED", req[r].user, req[r].sid)
          BY <3>2, EntryFields
        <4>2. Entry("SESSION_ENDED", e.user, e.about) \in audit'
                <=> Entry("SESSION_ENDED", e.user, e.about) \in audit
          BY <2>1, <4>1
        <4>3. (\E s \in sessions' : s.id = e.about) <=> (\E s \in sessions : s.id = e.about)
          BY <2>1, <3>2
        <4>4. audit \subseteq audit'
          BY <2>1
        <4>5. QED
          BY <4>2, <4>3, <4>4 DEF EndsInv, Accounted
      <3>3. QED
        BY <3>1, <3>2
    <2>5. QED
      BY <2>2, <2>4 DEF EndsInv
  <1>8. QED
    BY <1>1, <1>2, <1>3, <1>4, <1>5, <1>6, <1>7, NextCases

(***************************************************************************)
(* A session is live exactly until its logout or a password change of its  *)
(* own account is logged, and a logged-out number never comes back.        *)
(***************************************************************************)
THEOREM EndsAreAccountedFor == Spec => []SessionEndsAudited
  <1>1. Init => EndsInv
    BY DEF Init, EndsInv, SignIns
  <1>2. TypeInv /\ Numbering /\ EndsInv /\ [Next]_vars => EndsInv'
    BY EndsNext
  <1>3. EndsInv => SessionEndsAudited
    BY DEF EndsInv, Accounted, SignIns, SessionEndsAudited
  <1>4. QED
    BY <1>1, <1>2, <1>3, TypeInvariant, NumberingInvariant, PTL DEF Spec

------------------------------------------------------------------------------
(***************************************************************************)
(* Refinement: every step of Accounts is a step of AccountLedger or leaves *)
(* the ledger alone.                                                       *)
(***************************************************************************)
LEMMA LedgerInit == Init => Ledger!Init
  BY AccountsAssumption
     DEF Init, Ledger!Init, LiveSessions, EnabledUsers, LedgerEntries, NoTwoFactor

LEMMA LedgerFresh ==
  ASSUME TypeInv, Numbering, NEW r \in Requests, SigningIn(r)
  PROVE  Ledger!Fresh(req[r].sid) /\ req[r].sid \in 1 .. MaxSessions
  <1>1. \A e \in SignIns : e.about # req[r].sid
    BY DEF Numbering, Drawn
  <1>2. req[r].sid \in 1 .. nextSession /\ nextSession <= MaxSessions /\ nextSession \in Nat
    BY DEF Numbering, Drawn, TypeInv, TypeOK
  <1>3. QED
    BY <1>1, <1>2, AccountsAssumption DEF Ledger!Fresh, LedgerEntries, SignIns

LEMMA LedgerStutter ==
  ASSUME sessions' = sessions, EnabledUsers' = EnabledUsers, LedgerEntries' = LedgerEntries
  PROVE  UNCHANGED Ledger!ledger
  BY DEF Ledger!ledger, LiveSessions

LEMMA LedgerNext ==
  ASSUME TypeInv, Numbering, AuditInv, [Next]_vars
  PROVE  [Ledger!Next]_(Ledger!ledger)
  <1>1. CASE UNCHANGED vars \/ Tick
    BY <1>1, LedgerStutter DEF vars, Tick, EnabledUsers, LedgerEntries
  <1>2. ASSUME NEW r \in Requests,
               \/ Arrival(r) \/ CountFailure(r) \/ ClearFailures(r)
               \/ StartSession(r) \/ Fail(r)
        PROVE  UNCHANGED Ledger!ledger
    <2>1. UNCHANGED <<sessions, audit, twoFactor>>
      BY <1>2 DEF Arrival, Begin, CountFailure, ClearFailures, StartSession, Fail
    <2>2. QED
      BY <2>1, LedgerStutter DEF EnabledUsers, LedgerEntries
  <1>3. ASSUME NEW r \in Requests, LogFailure(r) \/ RecordDevice(r)
        PROVE  UNCHANGED Ledger!ledger
    <2>1. UNCHANGED <<sessions, twoFactor>>
      BY <1>3 DEF LogFailure, RecordDevice
    <2>2. LedgerEntries' = LedgerEntries
      BY <1>3, EntryFields
         DEF LogFailure, RecordDevice, FailureAction, LedgerEntries, LedgerActions
    <2>3. QED
      BY <2>1, <2>2, LedgerStutter DEF EnabledUsers
  <1>4. ASSUME NEW r \in Requests, UpsertPending(r) PROVE Ledger!Next
    <2> DEFINE u == req[r].user
    <2>1. u \in Users
      BY <1>4, InFlight DEF UpsertPending, Idle
    <2>2. UNCHANGED <<LiveSessions, LedgerEntries>>
      BY <1>4 DEF UpsertPending, LiveSessions, LedgerEntries
    <2>3. EnabledUsers' = EnabledUsers \ {u}
      BY <1>4, <2>1 DEF UpsertPending, PendingWith, EnabledUsers, TypeInv, TypeOK
    <2>4. Ledger!EnrolAgain(u)
      BY <2>2, <2>3 DEF Ledger!EnrolAgain
    <2>5. QED
      BY <2>1, <2>4 DEF Ledger!Next
  <1>5. ASSUME NEW r \in Requests, ChangePassword(r) PROVE Ledger!Next
    <2> DEFINE u == req[r].user
               password == req[r].password
    <2>1. u \in Users /\ password \in Passwords
      BY <1>5, InFlight DEF ChangePassword, Idle
    <2>2. /\ sessions' = {s \in sessions : s.user # u}
          /\ audit' = audit \cup {Entry("MASTER_PASSWORD_CHANGED", u, password)}
          /\ twoFactor' = twoFactor
      BY <1>5 DEF ChangePassword, SessionsWithout, ResetEntries
    <2>3. LiveSessions' = {p \in LiveSessions : p[1] # u}
      BY <2>2 DEF LiveSessions
    <2>4. LedgerEntries' =
            LedgerEntries \cup {Ledger!Item("MASTER_PASSWORD_CHANGED", u, password)}
      BY <2>2 DEF LedgerEntries, LedgerActions, Entry, Ledger!Item
    <2>5. EnabledUsers' = EnabledUsers
      BY <2>2 DEF EnabledUsers
    <2>6. Ledger!NewPassword(u, password)
      BY <2>3, <2>4, <2>5 DEF Ledger!NewPassword
    <2>7. QED
      BY <2>1, <2>6 DEF Ledger!Next
  <1>6. ASSUME NEW r \in Requests, EndSession(r) PROVE Ledger!Next
    <2> DEFINE u == req[r].user
               id == req[r].sid
               e0 == Entry("LOGIN_SUCCEEDED", u, id)
    <2>1. u \in Users
      BY <1>6, InFlight DEF EndSession, Idle
    <2>2. e0 \in SignIns
      BY <1>6, EntryFields DEF EndSession, Numbering, LogoutsKnown, SignIns
    <2>3. id \in 1 .. MaxSessions
      BY <2>2, EntryFields, AccountsAssumption DEF Numbering, Owned, TypeInv, TypeOK
    <2>4. /\ sessions' = {s \in sessions : s.id # id}
          /\ audit' = audit \cup {Entry("SESSION_ENDED", u, id)}
          /\ twoFactor' = twoFactor
      BY <1>6 DEF EndSession, Revoked
    <2>5. \A s \in sessions : s.id = id => s.user = u
      BY <2>2, EntryFields DEF Numbering, SessionsKnown, Unique, SignIns
    <2>6. LiveSessions' = LiveSessions \ {<<u, id>>}
      BY <2>4, <2>5 DEF LiveSessions
    <2>7. LedgerEntries' = LedgerEntries \cup {Ledger!Item("SESSION_ENDED", u, id)}
      BY <2>4 DEF LedgerEntries, LedgerActions, Entry, Ledger!Item
    <2>8. Ledger!Item("LOGIN_SUCCEEDED", u, id) \in LedgerEntries
      BY <2>2 DEF LedgerEntries, LedgerActions, Entry, Ledger!Item, SignIns
    <2>9. EnabledUsers' = EnabledUsers
      BY <2>4 DEF EnabledUsers
    <2>10. Ledger!SignOut(u, id)
      BY <2>6, <2>7, <2>8, <2>9 DEF Ledger!SignOut
    <2>11. QED
      BY <2>1, <2>3, <2>10 DEF Ledger!Next
  <1>7. ASSUME NEW r \in Requests, CommitLogin(r) PROVE Ledger!Next
    <2> DEFINE u == req[r].user
               id == req[r].sid
               secret == req[r].secret
    <2>1. /\ u \in Users /\ secret \in Secrets /\ req[r].enables \in BOOLEAN
          /\ SigningIn(r)
      BY <1>7, InFlight
         DEF CommitLogin, Idle, SigningIn, TypeInv, SecretKnown, Request
    <2>2. Ledger!Fresh(id) /\ id \in 1 .. MaxSessions
      BY <2>1, LedgerFresh
    <2> DEFINE s0 == [id |-> id, user |-> u, proved |-> req[r].password]
    <2>3. /\ sessions' = sessions \cup {s0}
          /\ audit' = audit \cup LoginEntries(r)
      BY <1>7 DEF CommitLogin
    <2>4. LiveSessions' = LiveSessions \cup {<<u, id>>}
      <3>1. s0.user = u /\ s0.id = id
        OBVIOUS
      <3> HIDE DEF s0, u, id
      <3>2. QED
        BY <2>3, <3>1 DEF LiveSessions
    <2>5. CASE req[r].enables
      <3>1. LedgerEntries' = LedgerEntries \cup
               {Ledger!Item("LOGIN_SUCCEEDED", u, id),
                Ledger!Item("TWO_FACTOR_ENABLED", u, secret)}
        BY <2>3, <2>5 DEF LedgerEntries, LedgerActions, LoginEntries, Entry, Ledger!Item
      <3>2. twoFactor[u].status # "none"
        BY <2>1 DEF AuditInv, ReadyToCommit
      <3>3. Enabled(twoFactor[u]).status = "enabled"
        BY <2>1, <3>2 DEF Enabled, TwoFactor, TypeInv, TypeOK
      <3>4. EnabledUsers' = EnabledUsers \cup {u}
        BY <1>7, <2>1, <2>5, <3>3 DEF CommitLogin, EnabledUsers, TypeInv, TypeOK
      <3>5. Ledger!SignInEnabling(u, id, secret)
        BY <2>2, <2>4, <3>1, <3>4 DEF Ledger!SignInEnabling
      <3>6. QED
        BY <2>1, <2>2, <3>5 DEF Ledger!Next
    <2>6. CASE ~req[r].enables
      <3>1. LedgerEntries' = LedgerEntries \cup {Ledger!Item("LOGIN_SUCCEEDED", u, id)}
        BY <2>3, <2>6 DEF LedgerEntries, LedgerActions, LoginEntries, Entry, Ledger!Item
      <3>2. EnabledUsers' = EnabledUsers
        BY <1>7, <2>6 DEF CommitLogin, EnabledUsers
      <3>3. Ledger!SignIn(u, id)
        BY <2>2, <2>4, <3>1, <3>2 DEF Ledger!SignIn
      <3>4. QED
        BY <2>1, <2>2, <3>3 DEF Ledger!Next
    <2>7. QED
      BY <2>1, <2>5, <2>6
  <1>8. QED
    BY <1>1, <1>2, <1>3, <1>4, <1>5, <1>6, <1>7, NextCases

(***************************************************************************)
(* Accounts implements AccountLedger: with any number of requests, each    *)
(* working from its own stale snapshot and failing anywhere, a change of   *)
(* who is signed in or enabled is one step that also writes its entry, and *)
(* a session number is given out once.                                     *)
(***************************************************************************)
THEOREM AccountsImplementsLedger == Spec => LedgerSpec
  <1>1. TypeInv /\ Numbering /\ AuditInv /\ [Next]_vars => [Ledger!Next]_(Ledger!ledger)
    BY LedgerNext
  <1>2. TypeInv /\ AuditInv /\ [Next]_vars => AuditInv'
    BY AuditNext
  <1>3. QED
    BY <1>1, <1>2, LedgerInit, AuditInit, TypeInvariant, NumberingInvariant, PTL
       DEF Spec, LedgerSpec, Ledger!Spec
=============================================================================
