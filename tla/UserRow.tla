------------------------------- MODULE UserRow -------------------------------
(***************************************************************************)
(* The USERS and TWO_FACTOR_CONFIGS rows of one account, and what the      *)
(* statements of app/src/ports/users.js do to them, as operators on        *)
(* records.  Accounts takes every row it writes from here.                 *)
(*                                                                         *)
(* A password stands for itself and for its bcrypt hash (a hash matches    *)
(* exactly the password it was made from); a secret stands for itself, its *)
(* ciphertext and every TOTP code generated from it.                       *)
(***************************************************************************)
EXTENDS Naturals

CONSTANTS
  Passwords,         \* master passwords
  Secrets,           \* TOTP secrets
  NoSecret,          \* the secret of an account that has no two-factor row
  LockoutThreshold,  \* LOCKOUT_THRESHOLD, 5 in the code
  LockoutMinutes     \* LOCKOUT_MINUTES, 15 in the code

ASSUME RowAssumption ==
  /\ NoSecret \notin Secrets
  /\ LockoutThreshold \in Nat \ {0, 1}
  /\ LockoutMinutes \in Nat \ {0}

(***************************************************************************)
(* lockoutUntil = 0 is the column's NULL.                                  *)
(***************************************************************************)
Row == [hash : Passwords, failed : Nat, locked : BOOLEAN, lockoutUntil : Nat]

(***************************************************************************)
(* The LEFT JOINed configuration.  A pending row carries a secret, so only *)
(* the absence of a row goes with NoSecret.                                *)
(***************************************************************************)
TwoFactor == [status : {"none"}, secret : {NoSecret}]
               \cup [status : {"pending", "enabled"}, secret : Secrets]

NoTwoFactor == [status |-> "none", secret |-> NoSecret]

(***************************************************************************)
(* createUser: the two columns the INSERT names, the others at their       *)
(* schema defaults.                                                        *)
(***************************************************************************)
NewRow(password) ==
  [hash |-> password, failed |-> 0, locked |-> FALSE, lockoutUntil |-> 0]

(***************************************************************************)
(* recordFailedAttempt, one UPDATE.  MySQL evaluates the assignments of a  *)
(* single-table UPDATE from left to right, and a column already assigned   *)
(* has its new value in the expressions that follow, so both IFs read the  *)
(* incremented counter and add one to it again.                            *)
(***************************************************************************)
RecordFailed(row, now) ==
  LET count == row.failed + 1
      trips == count + 1 >= LockoutThreshold
  IN  [row EXCEPT !.failed = count,
                  !.locked = IF trips THEN TRUE ELSE @,
                  !.lockoutUntil = IF trips THEN now + LockoutMinutes ELSE @]

(***************************************************************************)
(* resetFailedAttempts.                                                    *)
(***************************************************************************)
ResetCounterOnly(row) ==         \* faulty variant: the lock flag is kept
  [row EXCEPT !.failed = 0]

ResetFailed(row) ==
  [row EXCEPT !.failed = 0, !.locked = FALSE, !.lockoutUntil = 0]

(***************************************************************************)
(* updateMasterPasswordHash writes one column.                             *)
(***************************************************************************)
SetHash(row, password) == [row EXCEPT !.hash = password]

(***************************************************************************)
(* upsertPendingTwoFactorConfig replaces whatever row is there, whatever   *)
(* its status; enableTwoFactorConfig updates the row that is there, if     *)
(* any, whatever its secret.                                               *)
(***************************************************************************)
PendingWith(secret) == [status |-> "pending", secret |-> secret]

Enabled(config) ==
  IF config.status = "none" THEN config ELSE [config EXCEPT !.status = "enabled"]

(***************************************************************************)
(* services/session-issuer.js verifyMasterPassword and verifyTwoFactorCode *)
(* over the rows the handler read: the AuthenticationError code they throw *)
(* or "ok".  `code' is the secret the caller generated the code from.      *)
(***************************************************************************)
PasswordWithoutLock(row, password) ==   \* faulty variant: the lock is not read
  IF password = row.hash THEN "ok" ELSE "INVALID_CREDENTIALS"

VerifyMasterPassword(row, password) ==
  CASE row.locked                             -> "ACCOUNT_LOCKED"
    [] ~row.locked /\ password # row.hash     -> "INVALID_CREDENTIALS"
    [] ~row.locked /\ password = row.hash     -> "ok"

VerifyTwoFactorCode(config, code) ==
  CASE config.status # "enabled"                          -> "TWO_FACTOR_NOT_ENABLED"
    [] config.status = "enabled" /\ code # config.secret  -> "INVALID_TWO_FACTOR"
    [] config.status = "enabled" /\ code = config.secret  -> "ok"

(***************************************************************************)
(* Login's verdict: the second factor is looked at only after the first.   *)
(***************************************************************************)
VerifyBoth(row, config, password, code) ==
  LET first == VerifyMasterPassword(row, password)
  IN  IF first = "ok" THEN VerifyTwoFactorCode(config, code) ELSE first

(***************************************************************************)
(* The failures that the routes count towards the lock.                    *)
(***************************************************************************)
Counted(err) == err \in {"INVALID_CREDENTIALS", "INVALID_TWO_FACTOR"}
==============================================================================
