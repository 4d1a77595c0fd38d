---------------------------- MODULE AccountLedger ----------------------------
(***************************************************************************)
(* What sign-in, enrolment, reset and logout promise, without requests,    *)
(* connections or failures: who holds which session, whose second factor   *)
(* is enabled, and the log.  Every change is one step that also writes its *)
(* entry (business rule 7 and the transactions of the routes), and a       *)
(* session number is given out once.  Accounts implements it.              *)
(***************************************************************************)
CONSTANTS Users, Passwords, Secrets, SessionIds

VARIABLES
  live,      \* the sessions that are honoured, as pairs <<user, id>>
  enabled,   \* the accounts whose second factor is enabled
  log        \* the entries of the changes

ledger == <<live, enabled, log>>

Item(action, u, about) == [action |-> action, user |-> u, about |-> about]

Fresh(id) == \A i \in log : i.action = "LOGIN_SUCCEEDED" => i.about # id

(***************************************************************************)
(* A session opens, together with the second factor when it was pending.   *)
(***************************************************************************)
SignIn(u, id) ==
  /\ Fresh(id)
  /\ live' = live \cup {<<u, id>>}
  /\ log' = log \cup {Item("LOGIN_SUCCEEDED", u, id)}
  /\ UNCHANGED enabled

SignInEnabling(u, id, secret) ==
  /\ Fresh(id)
  /\ live' = live \cup {<<u, id>>}
  /\ log' = log \cup {Item("LOGIN_SUCCEEDED", u, id),
                      Item("TWO_FACTOR_ENABLED", u, secret)}
  /\ enabled' = enabled \cup {u}

(***************************************************************************)
(* A session closes, if it is still open; a second logout is only logged.  *)
(***************************************************************************)
SignOut(u, id) ==
  /\ Item("LOGIN_SUCCEEDED", u, id) \in log
  /\ live' = live \ {<<u, id>>}
  /\ log' = log \cup {Item("SESSION_ENDED", u, id)}
  /\ UNCHANGED enabled

(***************************************************************************)
(* A new master password closes every session of its account.              *)
(***************************************************************************)
NewPassword(u, password) ==
  /\ live' = {p \in live : p[1] # u}
  /\ log' = log \cup {Item("MASTER_PASSWORD_CHANGED", u, password)}
  /\ UNCHANGED enabled

(***************************************************************************)
(* A new enrolment puts the second factor back to pending.                 *)
(***************************************************************************)
EnrolAgain(u) ==
  /\ enabled' = enabled \ {u}
  /\ UNCHANGED <<live, log>>

Init ==
  /\ live = {}
  /\ enabled = {}
  /\ log = {}

Next ==
  \E u \in Users :
    \/ \E id \in SessionIds :
         \/ SignIn(u, id)
         \/ SignOut(u, id)
         \/ \E secret \in Secrets : SignInEnabling(u, id, secret)
    \/ \E password \in Passwords : NewPassword(u, password)
    \/ EnrolAgain(u)

Spec == Init /\ [][Next]_ledger
==============================================================================
