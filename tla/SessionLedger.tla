--------------------------- MODULE SessionLedger ---------------------------
(***************************************************************************)
(* What the sessions of a tab promise, without fetches, timers, keys or    *)
(* the order of answers: a token is made for a session that is opened, or  *)
(* from a token that had not expired when it was presented and whose       *)
(* session was there when it was looked up.  Tokens are lost at any time,  *)
(* and the tab holds one of those there are, or none.  Browser implements  *)
(* it.                                                                     *)
(***************************************************************************)
EXTENDS Integers

CONSTANTS Users, Sids, None, TTL, Cap

VARIABLES
  held,      \* the token of the tab, or None
  issued,    \* the tokens there are, in the tab or on the way
  accepted,  \* those presented that had not expired
  found,     \* of these, those whose session was found to be there
  sessions,  \* the sessions that are there, with their user and start
  used,      \* the session numbers given out, in use or not
  now        \* seconds

ledger == <<held, issued, accepted, found, sessions, used, now>>

Init ==
  /\ held = None /\ issued = {} /\ accepted = {} /\ found = {}
  /\ sessions = {} /\ used = {} /\ now = 0

(* The tab and the server only know tokens that there are.                  *)
Known == accepted' \cup found' \subseteq issued' /\ held' \in issued' \cup {None}

(* A token lives for the idle window and never beyond its session's cap.    *)
Ends(started) == IF now + TTL <= started + Cap THEN now + TTL ELSE started + Cap

Made(sid, user, started) ==
  [sid |-> sid, user |-> user, started |-> started, exp |-> Ends(started)]

Opens(sid, user) ==
  /\ sid \notin used /\ used' = used \cup {sid}
  /\ \E s \in 0..now : sessions' = sessions \cup {[sid |-> sid, user |-> user, started |-> s]}
  /\ issued' = issued \cup {Made(sid, user, now)}
  /\ UNCHANGED <<held, accepted, found, now>>

Accepts(t) ==
  /\ now < t.exp
  /\ accepted' = accepted \cup {t}
  /\ UNCHANGED <<held, issued, found, sessions, used, now>>

Finds(t) ==
  /\ \E x \in sessions : x.sid = t.sid /\ now < x.started + Cap
  /\ found' = found \cup {t} /\ accepted' \subseteq accepted
  /\ UNCHANGED <<held, issued, sessions, used, now>>

Renews(t) ==
  LET new == Made(t.sid, t.user, t.started) IN
  /\ now < t.started + Cap
  /\ new \in issued' /\ issued' \subseteq issued \cup {new} /\ found' \subseteq found
  /\ Known
  /\ UNCHANGED <<held, accepted, sessions, used, now>>

(* The tab takes another token or drops its own; tokens, and numbers whose  *)
(* session is not opened after all, are lost.                               *)
Moves ==
  /\ UNCHANGED <<sessions, now>>
  /\ issued' \subseteq issued /\ accepted' \subseteq accepted /\ found' \subseteq found
  /\ Known
  /\ used \subseteq used' /\ used' \subseteq Sids

(* A logout, or a reset of the master password elsewhere.                   *)
Closes ==
  /\ sessions' \subseteq sessions
  /\ issued' \subseteq issued
  /\ Known
  /\ UNCHANGED <<held, accepted, found, used, now>>

Ages == now' = now + 1 /\ UNCHANGED <<held, issued, accepted, found, sessions, used>>

Next ==
  \/ Ages \/ Moves \/ Closes
  \/ \E sid \in Sids, user \in Users : Opens(sid, user)
  \/ \E t \in issued : Accepts(t)
  \/ \E t \in accepted : Finds(t)
  \/ \E t \in found : Renews(t)

Spec == Init /\ [][Next]_ledger
=============================================================================
