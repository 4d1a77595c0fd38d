------------------------------- MODULE Browser -------------------------------
(***************************************************************************)
(* One browser tab of the single-page client against the sliding sessions  *)
(* of the server: api-client.js, token-store.js, session.js,               *)
(* auth-service.js and vault-key-store.js on one side, token-service.js,   *)
(* the authenticate middleware and the sessions port on the other.         *)
(*                                                                         *)
(* Every fetch() of the tab is a call with a life of its own: it carries   *)
(* the token the tab held when it was sent, and its answer arrives when it *)
(* arrives, after whatever the user, the timer or another call did.        *)
(***************************************************************************)
EXTENDS Integers, FiniteSets

CONSTANTS
  Users,        \* who may log in in this tab
  Calls,        \* fetches of the tab that may be in flight at once
  None,         \* null
  Over,         \* 401 "Token expired", "Session expired" or "Session ended"
  TTL,          \* idle window of a token: 600 seconds
  Cap,          \* absolute life of a session: 12 hours
  MaxSessions,  \* bound on the sessions ever started
  MaxClock      \* bound on the clock

Sids == 1..MaxSessions
Row == [sid : Sids, user : Users, started : Nat]
Token == [sid : Sids, user : Users, started : Nat, exp : Nat]

ASSUME BrowserAssumption ==
  /\ TTL \in Nat \ {0} /\ Cap \in Nat \ {0}
  /\ MaxSessions \in Nat /\ MaxClock \in Nat
  /\ None \notin Nat /\ None \notin Users
  /\ None \notin Token /\ Over \notin Token /\ Over # None

VARIABLES
  token,        \* token-store: the bearer token, or None
  expiresAt,    \* token-store: the deadline the countdown shows, or None
  timer,        \* session.js: when the armed auto-lock is due, or None
  key,          \* vault-key-store: whose vault key is held, or None
  call,         \* what each fetch is doing
  rows,         \* SESSIONS
  nextSid,      \* AUTO_INCREMENT of SESSIONS
  now           \* seconds

client == <<token, expiresAt, timer, key>>
server == <<rows, nextSid>>
vars == <<token, expiresAt, timer, key, call, rows, nextSid, now>>

Steps == {"idle", "post", "mint", "granted", "sent", "verified", "found", "revoking",
          "answered", "derive"}

Call == [kind : {"page", "login", "logout"}, step : Steps, user : Users \cup {None},
         token : Token \cup {None}, answer : Token \cup Row \cup {Over, None}]

Idle == [kind |-> "page", step |-> "idle", user |-> None, token |-> None, answer |-> None]

Init ==
  /\ token = None /\ expiresAt = None /\ timer = None /\ key = None
  /\ call = [c \in Calls |-> Idle]
  /\ rows = {} /\ nextSid = 0
  /\ now = 0

-----------------------------------------------------------------------------
(***************************************************************************)
(* What the client does to its four pieces of module state.                *)
(***************************************************************************)
EndSession == token' = None /\ expiresAt' = None /\ timer' = None /\ key' = None

(* captureRefreshedSession stores token and expiry and re-arms the timer;   *)
(* scheduleAutoLock ends the session at once if the expiry has passed.      *)
ArmedAfresh(t) == now + TTL         \* faulty variant: a full window, whatever the expiry
ArmedNever(t) == None               \* faulty variant: cancelled, not armed again
Armed(t) == t.exp

Capture(t) ==
  IF t.exp <= now THEN EndSession
  ELSE token' = t /\ expiresAt' = t.exp /\ timer' = Armed(t) /\ UNCHANGED key

(***************************************************************************)
(* mint: a token of a session started at s lives for TTL, and never beyond *)
(* the session's cap.                                                      *)
(***************************************************************************)
Least(a, b) == IF a <= b THEN a ELSE b

MintUnclamped(sid, user, s) ==      \* faulty variant: the last renewal overshoots the cap
  [sid |-> sid, user |-> user, started |-> s, exp |-> now + TTL]

Mint(sid, user, s) ==
  [sid |-> sid, user |-> user, started |-> s, exp |-> now + Least(TTL, Cap - (now - s))]

RenewedForNobody(t) ==              \* faulty variant: the user is not carried over
  Mint(t.sid, None, t.started)

Renewed(t) == Mint(t.sid, t.user, t.started)

(***************************************************************************)
(* verify accepts a token until it expires or its session reaches the cap; *)
(* isRevoked accepts a session while its row exists and has not expired.   *)
(***************************************************************************)
Valid(t) == now < t.exp /\ now - t.started < Cap

Present(sid) == \E x \in rows : x.sid = sid    \* faulty variant: without expires_at

LiveAnyway(sid) == TRUE                        \* faulty variant: isRevoked is not asked

Live(sid) == \E x \in rows : x.sid = sid /\ now < x.started + Cap

Becomes(c, next) == call' = [call EXCEPT ![c] = next]

Goto(c, step) == Becomes(c, [call[c] EXCEPT !.step = step])

Answer(c, answer, step) == Becomes(c, [call[c] EXCEPT !.answer = answer, !.step = step])

Respond(c, answer) ==
  Becomes(c, [call[c] EXCEPT !.answer = answer, !.step = "answered", !.token = None])

-----------------------------------------------------------------------------
(***************************************************************************)
(* What the user does.  The login screens are reachable with or without a  *)
(* live session (they are public routes), and leaving one does not cancel  *)
(* the login it submitted; the other screens are behind RequireAuth.       *)
(***************************************************************************)
Send(c, kind, user, t, step) ==
  /\ call[c].step = "idle"
  /\ Becomes(c, [kind |-> kind, step |-> step, user |-> user, token |-> t, answer |-> None])

Login(c) ==
  /\ \E u \in Users : Send(c, "login", u, None, "post")
  /\ UNCHANGED <<client, server, now>>

Request(c) ==
  /\ token # None
  /\ Send(c, "page", None, token, "sent")
  /\ UNCHANGED <<client, server, now>>

Logout(c) ==
  /\ token # None
  /\ Send(c, "logout", None, token, "sent")
  /\ UNCHANGED <<client, server, now>>

(* A refresh loses the module state and everything in flight.              *)
Reload ==
  /\ EndSession
  /\ call' = [c \in Calls |-> Idle]
  /\ UNCHANGED <<server, now>>

-----------------------------------------------------------------------------
(***************************************************************************)
(* What the server does with a login: the row first, whose expiry counts   *)
(* from its INSERT, then the token, then the commit that shows the row.    *)
(* The bounds keep the end of every session within the model's clock, and  *)
(* leave a row's token a second to be made in.                             *)
(***************************************************************************)
StartRow(c) ==
  /\ call[c].step = "post"
  /\ nextSid < MaxSessions /\ now + Cap < MaxClock
  /\ nextSid' = nextSid + 1
  /\ Answer(c, [sid |-> nextSid + 1, user |-> call[c].user, started |-> now], "mint")
  /\ UNCHANGED <<client, rows, now>>

Grant(c) ==
  LET row == call[c].answer IN
  /\ call[c].step = "mint"
  /\ now + Cap <= MaxClock
  /\ rows' = rows \cup {row}
  /\ Answer(c, Mint(row.sid, row.user, now), "granted")
  /\ UNCHANGED <<client, nextSid, now>>

(***************************************************************************)
(* And with every other request: verify the token, look the session up,    *)
(* renew the token when the lookup has been answered, run the route.  Of   *)
(* the routes only logout's matters here; its transaction may fail after   *)
(* the headers were set.                                                   *)
(***************************************************************************)
Verify(c) ==
  /\ call[c].step = "sent"
  /\ IF Valid(call[c].token) THEN Goto(c, "verified") ELSE Respond(c, Over)
  /\ UNCHANGED <<client, server, now>>

LookUp(c) ==
  /\ call[c].step = "verified"
  /\ Live(call[c].token.sid)
  /\ Goto(c, "found")
  /\ UNCHANGED <<client, server, now>>

(* When the cap has passed meanwhile, mint throws, the request is answered *)
(* by an error without session headers, and what is left of it is Lost.    *)
Admit(c) ==
  LET t == call[c].token IN
  /\ call[c].step = "found"
  /\ now - t.started < Cap
  /\ IF call[c].kind = "logout" THEN Answer(c, Renewed(t), "revoking")
     ELSE Respond(c, Renewed(t))
  /\ UNCHANGED <<client, server, now>>

Refuse(c) ==
  /\ call[c].step = "verified"
  /\ ~Live(call[c].token.sid)
  /\ Respond(c, Over)
  /\ UNCHANGED <<client, server, now>>

Revoke(c) ==
  /\ call[c].step = "revoking"
  /\ rows' \in {rows, {x \in rows : x.sid # call[c].token.sid}}
  /\ Respond(c, call[c].answer)
  /\ UNCHANGED <<client, nextSid, now>>

(* A password reset in another browser deletes every session of a user.    *)
ResetElsewhere(u) ==
  /\ \E x \in rows : x.user = u
  /\ rows' = {x \in rows : x.user # u}
  /\ UNCHANGED <<client, call, nextSid, now>>

-----------------------------------------------------------------------------
(***************************************************************************)
(* What the client does with an answer.  A login stores its token and, as  *)
(* the same call, asks GET /session, whose answer carries the expiry that  *)
(* arms the timer.                                                         *)
(***************************************************************************)
BeginSession(c) ==
  LET t == call[c].answer IN
  /\ call[c].step = "granted"
  /\ token' = t
  /\ Becomes(c, [call[c] EXCEPT !.step = "sent", !.token = t, !.answer = None])
  /\ UNCHANGED <<expiresAt, timer, key, server, now>>

(* What follows the await: a login goes on to derive the key, whatever     *)
(* became of GET /session.                                                 *)
Resume(c) ==
  Becomes(c, IF call[c].kind = "login"
             THEN [Idle EXCEPT !.kind = "login", !.step = "derive", !.user = call[c].user]
             ELSE Idle)

Deliver(c) ==
  /\ call[c].step = "answered"
  /\ IF call[c].kind = "logout" \/ call[c].answer = Over THEN EndSession
     ELSE Capture(call[c].answer)
  /\ Resume(c)
  /\ UNCHANGED <<server, now>>

(* fetch rejects or the server answers an error without session headers:   *)
(* a login not yet granted is given up, logout clears all the same.        *)
Lost(c) ==
  /\ \/ /\ call[c].step \in {"post", "mint", "granted"}
        /\ UNCHANGED client
        /\ Becomes(c, Idle)
     \/ /\ call[c].step \in {"sent", "verified", "found", "answered"}
        /\ IF call[c].kind = "logout" THEN EndSession ELSE UNCHANGED client
        /\ Resume(c)
  /\ UNCHANGED <<server, now>>

(* deriveVaultKey is asynchronous, and its failure is swallowed.           *)
DeriveKey(c) ==
  /\ call[c].step = "derive"
  /\ key' \in {key, call[c].user}
  /\ Becomes(c, Idle)
  /\ UNCHANGED <<token, expiresAt, timer, server, now>>

AutoLock ==
  /\ timer # None
  /\ timer <= now
  /\ EndSession
  /\ UNCHANGED <<call, server, now>>

Tick ==
  /\ now < MaxClock
  /\ now' = now + 1
  /\ UNCHANGED <<client, call, server>>

-----------------------------------------------------------------------------
Serve(c) ==
  \/ StartRow(c) \/ Grant(c)
  \/ Verify(c) \/ LookUp(c) \/ Refuse(c) \/ Admit(c) \/ Revoke(c)

Settle(c) == BeginSession(c) \/ Deliver(c) \/ Lost(c) \/ DeriveKey(c)

Next ==
  \/ \E c \in Calls : Login(c) \/ Request(c) \/ Logout(c) \/ Serve(c) \/ Settle(c)
  \/ \E u \in Users : ResetElsewhere(u)
  \/ Reload \/ AutoLock \/ Tick

Spec == Init /\ [][Next]_vars

(***************************************************************************)
(* Time passes and the event loop runs a due timer.  Nothing obliges the   *)
(* user, who may leave the tab alone, nor the network, which may answer    *)
(* nothing.                                                                *)
(***************************************************************************)
TimedSpec == Spec /\ WF_vars(Tick) /\ WF_vars(AutoLock)

-----------------------------------------------------------------------------
(***************************************************************************)
(* Types of token-store, vault-key-store, the fetches and SESSIONS.        *)
(***************************************************************************)
TypeOK ==
  /\ token \in Token \cup {None}
  /\ expiresAt \in Nat \cup {None} /\ timer \in Nat \cup {None}
  /\ key \in Users \cup {None}
  /\ call \in [Calls -> Call]
  /\ rows \subseteq Row
  /\ nextSid \in 0..MaxSessions
  /\ now \in 0..MaxClock

(***************************************************************************)
(* The lock that will fire is the one AutoLockCountdown shows, and no      *)
(* countdown runs in a tab without a token: the answers of any number of   *)
(* calls, in any order, never leave a timer of one and an expiry of        *)
(* another, although every one of them re-arms both.                       *)
(***************************************************************************)
CountdownIsTheLock == timer = expiresAt /\ (expiresAt # None => token # None)

(***************************************************************************)
(* authenticate.js: a session that the lookup finds is one that renew can  *)
(* renew at that moment, whatever time has gone by since verify, because   *)
(* the row expires no later than the token's cap.  What renew can still    *)
(* throw about is only the time its answer takes to come back.             *)
(***************************************************************************)
FoundIsRenewable ==
  \A c \in Calls : call[c].step = "verified" /\ Live(call[c].token.sid) =>
    now - call[c].token.started < Cap

(***************************************************************************)
(* However often and however late a token is renewed, it names the user of *)
(* its session, ends with the session's cap and, as business rule 5 asks,  *)
(* within one idle window of now; that holds for the token of the tab and  *)
(* for all those in flight, while logins, logouts and resets come and go.  *)
(***************************************************************************)
InFlight ==
  {call[c].token : c \in Calls}
    \cup {call[c].answer : c \in {d \in Calls : call[d].step # "mint"}}

TokensKeepToTheirSessions ==
  \A t \in ({token} \cup InFlight) \ {None, Over} :
    /\ t.exp <= t.started + Cap
    /\ t.exp <= now + TTL
    /\ \A x \in rows : x.sid = t.sid => x.user = t.user /\ x.started <= t.started

(***************************************************************************)
(* The sliding window of token-service.js behind the middleware: no token  *)
(* leaves its session, its cap and its window, and the lookup lets no      *)
(* token through that could no longer be renewed.                          *)
(***************************************************************************)
SlidingWindow == TokensKeepToTheirSessions /\ FoundIsRenewable

(***************************************************************************)
(* The sessions of a tab are those of SessionLedger: no order of answers,  *)
(* losses, logouts and resets gives the tab a token that was not made for  *)
(* it, or renews one that had expired when it was presented, or whose      *)
(* session was over when it was looked up.                                 *)
(***************************************************************************)
Issued == ({token} \cup InFlight) \ {None, Over}

Presented(step) == {call[c].token : c \in {d \in Calls : call[d].step = step}}

Minting(c) == call[c].step = "mint"

(* The numbers given out, but for those whose row is not committed yet.     *)
Used == {sid \in 1..nextSid : \A c \in Calls : Minting(c) => call[c].answer.sid # sid}

Ledger == INSTANCE SessionLedger WITH
  held <- token, issued <- Issued, accepted <- Presented("verified"),
  found <- Presented("found"), sessions <- rows, used <- Used

LedgerSpec == Ledger!Spec

(***************************************************************************)
(* isRevoked: a session whose row is gone has ended for good.  No lookup   *)
(* finds it any more, and the only requests that are still answered with a *)
(* new token of it are those whose lookup found it before.                 *)
(***************************************************************************)
Ended(sid) ==
  /\ sid <= nextSid
  /\ \A x \in rows : x.sid # sid
  /\ \A c \in Calls : Minting(c) => call[c].answer.sid # sid

RevokedForGood ==
  [][/\ \A sid \in Sids : Ended(sid) => Ended(sid)'
     /\ \A t \in Presented("found")' \ Presented("found") : ~Ended(t.sid)
     /\ \A t \in Issued' \ Issued :
          Ended(t.sid) => \E f \in Presented("found") : f.sid = t.sid]_vars

(***************************************************************************)
(* Once a countdown runs, the tab's session ends by itself: at the latest  *)
(* at the cap, however often the answers of the user's requests put the    *)
(* lock off.                                                               *)
(***************************************************************************)
ArmedSessionEnds == (expiresAt # None) ~> (token = None)

-----------------------------------------------------------------------------
(***************************************************************************)
(* What the repository says and the code does not keep.                    *)
(*                                                                         *)
(* The end of a session locks the vault: session.js says that endSession   *)
(* clears the key so that a 401 and the timer "actually lock the vault".   *)
(***************************************************************************)
VaultLocks == key # None => token # None
==============================================================================
