---------------------------- MODULE BrowserProofs ----------------------------
(***************************************************************************)
(* Proofs about Browser: types, the countdown, that a token keeps to its   *)
(* session, that a session that has ended stays so, and that Browser       *)
(* implements SessionLedger.                                               *)
(***************************************************************************)
EXTENDS Browser, TLAPS

(***************************************************************************)
(* What a fetch carries at each of its steps.                              *)
(***************************************************************************)
Shape(k) ==
  /\ k \in Call
  /\ k.kind = "login" => k.user \in Users
  /\ k.step \in {"post", "mint", "granted", "derive"} => k.kind = "login" /\ k.token = None
  /\ k.step \in {"idle", "post", "derive"} => k.token = None /\ k.answer = None
  /\ k.step = "mint" => k.answer \in Row
  /\ k.step = "granted" => k.answer \in Token
  /\ k.step \in {"sent", "verified", "found"} => k.token \in Token /\ k.answer = None
  /\ k.step = "revoking" => k.token \in Token /\ k.answer \in Token
  /\ k.step = "answered" => k.token = None /\ k.answer \in Token \cup {Over}

Carried(k) == {k.token} \cup (IF k.step = "mint" THEN {} ELSE {k.answer})

(***************************************************************************)
(* A token of a session that has, or had, its own row; a row that is not   *)
(* committed yet has a number no token and no other row has.               *)
(***************************************************************************)
TokenOK(t) ==
  /\ t.exp <= t.started + Cap
  /\ t.exp <= now + TTL
  /\ t.sid <= nextSid
  /\ \A x \in rows : x.sid = t.sid => x.user = t.user /\ x.started <= t.started
  /\ \A c \in Calls : Minting(c) => call[c].answer.sid # t.sid

MintOK(c) ==
  /\ call[c].answer.sid <= nextSid
  /\ call[c].answer.started <= now
  /\ call[c].answer.user = call[c].user
  /\ \A x \in rows : x.sid # call[c].answer.sid
  /\ \A d \in Calls \ {c} : Minting(d) => call[d].answer.sid # call[c].answer.sid

CallsInv ==
  \A c \in Calls :
    /\ Shape(call[c])
    /\ \A t \in Carried(call[c]) \ {None, Over} : TokenOK(t)
    /\ Minting(c) => MintOK(c)

RowsInv == \A x \in rows : x.sid <= nextSid

TabInv == token # None => TokenOK(token)

IInv == TypeOK /\ CountdownIsTheLock /\ CallsInv /\ RowsInv /\ TabInv

-----------------------------------------------------------------------------
(***************************************************************************)
(* The parts of TypeOK, in both states.                                    *)
(***************************************************************************)
ClientOK ==
  /\ token \in Token \cup {None}
  /\ expiresAt \in Nat \cup {None} /\ timer \in Nat \cup {None}
  /\ key \in Users \cup {None}
  /\ CountdownIsTheLock

ServerOK ==
  /\ rows \subseteq Row
  /\ nextSid \in 0..MaxSessions
  /\ now \in 0..MaxClock

LEMMA TypeParts ==
  /\ TypeOK /\ CountdownIsTheLock <=> ClientOK /\ ServerOK /\ call \in [Calls -> Call]
  /\ (TypeOK /\ CountdownIsTheLock)' <=> (ClientOK /\ ServerOK)' /\ call' \in [Calls -> Call]
  BY DEF TypeOK, ClientOK, ServerOK

(***************************************************************************)
(* A token just minted is well formed and within the cap and the window.   *)
(***************************************************************************)
LEMMA MintType ==
  ASSUME NEW sid \in Sids, NEW user \in Users, NEW s \in Nat, now \in Nat, now - s < Cap
  PROVE  LET t == Mint(sid, user, s)
         IN  /\ t \in Token /\ t.sid = sid /\ t.user = user /\ t.started = s
             /\ t.exp <= s + Cap
             /\ t.exp <= now + TTL
  <1> DEFINE e == now + Least(TTL, Cap - (now - s))
  <1>1. e \in Nat /\ e <= s + Cap /\ e <= now + TTL
    BY BrowserAssumption DEF Least
  <1> HIDE DEF e
  <1>2. Mint(sid, user, s) = [sid |-> sid, user |-> user, started |-> s, exp |-> e]
    BY DEF Mint, e
  <1>3. QED
    BY <1>1, <1>2 DEF Token

(***************************************************************************)
(* What EndSession and Capture leave in the tab.                           *)
(***************************************************************************)
LEMMA Cleared ==
  ASSUME EndSession
  PROVE  ClientOK' /\ token' = None
  BY DEF EndSession, ClientOK, CountdownIsTheLock

LEMMA Captured ==
  ASSUME ClientOK, NEW t \in Token, Capture(t)
  PROVE  ClientOK' /\ token' \in {t, None}
  <1>1. t.exp \in Nat /\ t # None
    BY BrowserAssumption DEF Token
  <1>2. CASE t.exp <= now
    BY <1>2, Cleared DEF Capture
  <1>3. CASE ~(t.exp <= now)
    BY <1>1, <1>3 DEF Capture, Armed, ClientOK, CountdownIsTheLock
  <1>4. QED
    BY <1>2, <1>3

(***************************************************************************)
(* A good token stays good while time passes, numbers are given out and    *)
(* rows are deleted, as long as no new row is being made.                  *)
(***************************************************************************)
LEMMA TokenKept ==
  ASSUME ServerOK, ServerOK', NEW t \in Token, TokenOK(t),
         now <= now', nextSid <= nextSid', rows' \subseteq rows,
         \A d \in Calls : Minting(d)' => Minting(d) /\ call'[d] = call[d]
  PROVE  TokenOK(t)'
  <1>1. t.exp \in Int /\ t.started \in Int /\ t.sid \in Int
    BY DEF Token, Sids
  <1>2. now \in Int /\ now' \in Int /\ nextSid \in Int /\ nextSid' \in Int /\ TTL \in Int
    BY BrowserAssumption DEF ServerOK
  <1>3. t.exp <= now' + TTL /\ t.sid <= nextSid' /\ t.exp <= t.started + Cap
    BY <1>1, <1>2 DEF TokenOK
  <1>4. \A x \in rows' : x.sid = t.sid => x.user = t.user /\ x.started <= t.started
    BY DEF TokenOK
  <1>5. \A d \in Calls : Minting(d)' => call'[d].answer.sid # t.sid
    BY DEF TokenOK
  <1>6. QED
    BY <1>3, <1>4, <1>5 DEF TokenOK

LEMMA MintKept ==
  ASSUME ServerOK, ServerOK', NEW c \in Calls, Minting(c), MintOK(c), call[c] \in Call,
         call[c].answer \in Row,
         now <= now', nextSid <= nextSid', rows' \subseteq rows,
         \A d \in Calls : Minting(d)' => Minting(d) /\ call'[d] = call[d],
         call'[c] = call[c]
  PROVE  MintOK(c)'
  <1>1. /\ call[c].answer.sid \in Int /\ call[c].answer.started \in Int
        /\ now \in Int /\ now' \in Int /\ nextSid \in Int /\ nextSid' \in Int
    BY BrowserAssumption DEF ServerOK, Row, Sids
  <1>2. call'[c].answer.sid <= nextSid' /\ call'[c].answer.started <= now'
    BY <1>1 DEF MintOK
  <1>3. call'[c].answer.user = call'[c].user /\ \A x \in rows' : x.sid # call'[c].answer.sid
    BY DEF MintOK
  <1>4. \A d \in Calls \ {c} : Minting(d)' => call'[d].answer.sid # call'[c].answer.sid
    BY DEF MintOK
  <1>5. QED
    BY <1>2, <1>3, <1>4 DEF MintOK

(***************************************************************************)
(* What a fetch carries are tokens.                                        *)
(***************************************************************************)
LEMMA CarriedTokens ==
  ASSUME NEW k, Shape(k), NEW t \in Carried(k) \ {None, Over}
  PROVE  t \in Token
  <1>1. k.token \in Token \cup {None}
    BY DEF Shape, Call
  <1>2. k.step # "mint" => k.answer \in Token \cup {Over, None}
    BY DEF Shape, Call, Steps
  <1>3. QED
    BY <1>1, <1>2 DEF Carried

(***************************************************************************)
(* A step that starts no new row keeps the invariant if each fetch either  *)
(* stays as it is or carries nothing but good tokens.                      *)
(***************************************************************************)
Fresh(k) ==
  /\ Shape(k)
  /\ k.step # "mint"
  /\ \A t \in Carried(k) \ {None, Over} : TokenOK(t)

LEMMA Advance ==
  ASSUME ServerOK, ServerOK', CallsInv, RowsInv,
         now <= now', nextSid <= nextSid', rows' \subseteq rows,
         \A d \in Calls : call'[d] = call[d] \/ Fresh(call'[d])
  PROVE  /\ CallsInv' /\ RowsInv'
         /\ \A t \in Token : TokenOK(t) => TokenOK(t)'
  <1>1. \A d \in Calls : Minting(d)' => Minting(d) /\ call'[d] = call[d]
    BY DEF Fresh, Minting
  <1>2. \A t \in Token : TokenOK(t) => TokenOK(t)'
    BY <1>1, TokenKept
  <1>3. ASSUME NEW d \in Calls
        PROVE  Shape(call'[d])
    BY DEF Fresh, CallsInv
  <1>4. ASSUME NEW d \in Calls, NEW t \in Carried(call'[d]) \ {None, Over}
        PROVE  TokenOK(t)'
    <2>1. t \in Token
      BY <1>3, <1>4, CarriedTokens
    <2>2. TokenOK(t)
      BY <1>4 DEF Fresh, CallsInv
    <2>3. QED
      BY <1>2, <2>1, <2>2
  <1>5. ASSUME NEW d \in Calls, Minting(d)'
        PROVE  MintOK(d)'
    <2>1. Minting(d) /\ call'[d] = call[d]
      BY <1>1, <1>5
    <2>2. MintOK(d) /\ call[d] \in Call /\ call[d].answer \in Row
      BY <2>1 DEF CallsInv, Shape, Minting
    <2>3. QED
      BY <1>1, <2>1, <2>2, MintKept
  <1>6. CallsInv'
    BY <1>3, <1>4, <1>5 DEF CallsInv
  <1>7. RowsInv'
    BY BrowserAssumption DEF RowsInv, ServerOK, Row, Sids
  <1>8. QED
    BY <1>2, <1>6, <1>7

(***************************************************************************)
(* The whole invariant after such a step, when the tab's token is one that *)
(* was good before it.                                                     *)
(***************************************************************************)
LEMMA Preserved ==
  ASSUME IInv, ServerOK', ClientOK', call' \in [Calls -> Call],
         now <= now', nextSid <= nextSid', rows' \subseteq rows,
         \A d \in Calls : call'[d] = call[d] \/ Fresh(call'[d]),
         NEW t \in Token \cup {None}, token' = t, t # None => TokenOK(t)
  PROVE  IInv'
  <1>1. CallsInv /\ RowsInv /\ ServerOK
    BY TypeParts DEF IInv
  <1>2. CallsInv' /\ RowsInv' /\ (t # None => TokenOK(t)')
    BY <1>1, Advance
  <1>3. TabInv'
    BY <1>2 DEF TabInv
  <1>4. QED
    BY <1>2, <1>3, TypeParts DEF IInv

-----------------------------------------------------------------------------
(***************************************************************************)
(* The same for one fetch that goes on.                                    *)
(***************************************************************************)
LEMMA CallStep ==
  ASSUME IInv, NEW c \in Calls, NEW k, Becomes(c, k), Fresh(k), ClientOK', ServerOK',
         now <= now', nextSid <= nextSid', rows' \subseteq rows,
         NEW t \in Token \cup {None}, token' = t, t # None => TokenOK(t)
  PROVE  IInv'
  <1>1. call \in [Calls -> Call] /\ k \in Call
    BY TypeParts DEF IInv, Fresh, Shape
  <1>2. /\ call' \in [Calls -> Call]
        /\ \A d \in Calls : call'[d] = call[d] \/ Fresh(call'[d])
    BY <1>1 DEF Becomes
  <1>3. QED
    BY <1>2, Preserved

LEMMA TabToken ==
  ASSUME IInv
  PROVE  /\ ClientOK /\ ServerOK /\ now <= now /\ nextSid <= nextSid
         /\ token \in Token \cup {None}
         /\ token # None => TokenOK(token)
         /\ \A c \in Calls : Shape(call[c])
         /\ \A c \in Calls : \A t \in Carried(call[c]) \ {None, Over} : TokenOK(t)
         /\ UNCHANGED client => ClientOK'
         /\ UNCHANGED <<server, now>> => ServerOK' /\ now' = now /\ nextSid' = nextSid /\ rows' = rows
  <1>1. ClientOK /\ ServerOK
    BY TypeParts DEF IInv
  <1>2. now \in Int /\ nextSid \in Int
    BY <1>1, BrowserAssumption DEF ServerOK
  <1>3. now <= now /\ nextSid <= nextSid
    BY <1>2
  <1>4. UNCHANGED client => ClientOK'
    BY <1>1 DEF client, ClientOK, CountdownIsTheLock
  <1>5. UNCHANGED <<server, now>> => ServerOK' /\ now' = now /\ nextSid' = nextSid /\ rows' = rows
    BY <1>1 DEF server, ServerOK
  <1>6. QED
    BY <1>1, <1>3, <1>4, <1>5 DEF IInv, CallsInv, TabInv, ClientOK

(***************************************************************************)
(* A fetch goes on while tab and server stay as they are.                  *)
(***************************************************************************)
LEMMA QuietStep ==
  ASSUME IInv, NEW c \in Calls, NEW k, Becomes(c, k), Fresh(k),
         UNCHANGED <<client, server, now>>
  PROVE  IInv'
  <1>1. PICK t : t = token
    OBVIOUS
  <1>2. token' = t /\ t \in Token \cup {None} /\ (t # None => TokenOK(t))
    BY <1>1, TabToken DEF client
  <1>3. /\ ClientOK' /\ ServerOK'
        /\ now <= now' /\ nextSid <= nextSid' /\ rows' \subseteq rows
    BY TabToken
  <1>4. QED
    BY <1>2, <1>3, CallStep

(***************************************************************************)
(* The user's calls.                                                       *)
(***************************************************************************)
Sent(kind, user, t, step) ==
  [kind |-> kind, step |-> step, user |-> user, token |-> t, answer |-> None]

LEMMA LoginStep ==
  ASSUME IInv, NEW c \in Calls, Login(c)
  PROVE  IInv'
  <1>1. PICK u \in Users : Send(c, "login", u, None, "post")
    BY DEF Login
  <1>2. PICK k : k = Sent("login", u, None, "post")
    OBVIOUS
  <1>3. Becomes(c, k)
    BY <1>1, <1>2 DEF Send, Sent
  <1>4. Fresh(k)
    BY <1>2 DEF Sent, Fresh, Shape, Call, Steps, Carried
  <1>5. QED
    BY <1>3, <1>4, QuietStep DEF Login

LEMMA SendStep ==
  ASSUME IInv, NEW c \in Calls, Request(c) \/ Logout(c)
  PROVE  IInv'
  <1>1. PICK kind \in {"page", "logout"} : Send(c, kind, None, token, "sent") /\ token # None
    BY DEF Request, Logout
  <1>2. PICK t : t = token
    OBVIOUS
  <1>3. PICK k : k = Sent(kind, None, t, "sent")
    OBVIOUS
  <1>4. Becomes(c, k)
    BY <1>1, <1>2, <1>3 DEF Send, Sent
  <1>5. t \in Token /\ TokenOK(t)
    BY <1>1, <1>2, TabToken
  <1>6. Fresh(k)
    BY <1>3, <1>5 DEF Sent, Fresh, Shape, Call, Steps, Carried
  <1>7. QED
    BY <1>4, <1>6, QuietStep DEF Request, Logout

-----------------------------------------------------------------------------
(***************************************************************************)
(* The server's side of a request that is not a login.                     *)
(***************************************************************************)
LEMMA FreshIdle == Fresh(Idle)
  BY DEF Idle, Fresh, Shape, Call, Steps, Carried

LEMMA FreshOver ==
  ASSUME NEW k \in Call, k.step \in {"sent", "verified"}, Shape(k)
  PROVE  Fresh([k EXCEPT !.answer = Over, !.step = "answered", !.token = None])
  <1>1. PICK n : n = [k EXCEPT !.answer = Over, !.step = "answered", !.token = None]
    OBVIOUS
  <1>2. /\ n \in Call /\ n.step = "answered" /\ n.token = None /\ n.answer = Over
        /\ n.kind = k.kind /\ n.user = k.user
    BY <1>1 DEF Call, Steps
  <1>3. Shape(n)
    BY <1>2 DEF Shape
  <1>4. Carried(n) \ {None, Over} = {}
    BY <1>2 DEF Carried
  <1>5. QED
    BY <1>1, <1>2, <1>3, <1>4 DEF Fresh

LEMMA VerifyStep ==
  ASSUME IInv, NEW c \in Calls, Verify(c) \/ LookUp(c) \/ Refuse(c)
  PROVE  IInv'
  <1>1. Shape(call[c]) /\ call[c] \in Call /\ call[c].step \in {"sent", "verified"}
    BY TabToken DEF Shape, Verify, LookUp, Refuse
  <1>2. CASE Respond(c, Over)
    <2>1. PICK k : k = [call[c] EXCEPT !.answer = Over, !.step = "answered", !.token = None]
      OBVIOUS
    <2>2. Becomes(c, k) /\ Fresh(k)
      BY <1>1, <1>2, <2>1, FreshOver DEF Respond
    <2>3. QED
      BY <2>2, QuietStep DEF Verify, LookUp, Refuse
  <1>3. ASSUME NEW step \in {"verified", "found"}, Goto(c, step)
        PROVE  IInv'
    <2>1. PICK k : k = [call[c] EXCEPT !.step = step]
      OBVIOUS
    <2>2. /\ k \in Call /\ k.step = step /\ k.kind = call[c].kind
          /\ k.user = call[c].user /\ k.token = call[c].token /\ k.answer = call[c].answer
      BY <1>1, <2>1 DEF Call, Steps
    <2>3. Shape(k) /\ Carried(k) = Carried(call[c])
      BY <1>1, <1>3, <2>2 DEF Shape, Carried
    <2>4. Fresh(k)
      BY <1>3, <2>2, <2>3, TabToken DEF Fresh
    <2>5. Becomes(c, k)
      BY <1>3, <2>1 DEF Goto
    <2>6. QED
      BY <2>4, <2>5, QuietStep DEF Verify, LookUp, Refuse
  <1>4. QED
    BY <1>2, <1>3 DEF Verify, LookUp, Refuse

(***************************************************************************)
(* The row a lookup finds is no younger than the token, so the cap is still *)
(* ahead; while it is, a renewed token is as good as the old one.          *)
(***************************************************************************)
LEMMA LiveIsYoung ==
  ASSUME ServerOK, NEW t \in Token, TokenOK(t), Live(t.sid)
  PROVE  now - t.started < Cap
  <1>1. PICK x \in rows : x.sid = t.sid /\ now < x.started + Cap
    BY DEF Live
  <1>2. x.started <= t.started
    BY <1>1 DEF TokenOK
  <1>3. x.started \in Int /\ t.started \in Int /\ now \in Int /\ Cap \in Int
    BY <1>1, BrowserAssumption DEF ServerOK, Row, Token
  <1>4. QED
    BY <1>1, <1>2, <1>3

LEMMA RenewedIsGood ==
  ASSUME ServerOK, NEW t \in Token, TokenOK(t), now - t.started < Cap
  PROVE  Renewed(t) \in Token /\ TokenOK(Renewed(t))
  <1>1. t.sid \in Sids /\ t.user \in Users /\ t.started \in Nat /\ now \in Nat
    BY BrowserAssumption DEF Token, ServerOK
  <1>2. PICK n : n = Mint(t.sid, t.user, t.started)
    OBVIOUS
  <1>3. /\ n \in Token /\ n.sid = t.sid /\ n.user = t.user /\ n.started = t.started
        /\ n.exp <= t.started + Cap /\ n.exp <= now + TTL
    BY <1>1, <1>2, MintType
  <1>4. TokenOK(n)
    BY <1>3 DEF TokenOK
  <1>5. QED
    BY <1>2, <1>3, <1>4 DEF Renewed

LEMMA FreshAnswer ==
  ASSUME NEW k \in Call, Shape(k), NEW t \in Token, TokenOK(t)
  PROVE  Fresh([k EXCEPT !.answer = t, !.step = "answered", !.token = None])
  <1>1. PICK n : n = [k EXCEPT !.answer = t, !.step = "answered", !.token = None]
    OBVIOUS
  <1>2. /\ n \in Call /\ n.step = "answered" /\ n.token = None /\ n.answer = t
        /\ n.kind = k.kind /\ n.user = k.user
    BY <1>1 DEF Call, Steps
  <1>3. Shape(n)
    BY <1>2 DEF Shape
  <1>4. Carried(n) = {None, t}
    BY <1>2 DEF Carried
  <1>5. QED
    BY <1>1, <1>2, <1>3, <1>4 DEF Fresh

LEMMA AdmitStep ==
  ASSUME IInv, NEW c \in Calls, Admit(c)
  PROVE  IInv'
  <1>1. Shape(call[c]) /\ call[c] \in Call /\ call[c].step = "found" /\ ServerOK
    BY TabToken DEF Shape, Admit
  <1>2. PICK t : t = call[c].token
    OBVIOUS
  <1>3. t \in Token /\ now - t.started < Cap /\ t \in Carried(call[c]) \ {None, Over}
    BY <1>1, <1>2, BrowserAssumption DEF Shape, Admit, Carried
  <1>4. TokenOK(t)
    BY <1>3, TabToken
  <1>5. PICK n : n = Renewed(t)
    OBVIOUS
  <1>6. n \in Token /\ TokenOK(n)
    BY <1>1, <1>3, <1>4, <1>5, RenewedIsGood
  <1>7. CASE call[c].kind = "logout"
    <2>1. PICK k : k = [call[c] EXCEPT !.answer = n, !.step = "revoking"]
      OBVIOUS
    <2>2. /\ k \in Call /\ k.step = "revoking" /\ k.kind = "logout"
          /\ k.user = call[c].user /\ k.token = t /\ k.answer = n
      BY <1>1, <1>2, <1>6, <1>7, <2>1 DEF Call, Steps
    <2>3. Shape(k) /\ Carried(k) = {t, n}
      BY <1>3, <1>6, <2>2 DEF Shape, Carried
    <2>4. Fresh(k)
      BY <1>4, <1>6, <2>2, <2>3 DEF Fresh
    <2>5. Becomes(c, k)
      BY <1>2, <1>5, <1>7, <2>1 DEF Admit, Answer
    <2>6. QED
      BY <2>4, <2>5, QuietStep DEF Admit
  <1>8. CASE call[c].kind # "logout"
    <2>1. PICK k : k = [call[c] EXCEPT !.answer = n, !.step = "answered", !.token = None]
      OBVIOUS
    <2>2. Fresh(k)
      BY <1>1, <1>6, <2>1, FreshAnswer
    <2>3. Becomes(c, k)
      BY <1>2, <1>5, <1>8, <2>1 DEF Admit, Respond
    <2>4. QED
      BY <2>2, <2>3, QuietStep DEF Admit
  <1>9. QED
    BY <1>7, <1>8

(***************************************************************************)
(* The steps that delete rows.                                             *)
(***************************************************************************)
LEMMA RevokeStep ==
  ASSUME IInv, NEW c \in Calls, Revoke(c)
  PROVE  IInv'
  <1>1. Shape(call[c]) /\ call[c] \in Call /\ call[c].step = "revoking"
    BY TabToken DEF Shape, Revoke
  <1>2. PICK n : n = call[c].answer
    OBVIOUS
  <1>3. n \in Token /\ n \in Carried(call[c]) \ {None, Over}
    BY <1>1, <1>2, BrowserAssumption DEF Shape, Carried
  <1>4. TokenOK(n)
    BY <1>3, TabToken
  <1>5. PICK k : k = [call[c] EXCEPT !.answer = n, !.step = "answered", !.token = None]
    OBVIOUS
  <1>6. Fresh(k) /\ Becomes(c, k)
    BY <1>1, <1>2, <1>3, <1>4, <1>5, FreshAnswer DEF Revoke, Respond
  <1>7. /\ rows' \subseteq rows /\ nextSid' = nextSid /\ now' = now /\ ServerOK'
    BY TabToken DEF Revoke, ServerOK
  <1>8. ClientOK' /\ nextSid <= nextSid' /\ now <= now'
    BY <1>7, TabToken DEF Revoke
  <1>9. PICK t : t = token
    OBVIOUS
  <1>10. token' = t /\ t \in Token \cup {None} /\ (t # None => TokenOK(t))
    BY <1>9, TabToken DEF Revoke, client
  <1>11. QED
    BY <1>6, <1>7, <1>8, <1>10, CallStep

LEMMA ResetStep ==
  ASSUME IInv, NEW u \in Users, ResetElsewhere(u)
  PROVE  IInv'
  <1>1. rows' \subseteq rows /\ nextSid' = nextSid /\ now' = now /\ call' = call /\ ServerOK'
    BY TabToken DEF ResetElsewhere, ServerOK
  <1>2. ClientOK' /\ nextSid <= nextSid' /\ now <= now'
    BY <1>1, TabToken DEF ResetElsewhere
  <1>3. PICK t : t = token
    OBVIOUS
  <1>4. token' = t /\ t \in Token \cup {None} /\ (t # None => TokenOK(t))
    BY <1>3, TabToken DEF ResetElsewhere, client
  <1>5. call' \in [Calls -> Call]
    BY <1>1, TypeParts DEF IInv
  <1>6. QED
    BY <1>1, <1>2, <1>4, <1>5, Preserved

-----------------------------------------------------------------------------
(***************************************************************************)
(* A login on the server: a number nothing else has, then the row.         *)
(***************************************************************************)
LEMMA StartStep ==
  ASSUME IInv, NEW c \in Calls, StartRow(c)
  PROVE  IInv'
  <1>1. /\ ClientOK /\ ServerOK /\ call \in [Calls -> Call] /\ CallsInv /\ RowsInv /\ TabInv
        /\ call[c].step = "post" /\ Shape(call[c]) /\ call[c] \in Call
    BY TabToken, TypeParts DEF IInv, Shape, StartRow
  <1>2. PICK row : row = [sid |-> nextSid + 1, user |-> call[c].user, started |-> now]
    OBVIOUS
  <1>3. /\ row \in Row /\ row.sid = nextSid + 1 /\ row.started = now /\ row.user = call[c].user
    <2>1. call[c].user \in Users
      BY <1>1 DEF Shape
    <2>2. nextSid + 1 \in Sids /\ now \in Nat
      BY <1>1, BrowserAssumption DEF ServerOK, StartRow, Sids
    <2>3. QED
      BY <1>2, <2>1, <2>2 DEF Row
  <1>4. PICK k : k = [call[c] EXCEPT !.answer = row, !.step = "mint"]
    OBVIOUS
  <1>5. /\ k \in Call /\ k.step = "mint" /\ k.kind = "login" /\ k.token = None
        /\ k.answer = row /\ k.user = call[c].user /\ k.user \in Users
    BY <1>1, <1>3, <1>4 DEF Call, Steps, Shape
  <1>6. Shape(k) /\ Carried(k) = {None}
    BY <1>3, <1>5 DEF Shape, Carried
  <1>7. call' = [call EXCEPT ![c] = k] /\ nextSid' = nextSid + 1 /\ rows' = rows /\ now' = now
    BY <1>2, <1>4 DEF StartRow, Answer, Becomes
  <1>8. /\ call' \in [Calls -> Call] /\ call'[c] = k
        /\ \A d \in Calls \ {c} : call'[d] = call[d]
    BY <1>1, <1>5, <1>7
  <1>9. nextSid \in Int /\ ServerOK' /\ ClientOK'
    BY <1>1, <1>7, TabToken, BrowserAssumption DEF ServerOK, StartRow
  <1>10. ASSUME NEW t \in Token, TokenOK(t)
         PROVE  TokenOK(t)'
    <2>1. t.sid \in Int /\ t.sid <= nextSid
      BY <1>10 DEF Token, Sids, TokenOK
    <2>2. t.sid <= nextSid' /\ t.sid # row.sid
      BY <1>3, <1>7, <1>9, <2>1
    <2>3. \A d \in Calls : Minting(d)' => call'[d].answer.sid # t.sid
      BY <1>5, <1>8, <1>10, <2>2 DEF TokenOK, Minting
    <2>4. QED
      BY <1>7, <1>10, <2>2, <2>3 DEF TokenOK
  <1>11. ASSUME NEW d \in Calls \ {c}, Minting(d)
         PROVE  call[d].answer.sid \in Int /\ call[d].answer.sid <= nextSid
    BY <1>1, <1>11 DEF CallsInv, MintOK, Minting, Shape, Row, Sids
  <1>12. ASSUME NEW d \in Calls, Minting(d)'
         PROVE  MintOK(d)'
    <2>1. CASE d = c
      <3>1. \A x \in rows : x.sid \in Int /\ x.sid <= nextSid
        BY <1>1 DEF RowsInv, ServerOK, Row, Sids
      <3>2. \A x \in rows' : x.sid # row.sid
        BY <1>3, <1>7, <1>9, <3>1
      <3>3. \A e \in Calls \ {c} : Minting(e)' => call'[e].answer.sid # row.sid
        BY <1>3, <1>8, <1>9, <1>11 DEF Minting
      <3>4. row.sid <= nextSid' /\ row.started <= now'
        BY <1>1, <1>3, <1>7, <1>9, BrowserAssumption DEF ServerOK
      <3>5. QED
        BY <1>3, <1>5, <1>8, <2>1, <3>2, <3>3, <3>4 DEF MintOK
    <2>2. CASE d # c
      <3>1. Minting(d) /\ MintOK(d) /\ call'[d] = call[d]
        BY <1>1, <1>8, <1>12, <2>2 DEF Minting, CallsInv
      <3>2. call[d].answer.sid <= nextSid' /\ call[d].answer.sid # row.sid
        BY <1>3, <1>7, <1>9, <1>11, <2>2, <3>1
      <3>3. \A e \in Calls \ {d} : Minting(e)' => call'[e].answer.sid # call[d].answer.sid
        BY <1>5, <1>8, <3>1, <3>2 DEF MintOK, Minting
      <3>4. QED
        BY <1>7, <3>1, <3>2, <3>3 DEF MintOK
    <2>3. QED
      BY <2>1, <2>2
  <1>13. CallsInv'
    <2>1. ASSUME NEW d \in Calls
          PROVE  Shape(call'[d]) /\ \A t \in Carried(call'[d]) \ {None, Over} : TokenOK(t)'
      <3>1. CASE d = c
        BY <1>6, <1>8, <3>1
      <3>2. CASE d # c
        BY <1>1, <1>8, <1>10, <3>2, CarriedTokens DEF CallsInv
      <3>3. QED
        BY <3>1, <3>2
    <2>2. QED
      BY <1>12, <2>1 DEF CallsInv
  <1>14. RowsInv'
    BY <1>1, <1>7, <1>9 DEF RowsInv, ServerOK, Row, Sids
  <1>15. TabInv'
    <2>1. PICK t : t = token
      OBVIOUS
    <2>2. token' = t /\ (t # None => TokenOK(t)')
      BY <1>1, <1>10, <2>1 DEF StartRow, client, TabInv, ClientOK
    <2>3. QED
      BY <2>2 DEF TabInv
  <1>16. QED
    BY <1>8, <1>9, <1>13, <1>14, <1>15, TypeParts DEF IInv

LEMMA GrantStep ==
  ASSUME IInv, NEW c \in Calls, Grant(c)
  PROVE  IInv'
  <1>1. /\ ClientOK /\ ServerOK /\ call \in [Calls -> Call] /\ CallsInv /\ RowsInv /\ TabInv
        /\ call[c].step = "mint" /\ Shape(call[c]) /\ call[c] \in Call
    BY TabToken, TypeParts DEF IInv, Shape, Grant
  <1>2. PICK row : row = call[c].answer
    OBVIOUS
  <1>3. Minting(c) /\ MintOK(c) /\ row \in Row
    BY <1>1, <1>2 DEF Minting, CallsInv, Shape
  <1>4. /\ row.sid <= nextSid /\ row.started <= now /\ \A x \in rows : x.sid # row.sid
        /\ \A d \in Calls \ {c} : Minting(d) => call[d].answer.sid # row.sid
    BY <1>2, <1>3 DEF MintOK
  <1>5. now \in Nat /\ nextSid \in Int /\ row.sid \in Sids /\ row.user \in Users
    BY <1>1, <1>3, BrowserAssumption DEF ServerOK, Row
  <1>6. PICK n : n = Mint(row.sid, row.user, now)
    OBVIOUS
  <1>7. /\ n \in Token /\ n.sid = row.sid /\ n.user = row.user /\ n.started = now
        /\ n.exp <= n.started + Cap /\ n.exp <= now + TTL
    <2>1. now - now < Cap
      BY <1>5, BrowserAssumption
    <2>2. QED
      BY <1>5, <1>6, <2>1, MintType
  <1>8. PICK k : k = [call[c] EXCEPT !.answer = n, !.step = "granted"]
    OBVIOUS
  <1>9. /\ k \in Call /\ k.step = "granted" /\ k.kind = "login" /\ k.token = None
        /\ k.answer = n /\ k.user \in Users
    BY <1>1, <1>7, <1>8 DEF Call, Steps, Shape
  <1>10. Shape(k) /\ Carried(k) = {None, n}
    BY <1>7, <1>9 DEF Shape, Carried
  <1>11. /\ call' = [call EXCEPT ![c] = k] /\ nextSid' = nextSid /\ now' = now
         /\ rows' = rows \cup {row}
    BY <1>2, <1>6, <1>8 DEF Grant, Answer, Becomes
  <1>12. /\ call' \in [Calls -> Call] /\ call'[c] = k
         /\ \A d \in Calls \ {c} : call'[d] = call[d]
    BY <1>1, <1>9, <1>11
  <1>13. ServerOK' /\ ClientOK'
    BY <1>1, <1>3, <1>11, TabToken DEF ServerOK, Grant
  <1>14. \A d \in Calls : Minting(d)' => d # c /\ Minting(d) /\ call'[d] = call[d]
    BY <1>9, <1>12 DEF Minting
  <1>15. ASSUME NEW t \in Token, TokenOK(t)
         PROVE  TokenOK(t)'
    <2>1. row.sid # t.sid
      BY <1>2, <1>3, <1>15 DEF TokenOK
    <2>2. QED
      BY <1>11, <1>14, <1>15, <2>1 DEF TokenOK
  <1>16. TokenOK(n)'
    BY <1>4, <1>7, <1>11, <1>14 DEF TokenOK
  <1>17. ASSUME NEW d \in Calls, Minting(d)'
         PROVE  MintOK(d)'
    <2>1. d # c /\ Minting(d) /\ MintOK(d) /\ call'[d] = call[d]
      BY <1>1, <1>14, <1>17 DEF CallsInv
    <2>2. row.sid # call[d].answer.sid
      BY <1>4, <2>1
    <2>3. QED
      BY <1>11, <1>14, <2>1, <2>2 DEF MintOK
  <1>18. CallsInv'
    <2>1. ASSUME NEW d \in Calls
          PROVE  Shape(call'[d]) /\ \A t \in Carried(call'[d]) \ {None, Over} : TokenOK(t)'
      <3>1. CASE d = c
        BY <1>10, <1>12, <1>16, <3>1
      <3>2. CASE d # c
        BY <1>1, <1>12, <1>15, <3>2, CarriedTokens DEF CallsInv
      <3>3. QED
        BY <3>1, <3>2
    <2>2. QED
      BY <1>17, <2>1 DEF CallsInv
  <1>19. RowsInv'
    BY <1>1, <1>4, <1>11 DEF RowsInv
  <1>20. TabInv'
    <2>1. PICK t : t = token
      OBVIOUS
    <2>2. token' = t /\ (t # None => TokenOK(t)')
      BY <1>1, <1>15, <2>1 DEF Grant, client, TabInv, ClientOK
    <2>3. QED
      BY <2>2 DEF TabInv
  <1>21. QED
    BY <1>12, <1>13, <1>18, <1>19, <1>20, TypeParts DEF IInv

-----------------------------------------------------------------------------
(***************************************************************************)
(* The client's side: an answer, its loss, the key, the timer, a refresh.  *)
(***************************************************************************)
LEMMA ResumeFresh ==
  ASSUME IInv, NEW c \in Calls, Resume(c)
  PROVE  \E k : Becomes(c, k) /\ Fresh(k)
  <1>1. CASE call[c].kind = "login"
    <2>1. PICK k : k = [Idle EXCEPT !.kind = "login", !.step = "derive", !.user = call[c].user]
      OBVIOUS
    <2>2. call[c].user \in Users
      BY <1>1, TabToken DEF Shape
    <2>3. /\ k \in Call /\ k.kind = "login" /\ k.step = "derive" /\ k.user \in Users
          /\ k.token = None /\ k.answer = None
      BY <2>1, <2>2 DEF Idle, Call, Steps
    <2>4. Fresh(k)
      BY <2>3 DEF Fresh, Shape, Carried
    <2>5. Becomes(c, k)
      BY <1>1, <2>1 DEF Resume
    <2>6. QED
      BY <2>4, <2>5
  <1>2. CASE call[c].kind # "login"
    BY <1>2, FreshIdle DEF Resume
  <1>3. QED
    BY <1>1, <1>2

(***************************************************************************)
(* A fetch settles and the tab holds a good token, or none.                *)
(***************************************************************************)
LEMMA TabStep ==
  ASSUME IInv, NEW c \in Calls, NEW k, Becomes(c, k), Fresh(k), ClientOK',
         UNCHANGED <<server, now>>,
         NEW t \in Token \cup {None}, token' = t, t # None => TokenOK(t)
  PROVE  IInv'
  <1>1. ServerOK' /\ now <= now' /\ nextSid <= nextSid' /\ rows' \subseteq rows
    BY TabToken
  <1>2. QED
    BY <1>1, CallStep

LEMMA BeginStep ==
  ASSUME IInv, NEW c \in Calls, BeginSession(c)
  PROVE  IInv'
  <1>1. Shape(call[c]) /\ call[c] \in Call /\ call[c].step = "granted" /\ ClientOK
    BY TabToken DEF Shape, BeginSession
  <1>2. PICK t : t = call[c].answer
    OBVIOUS
  <1>3. t \in Token /\ t \in Carried(call[c]) \ {None, Over} /\ t # None
    BY <1>1, <1>2, BrowserAssumption DEF Shape, Carried
  <1>4. TokenOK(t)
    BY <1>3, TabToken
  <1>5. PICK k : k = [call[c] EXCEPT !.step = "sent", !.token = t, !.answer = None]
    OBVIOUS
  <1>6. /\ k \in Call /\ k.step = "sent" /\ k.kind = call[c].kind /\ k.user = call[c].user
        /\ k.token = t /\ k.answer = None
    BY <1>1, <1>3, <1>5 DEF Call, Steps
  <1>7. Shape(k) /\ Carried(k) = {t, None}
    BY <1>1, <1>3, <1>6 DEF Shape, Carried
  <1>8. Fresh(k)
    BY <1>4, <1>6, <1>7 DEF Fresh
  <1>9. Becomes(c, k) /\ token' = t /\ UNCHANGED <<server, now>>
    BY <1>2, <1>5 DEF BeginSession
  <1>10. ClientOK'
    BY <1>1, <1>3, <1>9 DEF BeginSession, ClientOK, CountdownIsTheLock
  <1>11. QED
    BY <1>3, <1>4, <1>8, <1>9, <1>10, TabStep

LEMMA DeliverStep ==
  ASSUME IInv, NEW c \in Calls, Deliver(c)
  PROVE  IInv'
  <1>1. Shape(call[c]) /\ call[c].step = "answered" /\ ClientOK
    BY TabToken DEF Deliver
  <1>2. PICK k : Becomes(c, k) /\ Fresh(k)
    BY ResumeFresh DEF Deliver
  <1>3. UNCHANGED <<server, now>>
    BY DEF Deliver
  <1>4. CASE EndSession
    <2>1. ClientOK' /\ token' = None
      BY <1>4, Cleared
    <2>2. PICK t : t = None
      OBVIOUS
    <2>3. QED
      BY <1>2, <1>3, <2>1, <2>2, TabStep
  <1>5. CASE ~(call[c].kind = "logout" \/ call[c].answer = Over)
    <2>1. PICK t : t = call[c].answer
      OBVIOUS
    <2>2. t \in Token /\ t \in Carried(call[c]) \ {None, Over} /\ Capture(t)
      BY <1>1, <1>5, <2>1, BrowserAssumption DEF Shape, Carried, Deliver
    <2>3. TokenOK(t) /\ ClientOK' /\ token' \in {t, None}
      BY <1>1, <2>2, TabToken, Captured
    <2>4. PICK n : n = token'
      OBVIOUS
    <2>5. n \in Token \cup {None} /\ token' = n /\ (n # None => TokenOK(n))
      BY <2>2, <2>3, <2>4
    <2>6. QED
      BY <1>2, <1>3, <2>3, <2>5, TabStep
  <1>6. QED
    BY <1>4, <1>5 DEF Deliver

LEMMA LostStep ==
  ASSUME IInv, NEW c \in Calls, Lost(c)
  PROVE  IInv'
  <1>1. UNCHANGED <<server, now>>
    BY DEF Lost
  <1>2. \E k : Becomes(c, k) /\ Fresh(k)
    BY ResumeFresh, FreshIdle DEF Lost
  <1>3. PICK k : Becomes(c, k) /\ Fresh(k)
    BY <1>2
  <1>4. CASE UNCHANGED client
    BY <1>1, <1>3, <1>4, QuietStep
  <1>5. CASE EndSession
    <2>1. ClientOK' /\ token' = None
      BY <1>5, Cleared
    <2>2. PICK t : t = None
      OBVIOUS
    <2>3. QED
      BY <1>1, <1>3, <2>1, <2>2, TabStep
  <1>6. QED
    BY <1>4, <1>5 DEF Lost

LEMMA DeriveStep ==
  ASSUME IInv, NEW c \in Calls, DeriveKey(c)
  PROVE  IInv'
  <1>1. Shape(call[c]) /\ call[c].step = "derive" /\ ClientOK
    BY TabToken DEF DeriveKey
  <1>2. call[c].user \in Users
    BY <1>1 DEF Shape
  <1>3. ClientOK'
    BY <1>1, <1>2 DEF DeriveKey, ClientOK, CountdownIsTheLock
  <1>4. PICK k : k = Idle
    OBVIOUS
  <1>5. Becomes(c, k) /\ Fresh(k) /\ UNCHANGED <<server, now>>
    BY <1>4, FreshIdle DEF DeriveKey
  <1>6. PICK t : t = token
    OBVIOUS
  <1>7. token' = t /\ t \in Token \cup {None} /\ (t # None => TokenOK(t))
    BY <1>6, TabToken DEF DeriveKey
  <1>8. QED
    BY <1>3, <1>5, <1>7, TabStep

LEMMA LockStep ==
  ASSUME IInv, AutoLock \/ Reload
  PROVE  IInv'
  <1>1. ClientOK' /\ token' = None
    BY Cleared DEF AutoLock, Reload
  <1>2. /\ ServerOK' /\ now <= now' /\ nextSid <= nextSid' /\ rows' \subseteq rows
    BY TabToken DEF AutoLock, Reload
  <1>3. \A d \in Calls : call'[d] = call[d] \/ Fresh(call'[d])
    BY FreshIdle DEF AutoLock, Reload
  <1>4. call' \in [Calls -> Call]
    <2>1. call \in [Calls -> Call] /\ Idle \in Call
      BY FreshIdle, TypeParts DEF IInv, Fresh, Shape
    <2>2. QED
      BY <2>1 DEF AutoLock, Reload
  <1>5. PICK t : t = None
    OBVIOUS
  <1>6. QED
    BY <1>1, <1>2, <1>3, <1>4, <1>5, Preserved

LEMMA TickStep ==
  ASSUME IInv, Tick
  PROVE  IInv'
  <1>1. ServerOK /\ ClientOK' /\ call' = call /\ call \in [Calls -> Call]
    BY TabToken, TypeParts DEF Tick, IInv
  <1>2. ServerOK' /\ now <= now' /\ nextSid' = nextSid /\ rows' = rows
    BY <1>1, BrowserAssumption DEF Tick, ServerOK, server
  <1>3. nextSid <= nextSid'
    BY <1>2, TabToken
  <1>4. PICK t : t = token
    OBVIOUS
  <1>5. token' = t /\ t \in Token \cup {None} /\ (t # None => TokenOK(t))
    BY <1>4, TabToken DEF Tick, client
  <1>6. QED
    BY <1>1, <1>2, <1>3, <1>5, Preserved

-----------------------------------------------------------------------------
LEMMA Initially ==
  ASSUME Init
  PROVE  IInv
  <1>1. Idle \in Call /\ Shape(Idle) /\ Carried(Idle) = {None} /\ Idle.step # "mint"
    BY FreshIdle DEF Fresh, Shape, Carried, Idle
  <1>2. call \in [Calls -> Call] /\ \A c \in Calls : call[c] = Idle
    BY <1>1 DEF Init
  <1>3. ClientOK /\ ServerOK
    BY BrowserAssumption DEF Init, ClientOK, ServerOK, CountdownIsTheLock
  <1>4. CallsInv
    BY <1>1, <1>2 DEF CallsInv, Minting
  <1>5. RowsInv /\ TabInv
    BY DEF Init, RowsInv, TabInv
  <1>6. QED
    BY <1>2, <1>3, <1>4, <1>5, TypeParts DEF IInv

LEMMA Stutter ==
  ASSUME IInv, UNCHANGED vars
  PROVE  IInv'
  <1>1. UNCHANGED <<client, server, now>> /\ call' = call
    BY DEF vars, client, server
  <1>2. ClientOK' /\ ServerOK' /\ nextSid' = nextSid /\ now' = now /\ rows' = rows
    BY <1>1, TabToken
  <1>3. now <= now' /\ nextSid <= nextSid'
    BY <1>2, TabToken
  <1>4. call' \in [Calls -> Call]
    BY <1>1, TypeParts DEF IInv
  <1>5. PICK t : t = token
    OBVIOUS
  <1>6. token' = t /\ t \in Token \cup {None} /\ (t # None => TokenOK(t))
    BY <1>1, <1>5, TabToken DEF client
  <1>7. QED
    BY <1>1, <1>2, <1>3, <1>4, <1>6, Preserved

LEMMA Inductive ==
  ASSUME IInv, [Next]_vars
  PROVE  IInv'
  <1>1. ASSUME NEW c \in Calls,
               Login(c) \/ Request(c) \/ Logout(c) \/ Serve(c) \/ Settle(c)
        PROVE  IInv'
    <2>1. CASE Login(c) \/ Request(c) \/ Logout(c)
      BY <2>1, LoginStep, SendStep
    <2>2. CASE Serve(c)
      BY <2>2, StartStep, GrantStep, VerifyStep, AdmitStep, RevokeStep DEF Serve
    <2>3. CASE Settle(c)
      BY <2>3, BeginStep, DeliverStep, LostStep, DeriveStep DEF Settle
    <2>4. QED
      BY <1>1, <2>1, <2>2, <2>3
  <1>2. CASE \E u \in Users : ResetElsewhere(u)
    BY <1>2, ResetStep
  <1>3. CASE Reload \/ AutoLock \/ Tick
    BY <1>3, LockStep, TickStep
  <1>4. CASE UNCHANGED vars
    BY <1>4, Stutter
  <1>5. QED
    BY <1>1, <1>2, <1>3, <1>4 DEF Next

THEOREM Invariance == Spec => []IInv
  <1>1. Init => IInv
    BY Initially
  <1>2. IInv /\ [Next]_vars => IInv'
    BY Inductive
  <1>3. QED
    BY <1>1, <1>2, PTL DEF Spec

(***************************************************************************)
(* Types, for any number of users, fetches and sessions.                   *)
(***************************************************************************)
THEOREM TypeCorrect == Spec => []TypeOK
  <1>1. IInv => TypeOK
    BY DEF IInv
  <1>2. QED
    BY <1>1, Invariance, PTL

(***************************************************************************)
(* The lock that fires is the one the countdown shows, in any order of     *)
(* answers.                                                                *)
(***************************************************************************)
THEOREM CountdownCorrect == Spec => []CountdownIsTheLock
  <1>1. IInv => CountdownIsTheLock
    BY DEF IInv
  <1>2. QED
    BY <1>1, Invariance, PTL

(***************************************************************************)
(* No token, in the tab or in flight, outlives its session's cap or an     *)
(* idle window from now, or names another user than its session's row.     *)
(***************************************************************************)
THEOREM TokensCorrect == Spec => []TokensKeepToTheirSessions
  <1>1. ASSUME IInv, NEW t \in ({token} \cup InFlight) \ {None, Over}
        PROVE  TokenOK(t)
    <2>1. CASE t = token
      BY <1>1, <2>1 DEF IInv, TabInv
    <2>2. CASE t \in InFlight
      <3>1. PICK c \in Calls : t \in Carried(call[c])
        BY <2>2 DEF InFlight, Carried
      <3>2. QED
        BY <1>1, <3>1 DEF IInv, CallsInv
    <2>3. QED
      BY <1>1, <2>1, <2>2
  <1>2. IInv => TokensKeepToTheirSessions
    BY <1>1 DEF TokensKeepToTheirSessions, TokenOK
  <1>3. QED
    BY <1>2, Invariance, PTL

(***************************************************************************)
(* authenticate.js: what the lookup finds live, renew could renew at that  *)
(* moment, however long ago the token was verified.                        *)
(***************************************************************************)
THEOREM FoundCanBeRenewed == Spec => []FoundIsRenewable
  <1>1. ASSUME IInv, NEW c \in Calls, call[c].step = "verified", Live(call[c].token.sid)
        PROVE  now - call[c].token.started < Cap
    <2>1. PICK t : t = call[c].token
      OBVIOUS
    <2>2. t \in Token /\ t \in Carried(call[c]) \ {None, Over}
      BY <1>1, <2>1, TabToken, BrowserAssumption DEF Shape, Carried
    <2>3. TokenOK(t) /\ ServerOK
      BY <1>1, <2>2, TabToken
    <2>4. QED
      BY <1>1, <2>1, <2>2, <2>3, LiveIsYoung
  <1>2. IInv => FoundIsRenewable
    BY <1>1 DEF FoundIsRenewable
  <1>3. QED
    BY <1>2, Invariance, PTL

(***************************************************************************)
(* The sliding window holds for any number of fetches, whatever happens to *)
(* them: both of the above.                                                *)
(***************************************************************************)
THEOREM WindowSlides == Spec => []SlidingWindow
  <1>1. TokensKeepToTheirSessions /\ FoundIsRenewable => SlidingWindow
    BY DEF SlidingWindow
  <1>2. QED
    BY <1>1, TokensCorrect, FoundCanBeRenewed, PTL

-----------------------------------------------------------------------------
(***************************************************************************)
(* SessionLedger.  What the mapping makes of the fetches, in both states.  *)
(***************************************************************************)
Abstract == <<token, Issued, Presented("verified"), Presented("found"), rows, Used, now>>

LEMMA IssuedIs ==
  /\ \A t : t \in Issued <=>
       t \notin {None, Over} /\ (t = token \/ \E c \in Calls : t \in Carried(call[c]))
  /\ \A t : t \in Issued' <=>
       t \notin {None, Over} /\ (t = token' \/ \E c \in Calls : t \in Carried(call'[c]))
  BY DEF Issued, InFlight, Carried

LEMMA PresentedIs ==
  /\ \A step, t : t \in Presented(step) <=>
       \E c \in Calls : call[c].step = step /\ call[c].token = t
  /\ \A step, t : t \in Presented(step)' <=>
       \E c \in Calls : call'[c].step = step /\ call'[c].token = t
  BY DEF Presented

(***************************************************************************)
(* A token that a request has presented is one of those there are.         *)
(***************************************************************************)
LEMMA PresentedIssued ==
  ASSUME IInv
  PROVE  /\ Presented("verified") \cup Presented("found") \subseteq Issued
         /\ token \in Issued \cup {None}
         /\ Issued \subseteq Token
         /\ \A t \in Issued : TokenOK(t)
         /\ Used \subseteq Sids
  <1>1. ASSUME NEW c \in Calls, call[c].step \in {"verified", "found"}
        PROVE  call[c].token \in Issued
    <2>1. call[c].token \in Token /\ call[c].token \in Carried(call[c])
      BY <1>1, TabToken DEF Shape, Carried
    <2>2. QED
      BY <2>1, IssuedIs, BrowserAssumption
  <1>2. Presented("verified") \cup Presented("found") \subseteq Issued
    BY <1>1, PresentedIs
  <1>3. token \in Issued \cup {None}
    BY TabToken, IssuedIs, BrowserAssumption
  <1>4. ASSUME NEW t \in Issued
        PROVE  t \in Token /\ TokenOK(t)
    <2>1. CASE t = token
      BY <1>4, <2>1, TabToken, IssuedIs
    <2>2. ASSUME NEW c \in Calls, t \in Carried(call[c])
          PROVE  t \in Token /\ TokenOK(t)
      BY <1>4, <2>2, TabToken, CarriedTokens, IssuedIs
    <2>3. QED
      BY <1>4, <2>1, <2>2, IssuedIs
  <1>5. Used \subseteq Sids
    BY TabToken, BrowserAssumption DEF Used, ServerOK, Sids
  <1>6. QED
    BY <1>2, <1>3, <1>4, <1>5

LEMMA KnownAgain ==
  ASSUME IInv'
  PROVE  Ledger!Known
  <1>1. ASSUME NEW c \in Calls, call'[c].step \in {"verified", "found"}
        PROVE  call'[c].token \in Issued'
    <2>1. Shape(call'[c])
      BY DEF IInv, CallsInv
    <2>2. call'[c].token \in Token /\ call'[c].token \in Carried(call'[c])
      BY <1>1, <2>1 DEF Shape, Carried
    <2>3. QED
      BY <2>2, IssuedIs, BrowserAssumption
  <1>2. Presented("verified")' \cup Presented("found")' \subseteq Issued'
    BY <1>1, PresentedIs
  <1>3. token' \in Token \cup {None}
    BY DEF IInv, TypeOK
  <1>4. token' \in Issued' \cup {None}
    BY <1>3, IssuedIs, BrowserAssumption
  <1>5. QED
    BY <1>2, <1>4 DEF Ledger!Known

(***************************************************************************)
(* A step of one fetch.                                                    *)
(***************************************************************************)
LEMMA OneCall ==
  ASSUME IInv, NEW c \in Calls, NEW k, Becomes(c, k)
  PROVE  call'[c] = k /\ \A d \in Calls \ {c} : call'[d] = call[d]
  BY TypeParts DEF IInv, Becomes

LEMMA NoneIssued ==
  ASSUME IInv, NEW c \in Calls, NEW k, Becomes(c, k),
         Carried(k) \subseteq Issued \cup {None, Over}, token' \in Issued \cup {None}
  PROVE  Issued' \subseteq Issued
  BY OneCall, IssuedIs

(***************************************************************************)
(* The set of those presented at a step, when one fetch goes on.           *)
(***************************************************************************)
LEMMA PresentedStep ==
  ASSUME IInv, NEW c \in Calls, NEW k, Becomes(c, k), NEW step
  PROVE  /\ k.step # step => Presented(step)' \subseteq Presented(step)
         /\ k.step # step /\ call[c].step # step => Presented(step)' = Presented(step)
         /\ k.step = step /\ call[c].step # step =>
              Presented(step)' = Presented(step) \cup {k.token}
  <1>1. call'[c] = k /\ \A d \in Calls \ {c} : call'[d] = call[d]
    BY OneCall
  <1>2. ASSUME NEW t
        PROVE  t \in Presented(step)' <=>
                 \/ k.step = step /\ k.token = t
                 \/ \E d \in Calls \ {c} : call[d].step = step /\ call[d].token = t
    BY <1>1, PresentedIs
  <1>3. ASSUME NEW t
        PROVE  t \in Presented(step) <=>
                 \/ call[c].step = step /\ call[c].token = t
                 \/ \E d \in Calls \ {c} : call[d].step = step /\ call[d].token = t
    BY PresentedIs
  <1>4. QED
    BY <1>2, <1>3

(***************************************************************************)
(* The numbers in use, when no fetch begins to start a row, and when one   *)
(* that is not committing does not leave off either.                       *)
(***************************************************************************)
LEMMA UsedStep ==
  ASSUME IInv, NEW c \in Calls, NEW k, Becomes(c, k), k.step # "mint", nextSid' = nextSid
  PROVE  /\ Used \subseteq Used'
         /\ call[c].step # "mint" => Used' = Used
  BY OneCall DEF Used, Minting

-----------------------------------------------------------------------------
(***************************************************************************)
(* The steps that move tokens: a fetch goes on with tokens there are, and  *)
(* presents none of them.                                                  *)
(***************************************************************************)
LEMMA MovesOn ==
  ASSUME IInv, IInv', NEW c \in Calls, NEW k, Becomes(c, k),
         k.step \notin {"verified", "found"},
         Carried(k) \subseteq Issued \cup {None, Over}, token' \in Issued \cup {None},
         Used \subseteq Used', UNCHANGED <<rows, now>>
  PROVE  Ledger!Moves
  <1>1. Issued' \subseteq Issued
    BY NoneIssued
  <1>2. /\ Presented("verified")' \subseteq Presented("verified")
        /\ Presented("found")' \subseteq Presented("found")
    BY PresentedStep
  <1>3. Used' \subseteq Sids
    <2>1. nextSid' \in 0..MaxSessions
      BY DEF IInv, TypeOK
    <2>2. QED
      BY <2>1, BrowserAssumption DEF Used, Sids
  <1>4. QED
    BY <1>1, <1>2, <1>3, KnownAgain DEF Ledger!Moves

(***************************************************************************)
(* What a fetch that goes on may carry.                                    *)
(***************************************************************************)
LEMMA CarriedIssued ==
  ASSUME IInv, NEW c \in Calls
  PROVE  Carried(call[c]) \subseteq Issued \cup {None, Over}
  BY IssuedIs

LEMMA LoginMoves ==
  ASSUME IInv, IInv', NEW c \in Calls, Login(c) \/ Request(c) \/ Logout(c)
  PROVE  Ledger!Moves
  <1>1. PICK kind, user, t, step :
          /\ Send(c, kind, user, t, step)
          /\ t \in {token, None} /\ step \in {"post", "sent"}
    BY DEF Login, Request, Logout
  <1>2. PICK k : k = Sent(kind, user, t, step)
    OBVIOUS
  <1>3. Becomes(c, k) /\ call[c].step # "mint"
    BY <1>1, <1>2 DEF Send, Sent
  <1>4. k.step = step /\ k.step \notin {"mint", "verified", "found"} /\ Carried(k) = {t, None}
    BY <1>1, <1>2 DEF Sent, Carried
  <1>5. Carried(k) \subseteq Issued \cup {None, Over} /\ token \in Issued \cup {None}
    BY <1>1, <1>4, PresentedIssued
  <1>6. UNCHANGED <<token, rows, now, nextSid>>
    BY DEF Login, Request, Logout, client, server
  <1>7. Used \subseteq Used'
    BY <1>3, <1>4, <1>6, UsedStep
  <1>8. QED
    BY <1>3, <1>4, <1>5, <1>6, <1>7, MovesOn

LEMMA StartMoves ==
  ASSUME IInv, IInv', NEW c \in Calls, StartRow(c)
  PROVE  Ledger!Moves
  <1>1. PICK row : row = [sid |-> nextSid + 1, user |-> call[c].user, started |-> now]
    OBVIOUS
  <1>2. PICK k : k = [call[c] EXCEPT !.answer = row, !.step = "mint"]
    OBVIOUS
  <1>3. call[c] \in Call /\ call[c].step = "post" /\ call[c].token = None /\ nextSid \in Nat
    BY TabToken, BrowserAssumption DEF Shape, StartRow, ServerOK
  <1>4. Becomes(c, k) /\ nextSid' = nextSid + 1 /\ UNCHANGED <<token, rows, now>>
    BY <1>1, <1>2 DEF StartRow, Answer, client
  <1>5. k.step = "mint" /\ k.token = None /\ k.answer = row /\ row.sid = nextSid + 1
    BY <1>1, <1>2, <1>3 DEF Call
  <1>6. Carried(k) = {None}
    BY <1>5 DEF Carried
  <1>7. Used \subseteq Used'
    <2>1. /\ call'[c] = k /\ \A d \in Calls \ {c} : call'[d] = call[d]
      BY <1>4, OneCall
    <2>2. ASSUME NEW sid \in Used
          PROVE  sid \in Used'
      <3>1. sid \in 1..nextSid /\ \A d \in Calls : Minting(d) => call[d].answer.sid # sid
        BY <2>2 DEF Used
      <3>2. sid \in 1..nextSid' /\ sid # nextSid + 1
        BY <1>3, <1>4, <3>1
      <3>3. \A d \in Calls : Minting(d)' => call'[d].answer.sid # sid
        BY <1>5, <2>1, <3>1, <3>2 DEF Minting
      <3>4. QED
        BY <3>2, <3>3 DEF Used
    <2>3. QED
      BY <2>2
  <1>8. QED
    BY <1>4, <1>5, <1>6, <1>7, MovesOn, PresentedIssued

(***************************************************************************)
(* Refusals, and what the client does with answers and without them.       *)
(***************************************************************************)
LEMMA RefusalMoves ==
  ASSUME IInv, IInv', NEW c \in Calls, Verify(c) \/ Refuse(c), Respond(c, Over)
  PROVE  Ledger!Moves
  <1>1. PICK k : k = [call[c] EXCEPT !.answer = Over, !.step = "answered", !.token = None]
    OBVIOUS
  <1>2. call[c] \in Call /\ UNCHANGED <<token, rows, now, nextSid>>
    BY TabToken DEF Shape, Verify, Refuse, client, server
  <1>3. Becomes(c, k) /\ k.step = "answered" /\ Carried(k) = {None, Over}
    BY <1>1, <1>2 DEF Respond, Call, Carried
  <1>4. Used \subseteq Used'
    BY <1>2, <1>3, UsedStep
  <1>5. QED
    BY <1>2, <1>3, <1>4, MovesOn, PresentedIssued

LEMMA ResumeCarries ==
  ASSUME IInv, NEW c \in Calls, Resume(c) \/ Becomes(c, Idle)
  PROVE  \E k : /\ Becomes(c, k) /\ k.step \notin {"mint", "verified", "found"}
                /\ Carried(k) = {None}
  <1>1. Idle.step = "idle" /\ Carried(Idle) = {None}
    BY DEF Idle, Carried
  <1>2. PICK k : k = [Idle EXCEPT !.kind = "login", !.step = "derive", !.user = call[c].user]
    OBVIOUS
  <1>3. k.step = "derive" /\ Carried(k) = {None}
    BY <1>2 DEF Idle, Carried
  <1>4. Becomes(c, k) \/ Becomes(c, Idle)
    BY <1>2 DEF Resume
  <1>5. QED
    BY <1>1, <1>3, <1>4

LEMMA SettleMoves ==
  ASSUME IInv, IInv', NEW c \in Calls, Settle(c)
  PROVE  Ledger!Moves
  <1>1. UNCHANGED <<rows, now, nextSid>>
    BY DEF Settle, BeginSession, Deliver, Lost, DeriveKey, server
  <1>2. CASE BeginSession(c)
    <2>1. call[c] \in Call /\ call[c].step = "granted" /\ call[c].answer \in Token
      BY <1>2, TabToken DEF Shape, BeginSession
    <2>2. PICK t : t = call[c].answer
      OBVIOUS
    <2>3. t \in Issued
      BY <2>1, <2>2, IssuedIs, BrowserAssumption DEF Carried
    <2>4. PICK k : k = [call[c] EXCEPT !.step = "sent", !.token = t, !.answer = None]
      OBVIOUS
    <2>5. Becomes(c, k) /\ k.step = "sent" /\ Carried(k) = {t, None} /\ token' = t
      BY <1>2, <2>1, <2>2, <2>4 DEF BeginSession, Call, Carried
    <2>6. Used \subseteq Used'
      BY <1>1, <2>5, UsedStep
    <2>7. QED
      BY <1>1, <2>3, <2>5, <2>6, MovesOn
  <1>3. CASE Deliver(c) \/ Lost(c) \/ DeriveKey(c)
    <2>1. PICK k : /\ Becomes(c, k) /\ k.step \notin {"mint", "verified", "found"}
                   /\ Carried(k) = {None}
      BY <1>3, ResumeCarries DEF Deliver, Lost, DeriveKey
    <2>2. Used \subseteq Used'
      BY <1>1, <2>1, UsedStep
    <2>3. token' \in Issued \cup {None}
      <3>1. token \in Issued \cup {None}
        BY PresentedIssued
      <3>2. CASE Lost(c) \/ DeriveKey(c)
        BY <3>1, <3>2 DEF Lost, DeriveKey, EndSession, client
      <3>3. CASE Deliver(c)
        <4>1. call[c].answer \in Token \cup {Over} /\ call[c].answer \in Carried(call[c])
          BY <3>3, TabToken DEF Shape, Deliver, Carried
        <4>2. call[c].answer # Over => call[c].answer \in Issued
          BY <4>1, IssuedIs, BrowserAssumption
        <4>3. QED
          BY <3>1, <3>3, <4>2 DEF Deliver, EndSession, Capture
      <3>4. QED
        BY <1>3, <3>2, <3>3
    <2>4. QED
      BY <1>1, <2>1, <2>2, <2>3, MovesOn
  <1>4. QED
    BY <1>2, <1>3 DEF Settle

LEMMA LockMoves ==
  ASSUME IInv, IInv', AutoLock \/ Reload
  PROVE  Ledger!Moves
  <1>1. token' = None /\ UNCHANGED <<rows, now, nextSid>>
    BY DEF AutoLock, Reload, EndSession, server
  <1>2. \A c \in Calls : call'[c] = call[c] \/ call'[c] = Idle
    BY DEF AutoLock, Reload
  <1>3. Idle.step = "idle" /\ Carried(Idle) = {None}
    BY DEF Idle, Carried
  <1>4. Issued' \subseteq Issued
    BY <1>1, <1>2, <1>3, IssuedIs
  <1>5. /\ Presented("verified")' \subseteq Presented("verified")
        /\ Presented("found")' \subseteq Presented("found")
    BY <1>2, <1>3, PresentedIs
  <1>6. Used \subseteq Used' /\ Used' \subseteq Sids
    <2>1. nextSid' \in 0..MaxSessions
      BY DEF IInv, TypeOK
    <2>2. Used \subseteq Used'
      BY <1>1, <1>2, <1>3 DEF Used, Minting
    <2>3. QED
      BY <2>1, <2>2, BrowserAssumption DEF Used, Sids
  <1>7. QED
    BY <1>1, <1>4, <1>5, <1>6, KnownAgain DEF Ledger!Moves

-----------------------------------------------------------------------------
(***************************************************************************)
(* A fetch that carries on what it carries: presented, then found.         *)
(***************************************************************************)
LEMMA GoesOn ==
  ASSUME IInv, NEW c \in Calls, NEW step \in {"verified", "found"},
         call[c].step \in {"sent", "verified"}, call[c].step # step,
         Goto(c, step), UNCHANGED <<client, server, now>>
  PROVE  /\ UNCHANGED <<token, Issued, rows, Used, now>>
         /\ call[c].token \in Issued
         /\ Presented(step)' = Presented(step) \cup {call[c].token}
         /\ \A other \in {"verified", "found"} \ {step} :
              /\ Presented(other)' \subseteq Presented(other)
              /\ call[c].step # other => Presented(other)' = Presented(other)
  <1>1. PICK k : k = [call[c] EXCEPT !.step = step]
    OBVIOUS
  <1>2. /\ call[c] \in Call /\ call[c].token \in Token /\ call[c].answer = None
      BY TabToken DEF Shape
  <1>3. Becomes(c, k) /\ UNCHANGED <<token, rows, nextSid, now>>
    BY <1>1 DEF Goto, client, server
  <1>4. k.step = step /\ k.token = call[c].token /\ k.answer = None
    BY <1>1, <1>2 DEF Call
  <1>5. Carried(k) = Carried(call[c])
    BY <1>2, <1>4 DEF Carried
  <1>6. /\ call'[c] = k /\ \A d \in Calls \ {c} : call'[d] = call[d]
    BY <1>3, OneCall
  <1>7. \A t : t \in Issued' <=> t \in Issued
    BY <1>3, <1>5, <1>6, IssuedIs
  <1>8. call[c].token \in Issued
    BY <1>2, IssuedIs, BrowserAssumption DEF Carried
  <1>9. Used' = Used
    BY <1>3, <1>4, UsedStep
  <1>10. Issued' = Issued
    BY <1>7
  <1>11. QED
    BY <1>3, <1>4, <1>8, <1>9, <1>10, PresentedStep

LEMMA VerifyAccepts ==
  ASSUME IInv, IInv', NEW c \in Calls, Verify(c)
  PROVE  Ledger!Next
  <1>1. CASE Valid(call[c].token)
    <2>1. call[c].step = "sent" /\ Goto(c, "verified") /\ UNCHANGED <<client, server, now>>
      BY <1>1 DEF Verify
    <2>2. Ledger!Accepts(call[c].token) /\ call[c].token \in Issued
      BY <1>1, <2>1, GoesOn DEF Ledger!Accepts, Valid
    <2>3. QED
      BY <2>2 DEF Ledger!Next
  <1>2. CASE ~Valid(call[c].token)
    BY <1>2, RefusalMoves DEF Verify, Ledger!Next
  <1>3. QED
    BY <1>1, <1>2

LEMMA LookUpFinds ==
  ASSUME IInv, NEW c \in Calls, LookUp(c)
  PROVE  Ledger!Next
  <1>1. call[c].step = "verified" /\ Goto(c, "found") /\ UNCHANGED <<client, server, now>>
    BY DEF LookUp
  <1>2. call[c].token \in Presented("verified")
    BY <1>1, PresentedIs
  <1>3. Ledger!Finds(call[c].token)
    BY <1>1, GoesOn DEF Ledger!Finds, LookUp, Live
  <1>4. QED
    BY <1>2, <1>3 DEF Ledger!Next

(***************************************************************************)
(* What mint makes is what the ledger makes.                               *)
(***************************************************************************)
LEMMA MintIsMade ==
  ASSUME NEW sid, NEW user, NEW started \in Nat, now \in Nat
  PROVE  Mint(sid, user, started) = Ledger!Made(sid, user, started)
  <1>1. now + Least(TTL, Cap - (now - started)) = Ledger!Ends(started)
    BY BrowserAssumption DEF Least, Ledger!Ends
  <1>2. QED
    BY <1>1 DEF Mint, Ledger!Made

LEMMA AdmitRenews ==
  ASSUME IInv, IInv', NEW c \in Calls, Admit(c)
  PROVE  Ledger!Next
  <1>1. /\ call[c] \in Call /\ call[c].step = "found" /\ call[c].token \in Token
        /\ now \in Nat /\ UNCHANGED <<client, server, now>>
    BY TabToken, BrowserAssumption DEF Shape, Admit, ServerOK
  <1>2. PICK t : t = call[c].token
    OBVIOUS
  <1>3. t \in Presented("found") /\ t \in Token /\ t.started \in Nat
    BY <1>1, <1>2, PresentedIs DEF Token
  <1>4. PICK n : n = Renewed(t)
    OBVIOUS
  <1>5. n = Ledger!Made(t.sid, t.user, t.started)
    BY <1>1, <1>3, <1>4, MintIsMade DEF Renewed
  <1>6. n \in Token
    <2>1. t \in Issued /\ TokenOK(t) /\ ServerOK
      BY <1>3, PresentedIssued, TabToken
    <2>2. now - t.started < Cap
      BY <1>2 DEF Admit
    <2>3. QED
      BY <1>3, <1>4, <2>1, <2>2, RenewedIsGood
  <1>7. PICK k : /\ Becomes(c, k) /\ k.step \in {"revoking", "answered"}
                 /\ n \in Carried(k) /\ Carried(k) \subseteq {t, n, None}
    <2>1. CASE call[c].kind = "logout"
      <3>1. PICK k : k = [call[c] EXCEPT !.answer = n, !.step = "revoking"]
        OBVIOUS
      <3>2. Becomes(c, k) /\ k.step = "revoking" /\ Carried(k) = {t, n}
        BY <1>1, <1>2, <1>4, <2>1, <3>1 DEF Admit, Answer, Call, Carried
      <3>3. QED
        BY <3>2
    <2>2. CASE call[c].kind # "logout"
      <3>1. PICK k : k = [call[c] EXCEPT !.answer = n, !.step = "answered", !.token = None]
        OBVIOUS
      <3>2. Becomes(c, k) /\ k.step = "answered" /\ Carried(k) = {None, n}
        BY <1>1, <1>2, <1>4, <2>2, <3>1 DEF Admit, Respond, Call, Carried
      <3>3. QED
        BY <3>2
    <2>3. QED
      BY <2>1, <2>2
  <1>8. UNCHANGED <<token, rows, nextSid, now>>
    BY <1>1 DEF client, server
  <1>9. n \in Issued' /\ Issued' \subseteq Issued \cup {n}
    <2>1. /\ call'[c] = k /\ \A d \in Calls \ {c} : call'[d] = call[d]
      BY <1>7, OneCall
    <2>2. n \in Issued'
      BY <1>6, <1>7, <2>1, IssuedIs, BrowserAssumption
    <2>3. t \in Issued
      BY <1>3, PresentedIssued
    <2>4. Issued' \subseteq Issued \cup {n}
      BY <1>7, <1>8, <2>1, <2>3, IssuedIs
    <2>5. QED
      BY <2>2, <2>4
  <1>10. /\ Presented("found")' \subseteq Presented("found")
         /\ Presented("verified")' = Presented("verified")
    BY <1>1, <1>7, PresentedStep
  <1>11. Used' = Used
    BY <1>1, <1>7, <1>8, UsedStep
  <1>12. now < t.started + Cap
    BY <1>1, <1>2, <1>3, BrowserAssumption DEF Admit
  <1>13. Ledger!Renews(t)
    BY <1>5, <1>8, <1>9, <1>10, <1>11, <1>12, KnownAgain DEF Ledger!Renews
  <1>14. QED
    BY <1>3, <1>13 DEF Ledger!Next

-----------------------------------------------------------------------------
(***************************************************************************)
(* Sessions are closed and opened, and time passes.                        *)
(***************************************************************************)
LEMMA RevokeCloses ==
  ASSUME IInv, IInv', NEW c \in Calls, Revoke(c)
  PROVE  Ledger!Closes
  <1>1. call[c] \in Call /\ call[c].step = "revoking"
    BY TabToken DEF Shape, Revoke
  <1>2. PICK k : k = [call[c] EXCEPT !.answer = call[c].answer, !.step = "answered", !.token = None]
    OBVIOUS
  <1>3. Becomes(c, k) /\ rows' \subseteq rows /\ UNCHANGED <<token, nextSid, now>>
    BY <1>2 DEF Revoke, Respond, client
  <1>4. k.step = "answered" /\ Carried(k) = {None, call[c].answer}
    BY <1>1, <1>2 DEF Call, Carried
  <1>5. call[c].answer \in Carried(call[c])
    BY <1>1 DEF Carried
  <1>6. Issued' \subseteq Issued
    BY <1>3, <1>4, <1>5, CarriedIssued, NoneIssued, PresentedIssued
  <1>7. /\ Presented("found")' = Presented("found")
        /\ Presented("verified")' = Presented("verified")
        /\ Used' = Used
    BY <1>1, <1>3, <1>4, PresentedStep, UsedStep
  <1>8. QED
    BY <1>3, <1>6, <1>7, KnownAgain DEF Ledger!Closes

LEMMA ResetCloses ==
  ASSUME IInv, IInv', NEW u \in Users, ResetElsewhere(u)
  PROVE  Ledger!Closes
  <1>1. rows' \subseteq rows /\ UNCHANGED <<token, call, nextSid, now>>
    BY DEF ResetElsewhere, client
  <1>2. UNCHANGED <<Issued, Presented("found"), Presented("verified"), Used>>
    BY <1>1 DEF Issued, InFlight, Presented, Used, Minting
  <1>3. QED
    BY <1>1, <1>2, KnownAgain DEF Ledger!Closes

LEMMA GrantOpens ==
  ASSUME IInv, NEW c \in Calls, Grant(c)
  PROVE  Ledger!Next
  <1>1. /\ call[c] \in Call /\ call[c].step = "mint" /\ call[c].token = None
        /\ call[c].answer \in Row /\ MintOK(c) /\ now \in Nat /\ nextSid \in Nat
    BY TabToken, BrowserAssumption DEF Shape, Grant, IInv, CallsInv, Minting, ServerOK
  <1>2. PICK row : row = call[c].answer
    OBVIOUS
  <1>3. /\ row = [sid |-> row.sid, user |-> row.user, started |-> row.started]
        /\ row.sid \in Sids /\ row.user \in Users /\ row.started \in Nat
        /\ row.sid <= nextSid /\ row.started <= now
        /\ \A d \in Calls \ {c} : Minting(d) => call[d].answer.sid # row.sid
    BY <1>1, <1>2 DEF Row, MintOK
  <1>4. PICK n : n = Mint(row.sid, row.user, now)
    OBVIOUS
  <1>5. n = Ledger!Made(row.sid, row.user, now)
    BY <1>1, <1>4, MintIsMade
  <1>6. n \in Token
    <2>1. now - now < Cap
      BY <1>1, BrowserAssumption
    <2>2. QED
      BY <1>1, <1>3, <1>4, <2>1, MintType
  <1>7. PICK k : k = [call[c] EXCEPT !.answer = n, !.step = "granted"]
    OBVIOUS
  <1>8. /\ Becomes(c, k) /\ rows' = rows \cup {row} /\ UNCHANGED <<token, nextSid, now>>
    BY <1>2, <1>4, <1>7 DEF Grant, Answer, client
  <1>9. k.step = "granted" /\ Carried(k) = {None, n} /\ Carried(call[c]) = {None}
    BY <1>1, <1>7 DEF Call, Carried
  <1>10. /\ call'[c] = k /\ \A d \in Calls \ {c} : call'[d] = call[d]
    BY <1>8, OneCall
  <1>11. \A t : t \in Issued' <=> t \in Issued \/ t = n
    BY <1>6, <1>8, <1>9, <1>10, IssuedIs, BrowserAssumption
  <1>12. Issued' = Issued \cup {n}
    BY <1>11
  <1>13. /\ Presented("found")' = Presented("found")
         /\ Presented("verified")' = Presented("verified")
    BY <1>1, <1>8, <1>9, PresentedStep
  <1>14. row.sid \notin Used
    BY <1>1, <1>2 DEF Used, Minting
  <1>15. ASSUME NEW sid
         PROVE  sid \in Used' <=> sid \in Used \/ sid = row.sid
    <2>1. row.sid \in 1..nextSid
      BY <1>1, <1>3 DEF Sids
    <2>2. \A d \in Calls : Minting(d)' <=> d # c /\ Minting(d)
      BY <1>9, <1>10 DEF Minting
    <2>3. CASE sid = row.sid
      BY <1>3, <1>8, <1>10, <2>1, <2>2, <2>3 DEF Used
    <2>4. CASE sid # row.sid
      BY <1>1, <1>2, <1>8, <1>10, <2>2, <2>4 DEF Used
    <2>5. QED
      BY <2>3, <2>4
  <1>16. Used' = Used \cup {row.sid}
    BY <1>15
  <1>17. row.started \in 0..now
    BY <1>1, <1>3
  <1>18. Ledger!Opens(row.sid, row.user)
    BY <1>3, <1>5, <1>8, <1>12, <1>13, <1>14, <1>16, <1>17 DEF Ledger!Opens
  <1>19. QED
    BY <1>3, <1>18 DEF Ledger!Next

LEMMA TickAges ==
  ASSUME Tick
  PROVE  Ledger!Ages
  <1>1. UNCHANGED <<token, call, rows, nextSid>> /\ now' = now + 1
    BY DEF Tick, client, server
  <1>2. UNCHANGED <<Issued, Presented("found"), Presented("verified"), Used>>
    BY <1>1 DEF Issued, InFlight, Presented, Used, Minting
  <1>3. QED
    BY <1>1, <1>2 DEF Ledger!Ages

LEMMA LedgerInit == Init => Ledger!Init
  <1> SUFFICES ASSUME Init PROVE Ledger!Init
    OBVIOUS
  <1>1. \A c \in Calls : call[c].step = "idle" /\ Carried(call[c]) = {None}
    BY DEF Init, Idle, Carried
  <1>2. Issued = {} /\ Presented("verified") = {} /\ Presented("found") = {}
    BY <1>1, IssuedIs, PresentedIs DEF Init
  <1>3. Used = {}
    BY DEF Init, Used
  <1>4. QED
    BY <1>2, <1>3 DEF Init, Ledger!Init

LEMMA LedgerNext == IInv /\ IInv' /\ [Next]_vars => [Ledger!Next]_Abstract
  <1> SUFFICES ASSUME IInv, IInv', [Next]_vars PROVE Ledger!Next \/ UNCHANGED Abstract
    OBVIOUS
  <1>1. ASSUME NEW c \in Calls,
               Login(c) \/ Request(c) \/ Logout(c) \/ Serve(c) \/ Settle(c)
        PROVE  Ledger!Next
    <2>1. CASE Login(c) \/ Request(c) \/ Logout(c)
      BY <2>1, LoginMoves DEF Ledger!Next
    <2>2. CASE StartRow(c)
      BY <2>2, StartMoves DEF Ledger!Next
    <2>3. CASE Refuse(c)
      BY <2>3, RefusalMoves DEF Refuse, Ledger!Next
    <2>4. CASE Revoke(c)
      BY <2>4, RevokeCloses DEF Ledger!Next
    <2>5. CASE Grant(c) \/ Verify(c) \/ LookUp(c) \/ Admit(c)
      BY <2>5, GrantOpens, VerifyAccepts, LookUpFinds, AdmitRenews
    <2>6. CASE Settle(c)
      BY <2>6, SettleMoves DEF Ledger!Next
    <2>7. QED
      BY <1>1, <2>1, <2>2, <2>3, <2>4, <2>5, <2>6 DEF Serve
  <1>2. CASE \E u \in Users : ResetElsewhere(u)
    BY <1>2, ResetCloses DEF Ledger!Next
  <1>3. CASE AutoLock \/ Reload \/ Tick
    BY <1>3, LockMoves, TickAges DEF Ledger!Next
  <1>4. CASE UNCHANGED vars
    BY <1>4 DEF vars, Abstract, Issued, InFlight, Presented, Used, Minting
  <1>5. QED
    BY <1>1, <1>2, <1>3, <1>4 DEF Next

(***************************************************************************)
(* Browser implements SessionLedger: however the answers of any number of  *)
(* fetches overtake each other, are lost, or outlive the logout, the tab   *)
(* holds a token that was made for it, and a token is renewed only if it   *)
(* was presented in time and its session found.                            *)
(***************************************************************************)
THEOREM BrowserImplementsLedger == Spec => LedgerSpec
  BY LedgerInit, LedgerNext, Invariance, PTL DEF Spec, LedgerSpec, Ledger!Spec, Ledger!ledger, Abstract

(***************************************************************************)
(* What that means for a session that has ended, of the ledger's steps.    *)
(***************************************************************************)
EndedInLedger(sid) == sid \in Used /\ \A x \in rows : x.sid # sid

LEMMA LedgerRevokes ==
  ASSUME IInv, Ledger!Next \/ UNCHANGED Abstract
  PROVE  /\ \A sid \in Sids : EndedInLedger(sid) => EndedInLedger(sid)'
         /\ \A t \in Presented("found")' \ Presented("found") : ~EndedInLedger(t.sid)
         /\ \A t \in Issued' \ Issued :
              EndedInLedger(t.sid) => \E f \in Presented("found") : f.sid = t.sid
  <1>1. CASE \E sid \in Sids, user \in Users : Ledger!Opens(sid, user)
    <2>1. PICK sid \in Sids, user \in Users : Ledger!Opens(sid, user)
      BY <1>1
    <2>2. PICK s \in 0..now : rows' = rows \cup {[sid |-> sid, user |-> user, started |-> s]}
      BY <2>1 DEF Ledger!Opens
    <2>3. Ledger!Made(sid, user, now).sid = sid
      BY DEF Ledger!Made
    <2>4. QED
      BY <2>1, <2>2, <2>3 DEF Ledger!Opens, EndedInLedger
  <1>2. CASE \E t \in Issued : Ledger!Accepts(t)
    BY <1>2 DEF Ledger!Accepts, EndedInLedger
  <1>3. CASE \E t \in Presented("verified") : Ledger!Finds(t)
    BY <1>3 DEF Ledger!Finds, EndedInLedger
  <1>4. CASE \E t \in Presented("found") : Ledger!Renews(t)
    <2>1. PICK t \in Presented("found") : Ledger!Renews(t)
      BY <1>4
    <2>2. Ledger!Made(t.sid, t.user, t.started).sid = t.sid
      BY DEF Ledger!Made
    <2>3. QED
      BY <2>1, <2>2 DEF Ledger!Renews, EndedInLedger
  <1>5. CASE Ledger!Moves \/ Ledger!Closes \/ Ledger!Ages
    BY <1>5 DEF Ledger!Moves, Ledger!Closes, Ledger!Ages, EndedInLedger
  <1>6. CASE UNCHANGED Abstract
    BY <1>6 DEF Abstract, EndedInLedger
  <1>7. QED
    BY <1>1, <1>2, <1>3, <1>4, <1>5, <1>6 DEF Ledger!Next

LEMMA EndedAgrees ==
  /\ IInv => \A sid \in Sids : Ended(sid) <=> EndedInLedger(sid)
  /\ IInv' => \A sid \in Sids : Ended(sid)' <=> EndedInLedger(sid)'
  BY BrowserAssumption DEF Ended, EndedInLedger, Used, Sids, IInv, TypeOK

(***************************************************************************)
(* Every token there is, after a step, is one of a session number.         *)
(***************************************************************************)
LEMMA PresentedIssuedNext ==
  IInv' => Issued' \subseteq Token /\ Presented("found")' \subseteq Issued'
  <1> SUFFICES ASSUME IInv'
               PROVE  Issued' \subseteq Token /\ Presented("found")' \subseteq Issued'
    OBVIOUS
  <1>1. \A c \in Calls : Shape(call'[c])
    BY DEF IInv, CallsInv
  <1>2. token' \in Token \cup {None}
    BY DEF IInv, TypeOK
  <1>3. Issued' \subseteq Token
    BY <1>1, <1>2, IssuedIs, CarriedTokens
  <1>4. Presented("found")' \subseteq Issued'
    BY KnownAgain DEF Ledger!Known
  <1>5. QED
    BY <1>3, <1>4

(***************************************************************************)
(* isRevoked, ports/sessions.js: a session whose row is gone has ended for *)
(* good, whatever is under way, and only a request that found it before is *)
(* still answered with a new token of it.                                  *)
(***************************************************************************)
THEOREM SessionsEndForGood == Spec => RevokedForGood
  <1>1. ASSUME IInv, IInv', [Next]_vars
        PROVE  /\ \A sid \in Sids : Ended(sid) => Ended(sid)'
               /\ \A t \in Presented("found")' \ Presented("found") : ~Ended(t.sid)
               /\ \A t \in Issued' \ Issued :
                    Ended(t.sid) => \E f \in Presented("found") : f.sid = t.sid
    <2>1. Ledger!Next \/ UNCHANGED Abstract
      BY <1>1, LedgerNext
    <2>2. \A t \in Issued' : t.sid \in Sids
      <3>1. Issued' \subseteq Token
        BY <1>1, PresentedIssuedNext
      <3>2. QED
        BY <3>1 DEF Token
    <2>3. Presented("found")' \subseteq Issued'
      BY <1>1, PresentedIssuedNext
    <2>4. QED
      BY <1>1, <2>1, <2>2, <2>3, LedgerRevokes, EndedAgrees
  <1>2. QED
    BY <1>1, Invariance, PTL DEF Spec, RevokedForGood
==============================================================================
