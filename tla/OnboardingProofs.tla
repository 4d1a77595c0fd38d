-------------------------- MODULE OnboardingProofs --------------------------
(***************************************************************************)
(* Proofs about Onboarding, for any number of tabs, requests, addresses    *)
(* and passwords.                                                          *)
(*                                                                         *)
(* The invariant says what each request under way stands on: an insertion  *)
(* on a number and an address nobody has, an enrolment or a confirmation   *)
(* on a user it verified, a page on the one request it waits for.  None of *)
(* it is taken back, for users are never deleted here and a secret is only *)
(* replaced by a later one.                                                *)
(***************************************************************************)
EXTENDS Onboarding, TLAPS

(* A number and an address of its own for each account that is inserted.    *)
Newcomer(q) ==
  /\ q.user \in Ids /\ q.user < nextUser
  /\ \A u \in users : u.id # q.user /\ u.email # q.email

Newcomers ==
  /\ \A c \in Calls : call[c].step = "inserted" => Newcomer(call[c])
  /\ \A c, d \in Calls :
       call[c].step = "inserted" /\ call[d].step = "inserted" /\ c # d =>
         call[c].user # call[d].user /\ call[c].email # call[d].email

AccountInv ==
  /\ nextUser > 0 /\ \A u \in users : u.id < nextUser
  /\ AccountsAreWhole
  /\ Newcomers

(* Without a race a confirmation enables the secret its code was for.       *)
EnableOK(q) ==
  q.step = "enable" =>
    /\ q.user \in Ids /\ q.secret \in Secrets
    /\ q.user \notin raced =>
         /\ config[q.user].secret = q.secret
         /\ q.enables \/ config[q.user].enabled

FactorInv ==
  /\ nextSecret > 0
  /\ \A i \in Ids : config[i].secret # None => config[i].secret < nextSecret
  /\ EnabledUnlessRaced
  /\ \A c \in Calls : EnableOK(call[c])

Owner(q) ==
  \E u \in users : u.id = q.user /\ u.email = q.email /\ u.password = q.password

Holds(e, p, s) ==
  /\ s \in Secrets
  /\ \E u \in users : /\ u.email = e /\ u.password = p
                      /\ config[u.id].secret \in Secrets /\ config[u.id].secret >= s

Formed(q) ==
  /\ q.step # "idle" => q.tab \in Tabs
  /\ q.step # "idle" /\ q.kind = "register" => q.email \in Emails /\ q.password \in Passwords
  /\ q.step \in {"hashed", "inserted"} => q.kind = "register"
  /\ q.step = "upsert" => q.kind = "enroll"

Told(q) ==
  q.step = "answered" =>
    /\ q.answer = "created" => Registered(q.email)
    /\ q.answer = "taken" => Registered(q.email)
    /\ q.answer = "secret" => q.kind = "enroll" /\ Holds(q.email, q.password, q.secret)

CallOK(q) ==
  /\ Formed(q) /\ Told(q)
  /\ q.step \in {"upsert", "enable"} => Owner(q)

CallInv == \A c \in Calls : CallOK(call[c])

(* A page waits for one request, which has what is filled in.               *)
Awaits(c, t) == call[c].step # "idle" /\ call[c].live /\ call[c].tab = t

Shown(p) ==
  /\ p.error = "taken" => Registered(p.email)
  /\ p.page = "setup1" /\ p.email # None /\ p.password = None => Registered(p.email)
  /\ p.page = "setup2" => Holds(p.email, p.password, p.secret)

TabInv ==
  /\ \A t \in Tabs : Shown(tab[t])
  /\ \A t \in Tabs, c \in Calls : Awaits(c, t) =>
       /\ tab[t].submitting
       /\ tab[t].email = call[c].email
       /\ call[c].kind = "enroll" => tab[t].password = call[c].password
  /\ \A t \in Tabs, c, d \in Calls : Awaits(c, t) /\ Awaits(d, t) => c = d

IInv == TypeOK /\ AccountInv /\ FactorInv /\ CallInv /\ TabInv

(***************************************************************************)
(* Types.                                                                  *)
(***************************************************************************)
LEMMA CallTypes ==
  ASSUME TypeOK, NEW c \in Calls
  PROVE  /\ call[c] \in Call
         /\ call[c].step \in Steps /\ call[c].kind \in {"register", "enroll", "confirm"}
         /\ call[c].tab \in Tabs \cup {None} /\ call[c].live \in BOOLEAN
         /\ call[c].email \in Emails \cup {None}
         /\ call[c].password \in Passwords \cup {None}
         /\ call[c].user \in Ids \cup {None} /\ call[c].secret \in Secrets \cup {None}
         /\ call[c].enables \in BOOLEAN /\ call[c].answer \in Answers
  BY DEF TypeOK, Call

LEMMA TabTypes ==
  ASSUME TypeOK, NEW t \in Tabs
  PROVE  /\ tab[t] \in Tab
         /\ tab[t].page \in {"signup", "setup1", "setup2", "vault", "elsewhere"}
         /\ tab[t].email \in Emails \cup {None}
         /\ tab[t].password \in Passwords \cup {None}
         /\ tab[t].secret \in Secrets \cup {None}
         /\ tab[t].submitting \in BOOLEAN /\ tab[t].error \in Answers
  BY DEF TypeOK, Tab

LEMMA IdleType ==
  /\ Idle \in Call /\ Idle.step = "idle" /\ Idle.kind = "register" /\ Idle.answer = "none"
  /\ Idle.live = FALSE
  BY DEF Idle, Call, Steps, Answers

LEMMA MountedType ==
  ASSUME NEW page \in {"signup", "setup1", "setup2", "vault", "elsewhere"}
  PROVE  /\ Mounted(page) \in Tab /\ Mounted(page).page = page
         /\ Mounted(page).email = None /\ Mounted(page).error = "none"
  BY DEF Mounted, Tab, Answers

LEMMA InitInv == Init => IInv
  <1> SUFFICES ASSUME Init PROVE IInv
    OBVIOUS
  <1>1. TypeOK
    BY IdleType, MountedType, OnboardingAssumption DEF Init, TypeOK, NoRow, Config
  <1>2. /\ \A c \in Calls : call[c].step = "idle"
        /\ \A t \in Tabs : tab[t] = Mounted("elsewhere")
        /\ \A i \in Ids : config[i].secret = None /\ ~config[i].enabled
    BY IdleType DEF Init, NoRow
  <1>3. AccountInv
    BY <1>2 DEF Init, AccountInv, AccountsAreWhole, Newcomers
  <1>4. FactorInv
    BY <1>2 DEF Init, FactorInv, EnabledUnlessRaced, EnableOK
  <1>5. CallInv
    BY <1>2 DEF CallInv, CallOK, Formed, Told
  <1>6. TabInv
    BY <1>2, MountedType DEF TabInv, Shown, Awaits
  <1>7. QED
    BY <1>1, <1>3, <1>4, <1>5, <1>6 DEF IInv

(***************************************************************************)
(* What a step keeps.  What was promised stays so: users are only added,   *)
(* secrets only replaced by later ones.                                    *)
(***************************************************************************)
Grows ==
  /\ users \subseteq users'
  /\ \A i \in Ids : config[i].secret \in Secrets =>
       config'[i].secret \in Secrets /\ config'[i].secret >= config[i].secret

LEMMA PromisesStay ==
  ASSUME TypeOK, Grows
  PROVE  /\ \A e : Registered(e) => Registered(e)'
         /\ \A e, p, s : Holds(e, p, s) => Holds(e, p, s)'
         /\ \A q : Owner(q) => Owner(q)'
         /\ \A q : CallOK(q) => CallOK(q)'
         /\ \A p : Shown(p) => Shown(p)'
  <1>1. \A e : Registered(e) => Registered(e)'
    BY DEF Grows, Registered
  <1>2. \A e, p, s : Holds(e, p, s) => Holds(e, p, s)'
    <2> SUFFICES ASSUME NEW e, NEW p, NEW s, Holds(e, p, s) PROVE Holds(e, p, s)'
      OBVIOUS
    <2>1. PICK u \in users : /\ u.email = e /\ u.password = p /\ s \in Secrets
                             /\ config[u.id].secret \in Secrets /\ config[u.id].secret >= s
      BY DEF Holds
    <2>2. u.id \in Ids /\ u \in users'
      BY DEF TypeOK, User, Grows
    <2>3. config'[u.id].secret \in Secrets /\ config'[u.id].secret >= config[u.id].secret
      BY <2>1, <2>2 DEF Grows
    <2>4. config'[u.id].secret >= s
      BY <2>1, <2>3, OnboardingAssumption DEF Secrets
    <2>5. QED
      BY <2>1, <2>2, <2>3, <2>4 DEF Holds
  <1>3. \A q : Owner(q) => Owner(q)'
    BY DEF Grows, Owner
  <1>4. \A q : CallOK(q) => CallOK(q)'
    BY <1>1, <1>2, <1>3 DEF CallOK, Formed, Told
  <1>5. \A p : Shown(p) => Shown(p)'
    BY <1>1, <1>2 DEF Shown
  <1>6. QED
    BY <1>1, <1>2, <1>3, <1>4, <1>5

LEMMA AccountsStay ==
  ASSUME AccountInv, UNCHANGED accounts,
         \A c \in Calls : call'[c].step = "inserted" =>
           /\ call[c].step = "inserted"
           /\ call'[c].user = call[c].user /\ call'[c].email = call[c].email
  PROVE  AccountInv'
  BY DEF AccountInv, AccountsAreWhole, Newcomers, Newcomer, accounts

LEMMA FactorsStay ==
  ASSUME FactorInv, UNCHANGED factors,
         \A c \in Calls : EnableOK(call[c]) => EnableOK(call'[c])
  PROVE  FactorInv'
  BY DEF FactorInv, EnabledUnlessRaced, EnableOK, factors

(***************************************************************************)
(* A step of the server in the service of one request: the tabs do not     *)
(* notice, and the other requests stand on what they stood on.             *)
(***************************************************************************)
LEMMA ServerStep ==
  ASSUME IInv, Grows, UNCHANGED tab, TypeOK', NEW c \in Calls, NEW q,
         call' = [call EXCEPT ![c] = q],
         call[c].step # "idle", q.step # "idle",
         q.kind = call[c].kind, q.tab = call[c].tab, q.live = call[c].live,
         q.email = call[c].email, q.password = call[c].password,
         CallOK(q)', AccountInv', FactorInv'
  PROVE  IInv'
  <1>1. TypeOK /\ CallInv /\ TabInv
    BY DEF IInv
  <1>2. call'[c] = q /\ \A d \in Calls : d # c => call'[d] = call[d]
    BY <1>1 DEF TypeOK
  <1>3. CallInv'
    <2>1. ASSUME NEW d \in Calls PROVE CallOK(call[d])'
      <3>1. PICK r : r = call[d]'
        OBVIOUS
      <3>2. CASE d = c
        <4>1. r = q
          BY <1>2, <3>1, <3>2
        <4>2. QED
          BY <3>1, <4>1 DEF CallOK, Formed, Told, Owner
      <3>3. CASE d # c
        <4>1. r = call[d] /\ CallOK(r)
          BY <1>1, <1>2, <3>1, <3>3 DEF CallInv
        <4>2. CallOK(r)'
          BY <1>1, <4>1, PromisesStay
        <4>3. QED
          BY <3>1, <4>2 DEF CallOK, Formed, Told, Owner
      <3>4. QED
        BY <3>2, <3>3
    <2>2. QED
      BY <2>1 DEF CallInv
  <1>4. TabInv'
    <2>1. \A t \in Tabs, d \in Calls : Awaits(d, t)' => Awaits(d, t)
      BY <1>2 DEF Awaits
    <2>2. ASSUME NEW t \in Tabs PROVE Shown(tab[t])'
      <3>1. PICK p : p = tab[t] /\ p = tab'[t] /\ Shown(p)
        BY <1>1 DEF TabInv
      <3>2. Shown(p)'
        BY <1>1, <3>1, PromisesStay
      <3>3. QED
        BY <3>1, <3>2 DEF Shown
    <2>3. \A d \in Calls : /\ call'[d].email = call[d].email
                           /\ call'[d].password = call[d].password
                           /\ call'[d].kind = call[d].kind
      BY <1>2
    <2>4. QED
      BY <1>1, <2>1, <2>2, <2>3 DEF TabInv
  <1>5. QED
    BY <1>3, <1>4 DEF IInv

(***************************************************************************)
(* The request takes a next step: its fields but those named stay.         *)
(***************************************************************************)
SameRequest(q, r) ==
  /\ q.kind = r.kind /\ q.tab = r.tab /\ q.live = r.live
  /\ q.email = r.email /\ q.password = r.password

LEMMA AnswerWhat ==
  ASSUME TypeOK, NEW c \in Calls, NEW a \in Answers, Answer(c, a)
  PROVE  \E q \in Call : /\ call' = [call EXCEPT ![c] = q]
                         /\ SameRequest(q, call[c])
                         /\ q.step = "answered" /\ q.answer = a
                         /\ q.secret = call[c].secret
  <1>1. PICK q : q = [call[c] EXCEPT !.step = "answered", !.answer = a]
    OBVIOUS
  <1>2. call[c] \in Call
    BY CallTypes
  <1>3. /\ q \in Call /\ SameRequest(q, call[c])
        /\ q.step = "answered" /\ q.answer = a /\ q.secret = call[c].secret
    BY <1>1, <1>2 DEF Call, Steps, SameRequest
  <1>4. call' = [call EXCEPT ![c] = q]
    BY <1>1 DEF Answer
  <1>5. QED
    BY <1>3, <1>4

(***************************************************************************)
(* An answer, where neither accounts nor second factors change.            *)
(***************************************************************************)
LEMMA AnswerStep ==
  ASSUME IInv, NEW c \in Calls, NEW a \in Answers, Answer(c, a),
         call[c].step # "idle", UNCHANGED <<accounts, factors, tab>>,
         a = "taken" => Registered(call[c].email),
         a # "created" /\ a # "secret"
  PROVE  IInv'
  <1>1. TypeOK /\ CallInv /\ AccountInv /\ FactorInv
    BY DEF IInv
  <1>2. PICK q \in Call : /\ call' = [call EXCEPT ![c] = q]
                          /\ SameRequest(q, call[c])
                          /\ q.step = "answered" /\ q.answer = a
    BY <1>1, AnswerWhat
  <1>3. call'[c] = q /\ \A d \in Calls : d # c => call'[d] = call[d]
    BY <1>1, <1>2 DEF TypeOK
  <1>4. Grows
    BY <1>1, OnboardingAssumption DEF Grows, accounts, factors, Secrets
  <1>5. TypeOK'
    BY <1>1, <1>2 DEF TypeOK, accounts, factors
  <1>6. AccountInv'
    BY <1>1, <1>2, <1>3, AccountsStay
  <1>7. FactorInv'
    <2>1. \A d \in Calls : EnableOK(call[d]) => EnableOK(call'[d])
      BY <1>2, <1>3 DEF EnableOK
    <2>2. QED
      BY <1>1, <2>1, FactorsStay
  <1>8. CallOK(q)'
    <2>1. CallOK(q)
      BY <1>1, <1>2 DEF CallInv, CallOK, Formed, Told, SameRequest
    <2>2. QED
      BY <1>1, <1>4, <2>1, PromisesStay
  <1>9. QED
    BY <1>2, <1>4, <1>5, <1>6, <1>7, <1>8, ServerStep DEF SameRequest

LEMMA FindByEmailStep ==
  ASSUME IInv, NEW c \in Calls, FindByEmail(c)
  PROVE  IInv'
  <1>1. /\ TypeOK /\ CallInv /\ AccountInv /\ FactorInv
        /\ call[c].step = "lookup" /\ call[c].kind = "register"
        /\ UNCHANGED <<accounts, factors, tab>>
    BY DEF IInv, FindByEmail
  <1>2. CASE Registered(call[c].email)
    <2>1. Answer(c, "taken") /\ "taken" \in Answers
      BY <1>2 DEF FindByEmail, Answers
    <2>2. QED
      BY <1>1, <1>2, <2>1, AnswerStep
  <1>3. CASE ~Registered(call[c].email)
    <2>1. PICK q : q = [call[c] EXCEPT !.step = "hashed"]
      OBVIOUS
    <2>2. /\ q \in Call /\ SameRequest(q, call[c]) /\ q.step = "hashed"
          /\ call' = [call EXCEPT ![c] = q]
      BY <1>1, <1>3, <2>1, CallTypes DEF Call, Steps, SameRequest, FindByEmail
    <2>3. call'[c] = q /\ \A d \in Calls : d # c => call'[d] = call[d]
      BY <1>1, <2>2 DEF TypeOK
    <2>4. Grows
      BY <1>1, OnboardingAssumption DEF Grows, accounts, factors, Secrets
    <2>5. TypeOK'
      BY <1>1, <2>2 DEF TypeOK, accounts, factors
    <2>6. AccountInv'
      BY <1>1, <2>2, <2>3, AccountsStay
    <2>7. FactorInv'
      <3>1. \A d \in Calls : EnableOK(call[d]) => EnableOK(call'[d])
        BY <2>2, <2>3 DEF EnableOK
      <3>2. QED
        BY <1>1, <3>1, FactorsStay
    <2>8. CallOK(q)'
      <3>1. CallOK(q)
        BY <1>1, <2>2 DEF CallInv, CallOK, Formed, Told, SameRequest
      <3>2. QED
        BY <1>1, <2>4, <3>1, PromisesStay
    <2>9. QED
      BY <1>1, <2>2, <2>4, <2>5, <2>6, <2>7, <2>8, ServerStep DEF SameRequest
  <1>4. QED
    BY <1>2, <1>3

(***************************************************************************)
(* The number is new, and nobody else inserts or has the address.          *)
(***************************************************************************)
LEMMA InsertUserStep ==
  ASSUME IInv, NEW c \in Calls, InsertUser(c)
  PROVE  IInv'
  <1>1. /\ TypeOK /\ CallInv /\ AccountInv /\ FactorInv
        /\ call[c].step = "hashed" /\ ~Inserting(call[c].email)
        /\ nextUser \in Ids /\ nextUser' = nextUser + 1
        /\ UNCHANGED <<users, vaults, created, factors, tab>>
    BY OnboardingAssumption DEF IInv, InsertUser, AccountInv, TypeOK, Ids
  <1>2. PICK q \in Call :
          /\ call' = [call EXCEPT ![c] = q] /\ SameRequest(q, call[c])
          /\ \/ q.step = "answered" /\ q.answer = "error"
             \/ /\ q.step = "inserted" /\ q.user = nextUser
                /\ ~Registered(call[c].email)
    <2>1. CASE Registered(call[c].email)
      <3>1. Answer(c, "error") /\ "error" \in Answers
        BY <2>1 DEF InsertUser, Answers
      <3>2. QED
        BY <1>1, <3>1, AnswerWhat
    <2>2. CASE ~Registered(call[c].email)
      <3>1. PICK q : q = [call[c] EXCEPT !.step = "inserted", !.user = nextUser]
        OBVIOUS
      <3>2. /\ q \in Call /\ SameRequest(q, call[c])
            /\ q.step = "inserted" /\ q.user = nextUser
        BY <1>1, <3>1, CallTypes DEF Call, Steps, SameRequest
      <3>3. call' = [call EXCEPT ![c] = q]
        BY <2>2, <3>1 DEF InsertUser
      <3>4. QED
        BY <2>2, <3>2, <3>3
    <2>3. QED
      BY <2>1, <2>2
  <1>3. call'[c] = q /\ \A d \in Calls : d # c => call'[d] = call[d]
    BY <1>1, <1>2 DEF TypeOK
  <1>4. Grows
    BY <1>1, OnboardingAssumption DEF Grows, factors, Secrets
  <1>5. TypeOK'
    BY <1>1, <1>2 DEF TypeOK, factors
  <1>6. AccountInv'
    <2>1. /\ nextUser' > 0 /\ AccountsAreWhole'
          /\ \A u \in users' : u.id < nextUser'
      BY <1>1, OnboardingAssumption DEF AccountInv, AccountsAreWhole, TypeOK, User, Ids
    <2>2. \A d \in Calls : d # c /\ call'[d].step = "inserted" =>
            /\ Newcomer(call[d]) /\ call'[d] = call[d]
            /\ call[d].user # nextUser /\ call[d].email # call[c].email
      BY <1>1, <1>3 DEF AccountInv, Newcomers, Newcomer, Inserting, Ids
    <2>3. \A d \in Calls : d # c /\ call'[d].step = "inserted" => Newcomer(call[d])'
      BY <1>1, <1>3, <2>2, OnboardingAssumption DEF Newcomer, Ids
    <2>4. q.step = "inserted" => Newcomer(q)' /\ q.email = call[c].email
      BY <1>1, <1>2, OnboardingAssumption
      DEF Newcomer, AccountInv, Registered, SameRequest, Ids, TypeOK, User
    <2>5. Newcomers'
      <3>1. \A d \in Calls : call'[d].step = "inserted" => Newcomer(call[d])'
        BY <1>3, <2>3, <2>4 DEF Newcomer
      <3>2. ASSUME NEW d \in Calls, NEW e \in Calls, d # e,
                   call'[d].step = "inserted", call'[e].step = "inserted"
            PROVE  call'[d].user # call'[e].user /\ call'[d].email # call'[e].email
        <4>1. CASE d # c /\ e # c
          BY <1>1, <1>3, <3>2, <4>1 DEF AccountInv, Newcomers
        <4>2. CASE d = c
          BY <1>2, <1>3, <2>2, <2>4, <3>2, <4>2
        <4>3. CASE e = c
          BY <1>2, <1>3, <2>2, <2>4, <3>2, <4>3
        <4>4. QED
          BY <4>1, <4>2, <4>3
      <3>3. QED
        BY <3>1, <3>2 DEF Newcomers
    <2>6. QED
      BY <2>1, <2>5 DEF AccountInv
  <1>7. FactorInv'
    <2>1. \A d \in Calls : EnableOK(call[d]) => EnableOK(call'[d])
      BY <1>2, <1>3 DEF EnableOK
    <2>2. QED
      BY <1>1, <2>1, FactorsStay
  <1>8. CallOK(q)'
    <2>1. CallOK(q)
      BY <1>1, <1>2 DEF CallInv, CallOK, Formed, Told, SameRequest
    <2>2. QED
      BY <1>1, <1>4, <2>1, PromisesStay
  <1>9. QED
    BY <1>1, <1>2, <1>4, <1>5, <1>6, <1>7, <1>8, ServerStep DEF SameRequest

(***************************************************************************)
(* The commit: the newcomer becomes a user, with a vault and an entry.     *)
(***************************************************************************)
LEMMA CommitAccountStep ==
  ASSUME IInv, NEW c \in Calls, CommitAccount(c)
  PROVE  IInv'
  <1>1. /\ TypeOK /\ CallInv /\ AccountInv /\ FactorInv
        /\ call[c].step = "inserted" /\ call[c].kind = "register"
        /\ UNCHANGED <<nextUser, factors, tab>>
    BY DEF IInv, CommitAccount, CallInv, CallOK, Formed
  <1>2. PICK x : x = [id |-> call[c].user, email |-> call[c].email,
                      password |-> call[c].password]
    OBVIOUS
  <1>3. /\ x \in User /\ x.id < nextUser /\ x.id = call[c].user /\ x.email = call[c].email
        /\ \A u \in users : u.id # x.id /\ u.email # x.email
        /\ Newcomer(call[c])
    BY <1>1, <1>2
    DEF User, AccountInv, Newcomers, Newcomer, CallInv, CallOK, Formed
  <1>4. /\ users' = users \cup {x} /\ vaults' = vaults \cup {x.id}
        /\ created' = created \cup {x.id} /\ Answer(c, "created")
    BY <1>2 DEF CommitAccount
  <1>5. PICK q \in Call : /\ call' = [call EXCEPT ![c] = q]
                          /\ SameRequest(q, call[c])
                          /\ q.step = "answered" /\ q.answer = "created"
    <2>1. "created" \in Answers
      BY DEF Answers
    <2>2. QED
      BY <1>1, <1>4, <2>1, AnswerWhat
  <1>6. call'[c] = q /\ \A d \in Calls : d # c => call'[d] = call[d]
    BY <1>1, <1>5 DEF TypeOK
  <1>7. Grows
    BY <1>1, <1>4, OnboardingAssumption DEF Grows, factors, Secrets
  <1>8. TypeOK'
    BY <1>1, <1>3, <1>4, <1>5 DEF TypeOK, factors, User
  <1>9. AccountInv'
    <2>1. nextUser' > 0 /\ \A u \in users' : u.id < nextUser'
      BY <1>1, <1>3, <1>4 DEF AccountInv
    <2>2. AccountsAreWhole'
      <3>1. vaults' = {u.id : u \in users'} /\ created' = vaults'
        BY <1>1, <1>4 DEF AccountInv, AccountsAreWhole
      <3>2. \A u, v \in users' : u.email = v.email \/ u.id = v.id => u = v
        BY <1>1, <1>3, <1>4 DEF AccountInv, AccountsAreWhole
      <3>3. QED
        BY <3>1, <3>2 DEF AccountsAreWhole
    <2>3. Newcomers'
      <3>1. ASSUME NEW d \in Calls, call'[d].step = "inserted"
            PROVE  /\ d # c /\ call'[d] = call[d] /\ Newcomer(call[d])
                   /\ call[d].user # x.id /\ call[d].email # x.email
        BY <1>1, <1>3, <1>5, <1>6, <3>1 DEF AccountInv, Newcomers
      <3>2. ASSUME NEW d \in Calls, call'[d].step = "inserted" PROVE Newcomer(call[d])'
        BY <1>1, <1>4, <3>1, <3>2 DEF Newcomer
      <3>3. QED
        BY <1>1, <3>1, <3>2 DEF Newcomers, AccountInv
    <2>4. QED
      BY <2>1, <2>2, <2>3 DEF AccountInv
  <1>10. FactorInv'
    <2>1. \A d \in Calls : EnableOK(call[d]) => EnableOK(call'[d])
      BY <1>5, <1>6 DEF EnableOK
    <2>2. QED
      BY <1>1, <2>1, FactorsStay
  <1>11. CallOK(q)'
    <2>1. Registered(q.email)'
      BY <1>3, <1>4, <1>5 DEF Registered, SameRequest
    <2>2. Formed(q)'
      BY <1>1, <1>5 DEF CallInv, CallOK, Formed, SameRequest
    <2>3. QED
      BY <1>5, <2>1, <2>2 DEF CallOK, Told
  <1>12. QED
    BY <1>1, <1>5, <1>7, <1>8, <1>9, <1>10, <1>11, ServerStep DEF SameRequest

(***************************************************************************)
(* A request that verified its user.                                       *)
(***************************************************************************)
LEMMA VerifiedStep ==
  ASSUME IInv, NEW c \in Calls, NEW q \in Call, call' = [call EXCEPT ![c] = q],
         call[c].step # "idle", SameRequest(q, call[c]),
         UNCHANGED <<accounts, factors, tab>>,
         NEW u \in Verified(call[c]), q.user = u.id,
         \/ q.step = "upsert" /\ q.kind = "enroll"
         \/ q.step = "enable" /\ EnableOK(q)
  PROVE  IInv'
  <1>1. TypeOK /\ CallInv /\ AccountInv /\ FactorInv
    BY DEF IInv
  <1>2. call'[c] = q /\ \A d \in Calls : d # c => call'[d] = call[d]
    BY <1>1 DEF TypeOK
  <1>3. Grows
    BY <1>1, OnboardingAssumption DEF Grows, accounts, factors, Secrets
  <1>4. TypeOK'
    BY <1>1 DEF TypeOK, accounts, factors
  <1>5. AccountInv'
    BY <1>1, <1>2, AccountsStay
  <1>6. FactorInv'
    <2>1. \A d \in Calls : EnableOK(call[d]) => EnableOK(call'[d])
      BY <1>2 DEF EnableOK
    <2>2. QED
      BY <1>1, <2>1, FactorsStay
  <1>7. CallOK(q)'
    <2>1. CallOK(q)
      BY <1>1 DEF CallInv, CallOK, Formed, Told, SameRequest, Owner, Verified
    <2>2. QED
      BY <1>1, <1>3, <2>1, PromisesStay
  <1>8. QED
    BY <1>3, <1>4, <1>5, <1>6, <1>7, ServerStep DEF SameRequest

LEMMA VerifyForEnrollStep ==
  ASSUME IInv, NEW c \in Calls, VerifyForEnroll(c)
  PROVE  IInv'
  <1>1. /\ TypeOK /\ call[c].step = "lookup" /\ call[c].kind = "enroll"
        /\ UNCHANGED <<accounts, factors, tab>>
    BY DEF IInv, VerifyForEnroll
  <1>2. ASSUME NEW a \in {"denied", "conflict"}, Answer(c, a) PROVE IInv'
    <2>1. a \in Answers /\ a # "taken" /\ a # "created" /\ a # "secret"
      BY DEF Answers
    <2>2. QED
      BY <1>1, <1>2, <2>1, AnswerStep
  <1>3. ASSUME NEW u \in Verified(call[c]),
               call' = [call EXCEPT ![c].step = "upsert", ![c].user = u.id]
        PROVE  IInv'
    <2>1. PICK q : q = [call[c] EXCEPT !.step = "upsert", !.user = u.id]
      OBVIOUS
    <2>2. u.id \in Ids
      BY <1>1 DEF Verified, TypeOK, User
    <2>3. /\ q \in Call /\ SameRequest(q, call[c]) /\ q.step = "upsert" /\ q.user = u.id
          /\ q.kind = "enroll"
      BY <1>1, <2>1, <2>2, CallTypes DEF Call, Steps, SameRequest
    <2>4. call' = [call EXCEPT ![c] = q]
      BY <1>3, <2>1
    <2>5. QED
      BY <1>1, <2>3, <2>4, VerifiedStep
  <1>4. QED
    BY <1>2, <1>3 DEF VerifyForEnroll

LEMMA VerifyForConfirmStep ==
  ASSUME IInv, NEW c \in Calls, VerifyForConfirm(c)
  PROVE  IInv'
  <1>1. /\ TypeOK /\ call[c].step = "lookup" /\ call[c].kind = "confirm"
        /\ UNCHANGED <<accounts, factors, tab>>
    BY DEF IInv, VerifyForConfirm
  <1>2. ASSUME Answer(c, "denied") PROVE IInv'
    <2>1. "denied" \in Answers
      BY DEF Answers
    <2>2. QED
      BY <1>1, <1>2, <2>1, AnswerStep
  <1>3. ASSUME NEW u \in Verified(call[c]), Proves(call[c], config[u.id]),
               call' = [call EXCEPT ![c].step = "enable", ![c].user = u.id,
                                    ![c].enables = ~config[u.id].enabled]
        PROVE  IInv'
    <2>1. PICK q : q = [call[c] EXCEPT !.step = "enable", !.user = u.id,
                                       !.enables = ~config[u.id].enabled]
      OBVIOUS
    <2>2. u.id \in Ids /\ config[u.id] \in Config /\ config[u.id].enabled \in BOOLEAN
      BY <1>1 DEF Verified, TypeOK, User, Config
    <2>3. /\ q \in Call /\ SameRequest(q, call[c]) /\ q.step = "enable" /\ q.user = u.id
          /\ q.secret = call[c].secret /\ q.enables = ~config[u.id].enabled
      BY <1>1, <2>1, <2>2, CallTypes DEF Call, Steps, SameRequest
    <2>4. EnableOK(q)
      <3>1. q.secret \in Secrets /\ config[u.id].secret = q.secret
        BY <1>1, <1>3, <2>3, CallTypes DEF Proves
      <3>2. q.enables \/ config[q.user].enabled
        BY <2>2, <2>3
      <3>3. QED
        BY <2>2, <2>3, <3>1, <3>2 DEF EnableOK
    <2>5. call' = [call EXCEPT ![c] = q]
      BY <1>3, <2>1
    <2>6. QED
      BY <1>1, <2>3, <2>4, <2>5, VerifiedStep
  <1>4. QED
    BY <1>2, <1>3 DEF VerifyForConfirm

(***************************************************************************)
(* An enrolment puts a new secret in the place of the old one.  If that    *)
(* was enabled, or is about to be, the user counts as raced from now on.   *)
(***************************************************************************)
LEMMA UpsertPendingStep ==
  ASSUME IInv, NEW c \in Calls, UpsertPending(c)
  PROVE  IInv'
  <1>1. /\ TypeOK /\ CallInv /\ AccountInv /\ FactorInv
        /\ call[c].step = "upsert" /\ call[c].kind = "enroll" /\ Owner(call[c])
        /\ UNCHANGED <<accounts, proved, tab>>
    BY DEF IInv, UpsertPending, CallInv, CallOK, Formed
  <1>2. PICK i, s : i = call[c].user /\ s = nextSecret
    OBVIOUS
  <1>3. i \in Ids /\ s \in Secrets /\ s \in Nat
    BY <1>1, <1>2, OnboardingAssumption
    DEF Owner, TypeOK, User, UpsertPending, FactorInv, Secrets
  <1>4. PICK r : r = [secret |-> s, enabled |-> FALSE]
    OBVIOUS
  <1>5. /\ config' = [config EXCEPT ![i] = r] /\ nextSecret' = s + 1
        /\ r \in Config /\ r.secret = s /\ ~r.enabled
    BY <1>2, <1>3, <1>4 DEF UpsertPending, Config
  <1>6. /\ config' \in [Ids -> Config] /\ config'[i] = r
        /\ \A j \in Ids : j # i => config'[j] = config[j]
    BY <1>1, <1>3, <1>5 DEF TypeOK
  <1>7. raced' = IF \/ config[i].enabled
                    \/ \E d \in Calls : call[d].step = "enable" /\ call[d].user = i
                   THEN raced \cup {i} ELSE raced
    BY <1>2 DEF UpsertPending
  <1>8. PICK q : q = [call[c] EXCEPT !.step = "answered", !.answer = "secret", !.secret = s]
    OBVIOUS
  <1>9. /\ q \in Call /\ SameRequest(q, call[c]) /\ q.step = "answered"
        /\ q.answer = "secret" /\ q.secret = s
        /\ call' = [call EXCEPT ![c] = q]
    <2>1. "secret" \in Answers /\ "answered" \in Steps
      BY DEF Answers, Steps
    <2>2. QED
      BY <1>1, <1>2, <1>3, <1>8, <2>1, CallTypes DEF Call, SameRequest, UpsertPending
  <1>10. call'[c] = q /\ \A d \in Calls : d # c => call'[d] = call[d]
    BY <1>1, <1>9 DEF TypeOK
  <1>11. \A j \in Ids : config[j].secret \in Secrets => config[j].secret \in Nat /\ config[j].secret < s
    BY <1>1, <1>2, OnboardingAssumption DEF FactorInv, Secrets
  <1>12. Grows
    BY <1>1, <1>3, <1>5, <1>6, <1>11 DEF Grows, accounts
  <1>13. TypeOK'
    BY <1>1, <1>3, <1>5, <1>6, <1>7, <1>9 DEF TypeOK, accounts
  <1>14. AccountInv'
    BY <1>1, <1>9, <1>10, AccountsStay
  <1>15. FactorInv'
    <2>1. nextSecret' > 0
      BY <1>3, <1>5
    <2>2. \A j \in Ids : config'[j].secret # None => config'[j].secret < nextSecret'
      <3>1. ASSUME NEW j \in Ids, j # i, config'[j].secret # None
            PROVE  config'[j].secret < nextSecret'
        <4>1. config[j].secret \in Secrets /\ config'[j] = config[j]
          BY <1>1, <1>6, <3>1 DEF TypeOK, Config
        <4>2. QED
          BY <1>3, <1>5, <1>11, <4>1
      <3>2. config'[i].secret < nextSecret'
        BY <1>3, <1>5, <1>6
      <3>3. QED
        BY <3>1, <3>2
    <2>3. EnabledUnlessRaced'
      <3>1. ASSUME NEW j \in Ids \ raced'
            PROVE  /\ config'[j].enabled => [user |-> j, secret |-> config'[j].secret] \in proved'
                   /\ \A p \in proved' : p.user = j => config'[j].enabled
        <4>1. j \notin raced /\ j \in Ids
          BY <1>7, <3>1
        <4>2. CASE j = i
          <5>1. ~config[i].enabled
            BY <1>7, <3>1, <4>2
          <5>2. \A p \in proved : p.user # i
            BY <1>1, <4>1, <4>2, <5>1 DEF FactorInv, EnabledUnlessRaced
          <5>3. QED
            BY <1>1, <1>5, <1>6, <4>2, <5>2
        <4>3. CASE j # i
          <5>1. config'[j] = config[j] /\ proved' = proved
            BY <1>1, <1>6, <4>1, <4>3
          <5>2. /\ config[j].enabled => [user |-> j, secret |-> config[j].secret] \in proved
                /\ \A p \in proved : p.user = j => config[j].enabled
            BY <1>1, <4>1 DEF FactorInv, EnabledUnlessRaced
          <5>3. QED
            BY <5>1, <5>2
        <4>4. QED
          BY <4>2, <4>3
      <3>2. QED
        BY <3>1 DEF EnabledUnlessRaced
    <2>4. ASSUME NEW d \in Calls, call'[d].step = "enable"
          PROVE  EnableOK(call[d])'
      <3>1. d # c /\ call'[d] = call[d] /\ call[d].step = "enable" /\ EnableOK(call[d])
        BY <1>1, <1>9, <1>10, <2>4 DEF FactorInv
      <3>2. CASE call[d].user = i
        <4>1. i \in raced'
          BY <1>7, <3>1, <3>2
        <4>2. QED
          BY <3>1, <3>2, <4>1 DEF EnableOK
      <3>3. CASE call[d].user # i
        <4>1. call[d].user \notin raced' => call[d].user \notin raced
          BY <1>7
        <4>2. QED
          BY <1>6, <3>1, <3>3, <4>1 DEF EnableOK
      <3>4. QED
        BY <3>2, <3>3
    <2>5. QED
      BY <2>1, <2>2, <2>3, <2>4 DEF FactorInv, EnableOK
  <1>16. CallOK(q)'
    <2>1. PICK u \in users : /\ u.id = i /\ u.email = q.email /\ u.password = q.password
      BY <1>1, <1>2, <1>9 DEF Owner, SameRequest
    <2>2. s >= s
      BY <1>3
    <2>3. Holds(q.email, q.password, q.secret)'
      BY <1>1, <1>3, <1>5, <1>6, <1>9, <2>1, <2>2 DEF Holds, accounts
    <2>4. Formed(q)'
      BY <1>1, <1>9 DEF CallInv, CallOK, Formed, SameRequest
    <2>5. QED
      BY <1>1, <1>9, <2>3, <2>4 DEF CallOK, Told, SameRequest
  <1>17. QED
    BY <1>1, <1>9, <1>12, <1>13, <1>14, <1>15, <1>16, ServerStep DEF SameRequest

(***************************************************************************)
(* The code was for the secret that is enabled now, unless an enrolment    *)
(* came in between.                                                        *)
(***************************************************************************)
LEMMA CommitConfirmStep ==
  ASSUME IInv, NEW c \in Calls, CommitConfirm(c)
  PROVE  IInv'
  <1>1. /\ TypeOK /\ CallInv /\ AccountInv /\ FactorInv
        /\ call[c].step = "enable" /\ EnableOK(call[c])
        /\ UNCHANGED <<accounts, nextSecret, raced, tab>>
    BY DEF IInv, CommitConfirm, FactorInv
  <1>2. PICK i, s : i = call[c].user /\ s = call[c].secret
    OBVIOUS
  <1>3. /\ i \in Ids /\ s \in Secrets /\ config[i] \in Config
        /\ i \notin raced => config[i].secret = s /\ (call[c].enables \/ config[i].enabled)
    BY <1>1, <1>2 DEF EnableOK, TypeOK
  <1>4. PICK r : r = [config[i] EXCEPT !.enabled = @ \/ call[c].enables]
    OBVIOUS
  <1>5. /\ r \in Config /\ r.secret = config[i].secret
        /\ r.enabled = (config[i].enabled \/ call[c].enables)
        /\ config' = [config EXCEPT ![i] = r]
        /\ proved' = proved \cup {[user |-> i, secret |-> s]}
        /\ Answer(c, "session")
    BY <1>1, <1>2, <1>3, <1>4, CallTypes DEF CommitConfirm, Config
  <1>6. /\ config' \in [Ids -> Config] /\ config'[i] = r
        /\ \A j \in Ids : j # i => config'[j] = config[j]
        /\ \A j \in Ids : config'[j].secret = config[j].secret
    BY <1>1, <1>3, <1>5 DEF TypeOK
  <1>7. PICK q \in Call : /\ call' = [call EXCEPT ![c] = q]
                          /\ SameRequest(q, call[c])
                          /\ q.step = "answered" /\ q.answer = "session"
    <2>1. "session" \in Answers
      BY DEF Answers
    <2>2. QED
      BY <1>1, <1>5, <2>1, AnswerWhat
  <1>8. call'[c] = q /\ \A d \in Calls : d # c => call'[d] = call[d]
    BY <1>1, <1>7 DEF TypeOK
  <1>9. Grows
    BY <1>1, <1>6, OnboardingAssumption DEF Grows, accounts, Secrets
  <1>10. TypeOK'
    BY <1>1, <1>3, <1>5, <1>6, <1>7 DEF TypeOK, accounts
  <1>11. AccountInv'
    BY <1>1, <1>7, <1>8, AccountsStay
  <1>12. FactorInv'
    <2>1. nextSecret' > 0 /\ \A j \in Ids : config'[j].secret # None => config'[j].secret < nextSecret'
      BY <1>1, <1>6 DEF FactorInv
    <2>2. EnabledUnlessRaced'
      <3>1. ASSUME NEW j \in Ids \ raced'
            PROVE  /\ config'[j].enabled => [user |-> j, secret |-> config'[j].secret] \in proved'
                   /\ \A p \in proved' : p.user = j => config'[j].enabled
        <4>1. j \in Ids /\ j \notin raced
          BY <1>1, <3>1
        <4>2. CASE j = i
          BY <1>3, <1>5, <1>6, <4>1, <4>2
        <4>3. CASE j # i
          <5>1. config'[j] = config[j]
            BY <1>6, <4>1, <4>3
          <5>2. /\ config[j].enabled => [user |-> j, secret |-> config[j].secret] \in proved
                /\ \A p \in proved : p.user = j => config[j].enabled
            BY <1>1, <4>1 DEF FactorInv, EnabledUnlessRaced
          <5>3. QED
            BY <1>5, <4>3, <5>1, <5>2
        <4>4. QED
          BY <4>2, <4>3
      <3>2. QED
        BY <3>1 DEF EnabledUnlessRaced
    <2>3. ASSUME NEW d \in Calls, call'[d].step = "enable" PROVE EnableOK(call[d])'
      <3>1. d # c /\ call'[d] = call[d] /\ call[d].step = "enable" /\ EnableOK(call[d])
        BY <1>1, <1>7, <1>8, <2>3 DEF FactorInv
      <3>2. \A j \in Ids : config[j].enabled => config'[j].enabled
        BY <1>5, <1>6
      <3>3. QED
        BY <1>1, <1>6, <3>1, <3>2 DEF EnableOK
    <2>4. QED
      BY <2>1, <2>2, <2>3 DEF FactorInv, EnableOK
  <1>13. CallOK(q)'
    <2>1. CallOK(q)
      BY <1>1, <1>7 DEF CallInv, CallOK, Formed, Told, SameRequest
    <2>2. QED
      BY <1>1, <1>9, <2>1, PromisesStay
  <1>14. QED
    BY <1>1, <1>7, <1>9, <1>10, <1>11, <1>12, <1>13, ServerStep DEF SameRequest

LEMMA FailStep ==
  ASSUME IInv, NEW c \in Calls, Fail(c)
  PROVE  IInv'
  <1>1. "error" \in Answers
    BY DEF Answers
  <1>2. Answer(c, "error") /\ call[c].step # "idle" /\ UNCHANGED <<accounts, factors, tab>>
    BY DEF Fail
  <1>3. QED
    BY <1>1, <1>2, AnswerStep

(***************************************************************************)
(* A step of the tabs: requests begin, end or are no longer waited for.    *)
(***************************************************************************)
LEMMA TabStep ==
  ASSUME IInv, UNCHANGED <<accounts, factors>>,
         tab' \in [Tabs -> Tab], call' \in [Calls -> Call],
         \A c \in Calls : \/ call'[c].step = "idle"
                          \/ call'[c].step = "lookup" /\ CallOK(call'[c])
                          \/ /\ call'[c].step = call[c].step /\ call'[c].answer = call[c].answer
                             /\ call'[c].user = call[c].user /\ call'[c].secret = call[c].secret
                             /\ call'[c].enables = call[c].enables
                             /\ call'[c].kind = call[c].kind /\ call'[c].tab = call[c].tab
                             /\ call'[c].email = call[c].email
                             /\ call'[c].password = call[c].password,
         \A t \in Tabs : Shown(tab'[t]),
         \A t \in Tabs, c \in Calls : Awaits(c, t)' =>
           /\ tab'[t].submitting
           /\ tab'[t].email = call'[c].email
           /\ call'[c].kind = "enroll" => tab'[t].password = call'[c].password,
         \A t \in Tabs, c, d \in Calls : Awaits(c, t)' /\ Awaits(d, t)' => c = d
  PROVE  IInv'
  <1>1. TypeOK /\ AccountInv /\ FactorInv /\ CallInv
    BY DEF IInv
  <1>2. TypeOK' /\ Grows
    BY <1>1, OnboardingAssumption DEF TypeOK, Grows, accounts, factors, Secrets
  <1>3. AccountInv'
    BY <1>1, AccountsStay
  <1>4. FactorInv'
    <2>1. \A c \in Calls : EnableOK(call[c]) => EnableOK(call'[c])
      BY DEF EnableOK
    <2>2. QED
      BY <1>1, <2>1, FactorsStay
  <1>5. CallInv'
    <2>1. ASSUME NEW c \in Calls PROVE CallOK(call[c])'
      <3>1. PICK q : q = call'[c]
        OBVIOUS
      <3>2. CallOK(q)
        BY <1>1, <3>1 DEF CallInv, CallOK, Formed, Told, Owner
      <3>3. CallOK(q)'
        BY <1>1, <1>2, <3>2, PromisesStay
      <3>4. QED
        BY <3>1, <3>3 DEF CallOK, Formed, Told, Owner
    <2>2. QED
      BY <2>1 DEF CallInv
  <1>6. TabInv'
    <2>1. ASSUME NEW t \in Tabs PROVE Shown(tab[t])'
      <3>1. PICK p : p = tab'[t] /\ Shown(p)
        OBVIOUS
      <3>2. Shown(p)'
        BY <1>1, <1>2, <3>1, PromisesStay
      <3>3. QED
        BY <3>1, <3>2 DEF Shown
    <2>2. QED
      BY <2>1 DEF TabInv
  <1>7. QED
    BY <1>2, <1>3, <1>4, <1>5, <1>6 DEF IInv

LEMMA UnmountWhat ==
  ASSUME NEW t, NEW calls \in [Calls -> Call]
  PROVE  /\ Unmount(calls, t) \in [Calls -> Call]
         /\ \A c \in Calls :
              /\ Unmount(calls, t)[c].step = calls[c].step
              /\ Unmount(calls, t)[c].answer = calls[c].answer
              /\ Unmount(calls, t)[c].user = calls[c].user
              /\ Unmount(calls, t)[c].secret = calls[c].secret
              /\ Unmount(calls, t)[c].enables = calls[c].enables
              /\ Unmount(calls, t)[c].kind = calls[c].kind
              /\ Unmount(calls, t)[c].tab = calls[c].tab
              /\ Unmount(calls, t)[c].email = calls[c].email
              /\ Unmount(calls, t)[c].password = calls[c].password
              /\ calls[c].tab = t => ~Unmount(calls, t)[c].live
              /\ calls[c].tab # t => Unmount(calls, t)[c].live = calls[c].live
  <1>1. ASSUME NEW c \in Calls
        PROVE  [calls[c] EXCEPT !.live = FALSE] \in Call
    BY DEF Call
  <1>2. QED
    BY <1>1 DEF Unmount, Call

LEMMA VisitStep ==
  ASSUME IInv, NEW t \in Tabs, Visit(t)
  PROVE  IInv'
  <1>1. TypeOK /\ CallInv /\ TabInv
    BY DEF IInv
  <1>2. PICK page \in {"signup", "setup1", "elsewhere"} :
          tab' = [tab EXCEPT ![t] = Mounted(page)]
    BY DEF Visit
  <1>3. call \in [Calls -> Call] /\ call' = Unmount(call, t) /\ UNCHANGED <<accounts, factors>>
    BY <1>1 DEF Visit, TypeOK
  <1>4. /\ call' \in [Calls -> Call]
        /\ \A c \in Calls :
             /\ call'[c].step = call[c].step /\ call'[c].answer = call[c].answer
             /\ call'[c].user = call[c].user /\ call'[c].secret = call[c].secret
             /\ call'[c].enables = call[c].enables
             /\ call'[c].kind = call[c].kind /\ call'[c].tab = call[c].tab
             /\ call'[c].email = call[c].email /\ call'[c].password = call[c].password
             /\ call[c].tab = t => ~call'[c].live
             /\ call[c].tab # t => call'[c].live = call[c].live
    BY <1>3, UnmountWhat
  <1>5. /\ Mounted(page) \in Tab /\ Mounted(page).page = page
        /\ Mounted(page).email = None /\ Mounted(page).error = "none"
    BY <1>2, MountedType
  <1>6. /\ tab' \in [Tabs -> Tab] /\ tab'[t] = Mounted(page)
        /\ \A v \in Tabs : v # t => tab'[v] = tab[v]
    BY <1>1, <1>2, <1>5 DEF TypeOK
  <1>7. \A v \in Tabs, c \in Calls : Awaits(c, v)' => v # t /\ Awaits(c, v)
    BY <1>4 DEF Awaits
  <1>8. \A v \in Tabs : Shown(tab'[v])
    <2>1. Shown(Mounted(page))
      BY <1>2, <1>5 DEF Shown
    <2>2. QED
      BY <1>1, <1>6, <2>1 DEF TabInv
  <1>9. \A v \in Tabs, c \in Calls : Awaits(c, v)' =>
          /\ tab'[v].submitting
          /\ tab'[v].email = call'[c].email
          /\ call'[c].kind = "enroll" => tab'[v].password = call'[c].password
    BY <1>1, <1>4, <1>6, <1>7 DEF TabInv
  <1>10. \A v \in Tabs, c, d \in Calls : Awaits(c, v)' /\ Awaits(d, v)' => c = d
    BY <1>1, <1>7 DEF TabInv
  <1>11. QED
    BY <1>3, <1>4, <1>6, <1>8, <1>9, <1>10, TabStep

(***************************************************************************)
(* A submission: the page waited for nothing, and waits for this now.      *)
(***************************************************************************)
LEMMA SendStep ==
  ASSUME IInv, NEW t \in Tabs, NEW c \in Calls, NEW filled \in Tab, NEW request \in Call,
         Send(t, c, filled, request),
         filled.email = request.email,
         request.kind = "enroll" => filled.password = request.password,
         request.kind = "register" => request.email \in Emails /\ request.password \in Passwords,
         filled.page = "setup1" => filled.password # None,
         filled.page = "setup2" => Holds(filled.email, filled.password, filled.secret)
  PROVE  IInv'
  <1>1. TypeOK /\ CallInv /\ TabInv /\ ~tab[t].submitting /\ UNCHANGED <<accounts, factors>>
    BY DEF IInv, Send
  <1>2. PICK p, q : /\ p = [filled EXCEPT !.submitting = TRUE, !.error = "none"]
                    /\ q = [request EXCEPT !.step = "lookup", !.tab = t, !.live = TRUE]
    OBVIOUS
  <1>3. /\ p \in Tab /\ p.submitting /\ p.error = "none" /\ p.page = filled.page
        /\ p.email = filled.email /\ p.password = filled.password /\ p.secret = filled.secret
    BY <1>2 DEF Tab, Answers
  <1>4. /\ q \in Call /\ q.step = "lookup" /\ q.tab = t /\ q.live /\ q.kind = request.kind
        /\ q.email = request.email /\ q.password = request.password
    BY <1>2 DEF Call, Steps
  <1>5. /\ tab' \in [Tabs -> Tab] /\ tab'[t] = p
        /\ \A v \in Tabs : v # t => tab'[v] = tab[v]
    BY <1>1, <1>2, <1>3 DEF Send, TypeOK
  <1>6. /\ call' \in [Calls -> Call] /\ call'[c] = q
        /\ \A d \in Calls : d # c => call'[d] = call[d]
    BY <1>1, <1>2, <1>4 DEF Send, TypeOK
  <1>7. CallOK(q)
    BY <1>4 DEF CallOK, Formed, Told
  <1>8. \A v \in Tabs : Shown(tab'[v])
    <2>1. Shown(p)
      BY <1>3 DEF Shown
    <2>2. QED
      BY <1>1, <1>5, <2>1 DEF TabInv
  <1>9. \A v \in Tabs, d \in Calls : Awaits(d, v)' =>
          \/ d = c /\ v = t
          \/ d # c /\ v # t /\ Awaits(d, v)
    <2>1. \A d \in Calls : ~Awaits(d, t)
      BY <1>1 DEF TabInv
    <2>2. QED
      BY <1>4, <1>6, <2>1 DEF Awaits
  <1>10. \A v \in Tabs, d \in Calls : Awaits(d, v)' =>
           /\ tab'[v].submitting
           /\ tab'[v].email = call'[d].email
           /\ call'[d].kind = "enroll" => tab'[v].password = call'[d].password
    BY <1>1, <1>3, <1>4, <1>5, <1>6, <1>9 DEF TabInv
  <1>11. \A v \in Tabs, d, e \in Calls : Awaits(d, v)' /\ Awaits(e, v)' => d = e
    BY <1>1, <1>9 DEF TabInv
  <1>12. QED
    BY <1>1, <1>4, <1>5, <1>6, <1>7, <1>8, <1>10, <1>11, TabStep

LEMMA HandleStep ==
  ASSUME IInv, NEW t \in Tabs, NEW c \in Calls,
         HandleSignUp(t, c) \/ HandleEnroll(t, c) \/ HandleConfirm(t, c)
  PROVE  IInv'
  <1>1. /\ TypeOK /\ tab[t] \in Tab /\ Shown(tab[t])
        /\ tab[t].email \in Emails \cup {None} /\ tab[t].password \in Passwords \cup {None}
        /\ tab[t].secret \in Secrets \cup {None}
    BY TabTypes DEF IInv, TabInv
  <1>2. CASE HandleSignUp(t, c)
    <2>1. PICK e \in Emails, p \in Passwords :
            Send(t, c, [tab[t] EXCEPT !.email = e], [Idle EXCEPT !.email = e, !.password = p])
      BY <1>2 DEF HandleSignUp
    <2>2. PICK f, r : /\ f = [tab[t] EXCEPT !.email = e]
                      /\ r = [Idle EXCEPT !.email = e, !.password = p]
      OBVIOUS
    <2>3. f \in Tab /\ f.page = "signup" /\ f.email = e
      BY <1>1, <1>2, <2>2 DEF Tab, HandleSignUp
    <2>4. r \in Call /\ r.kind = "register" /\ r.email = e /\ r.password = p
      BY <2>2, IdleType DEF Call
    <2>5. QED
      BY <2>1, <2>2, <2>3, <2>4, SendStep
  <1>3. CASE HandleEnroll(t, c)
    <2>1. PICK e \in Emails, p \in Passwords :
            Send(t, c, [tab[t] EXCEPT !.email = e, !.password = p],
                 [Idle EXCEPT !.kind = "enroll", !.email = e, !.password = p])
      BY <1>3 DEF HandleEnroll
    <2>2. PICK f, r : /\ f = [tab[t] EXCEPT !.email = e, !.password = p]
                      /\ r = [Idle EXCEPT !.kind = "enroll", !.email = e, !.password = p]
      OBVIOUS
    <2>3. f \in Tab /\ f.page = "setup1" /\ f.email = e /\ f.password = p /\ p # None
      BY <1>1, <1>3, <2>2, OnboardingAssumption DEF Tab, HandleEnroll
    <2>4. r \in Call /\ r.kind = "enroll" /\ r.email = e /\ r.password = p
      BY <2>2, IdleType DEF Call
    <2>5. QED
      BY <2>1, <2>2, <2>3, <2>4, SendStep
  <1>4. CASE HandleConfirm(t, c)
    <2>1. PICK s \in {tab[t].secret, None} :
            Send(t, c, tab[t],
                 [Idle EXCEPT !.kind = "confirm", !.email = tab[t].email,
                              !.password = tab[t].password, !.secret = s])
      BY <1>4 DEF HandleConfirm
    <2>2. PICK r : r = [Idle EXCEPT !.kind = "confirm", !.email = tab[t].email,
                                    !.password = tab[t].password, !.secret = s]
      OBVIOUS
    <2>3. r \in Call /\ r.kind = "confirm" /\ r.email = tab[t].email
      BY <1>1, <2>2, IdleType DEF Call
    <2>4. tab[t].page = "setup2" /\ Holds(tab[t].email, tab[t].password, tab[t].secret)
      BY <1>1, <1>4 DEF HandleConfirm, Shown
    <2>5. QED
      BY <1>1, <2>1, <2>2, <2>3, <2>4, SendStep
  <1>5. QED
    BY <1>2, <1>3, <1>4

(***************************************************************************)
(* What an answer makes of a page.                                         *)
(***************************************************************************)
LEMMA StayWhat ==
  ASSUME IInv, NEW c \in Calls, NEW q, q = call[c], q.step = "answered",
         NEW a \in Answers, a = "taken" => Registered(q.email)
  PROVE  /\ Stay(q.tab, q, a) \in Tab /\ Shown(Stay(q.tab, q, a))
         /\ Stay(q.tab, q, a) = tab[q.tab] \/ q.live
         /\ Stay(q.tab, q, a).page = tab[q.tab].page
  <1>1. PICK t : t = q.tab
    OBVIOUS
  <1>2. t \in Tabs /\ tab[t] \in Tab /\ Shown(tab[t])
    BY <1>1, TabTypes DEF IInv, CallInv, CallOK, Formed, TabInv
  <1>3. CASE ~q.live
    BY <1>1, <1>2, <1>3 DEF Stay
  <1>4. CASE q.live
    <2>1. PICK p : p = [tab[t] EXCEPT !.submitting = FALSE, !.error = a]
      OBVIOUS
    <2>2. /\ p \in Tab /\ p.error = a /\ p.page = tab[t].page /\ p.email = tab[t].email
          /\ p.password = tab[t].password /\ p.secret = tab[t].secret
      BY <1>2, <2>1 DEF Tab
    <2>3. Awaits(c, t) /\ tab[t].email = q.email
      BY <1>1, <1>2, <1>4 DEF Awaits, IInv, TabInv
    <2>4. Shown(p)
      BY <1>2, <2>2, <2>3 DEF Shown
    <2>5. QED
      BY <1>1, <1>4, <2>1, <2>2, <2>4 DEF Stay
  <1>5. QED
    BY <1>3, <1>4

LEMMA LandedWhat ==
  ASSUME IInv, NEW c \in Calls, NEW q, q = call[c], q.step = "answered"
  PROVE  /\ Landed(q.tab, q) \in Tab /\ Shown(Landed(q.tab, q))
         /\ SamePage(tab[q.tab].page, Landed(q.tab, q).page)
              => Landed(q.tab, q) = tab[q.tab] \/ q.live
  <1>1. PICK t, n : t = q.tab /\ n = Landed(t, q)
    OBVIOUS
  <1>2. /\ t \in Tabs /\ tab[t] \in Tab /\ Shown(tab[t]) /\ CallOK(q) /\ q \in Call
        /\ q.email \in Emails \cup {None} /\ q.secret \in Secrets \cup {None}
        /\ q.answer \in Answers /\ Told(q)
    BY <1>1, TabTypes, CallTypes DEF IInv, CallInv, CallOK, Formed, TabInv
  <1>3. CASE q.answer = "created"
    <2>1. n = Arrive(t, q, "setup1")
      BY <1>1, <1>3 DEF Landed
    <2>2. PICK p : p = [Mounted("setup1") EXCEPT !.email = q.email]
      OBVIOUS
    <2>3. /\ p \in Tab /\ p.page = "setup1" /\ p.email = q.email /\ p.error = "none"
      BY <1>2, <2>2, MountedType DEF Tab
    <2>4. Shown(p)
      BY <1>2, <1>3, <2>3 DEF Shown, Told
    <2>5. n = tab[t] \/ (~SamePage(tab[t].page, "setup1") /\ n = p)
      BY <2>1, <2>2 DEF Arrive
    <2>6. QED
      BY <1>1, <1>2, <2>3, <2>4, <2>5
  <1>4. CASE q.answer = "session"
    <2>1. n = Arrive(t, q, "vault")
      BY <1>1, <1>4 DEF Landed
    <2>2. PICK p : p = [Mounted("vault") EXCEPT !.email = None]
      OBVIOUS
    <2>3. p \in Tab /\ p.page = "vault" /\ p.error = "none"
      BY <2>2, MountedType DEF Tab
    <2>4. Shown(p)
      BY <2>3 DEF Shown
    <2>5. n = tab[t] \/ (~SamePage(tab[t].page, "vault") /\ n = p)
      BY <2>1, <2>2 DEF Arrive
    <2>6. QED
      BY <1>1, <1>2, <2>3, <2>4, <2>5
  <1>5. CASE q.answer = "secret" /\ q.live
    <2>1. PICK p : p = [tab[t] EXCEPT !.page = "setup2", !.secret = q.secret,
                                      !.submitting = FALSE]
      OBVIOUS
    <2>2. n = p
      BY <1>1, <1>5, <2>1 DEF Landed
    <2>3. /\ p \in Tab /\ p.page = "setup2" /\ p.secret = q.secret /\ p.email = tab[t].email
          /\ p.password = tab[t].password /\ p.error = tab[t].error
      BY <1>2, <2>1 DEF Tab
    <2>4. q.kind = "enroll" /\ Holds(q.email, q.password, q.secret)
      BY <1>2, <1>5 DEF Told
    <2>5. Awaits(c, t) /\ tab[t].email = q.email /\ tab[t].password = q.password
      BY <1>1, <1>2, <1>5, <2>4 DEF Awaits, IInv, TabInv
    <2>6. Shown(p)
      BY <1>2, <2>3, <2>4, <2>5 DEF Shown
    <2>7. QED
      BY <1>1, <1>5, <2>2, <2>3, <2>6
  <1>6. CASE /\ q.answer # "created" /\ q.answer # "session"
             /\ ~(q.answer = "secret" /\ q.live)
    <2>1. n = Stay(t, q, q.answer)
      BY <1>1, <1>6 DEF Landed
    <2>2. PICK a \in Answers : a = q.answer
      BY <1>2
    <2>3. a = "taken" => Registered(q.email)
      BY <1>2, <2>2 DEF Told
    <2>4. /\ Stay(q.tab, q, a) \in Tab /\ Shown(Stay(q.tab, q, a))
          /\ Stay(q.tab, q, a) = tab[q.tab] \/ q.live
      BY <2>3, StayWhat
    <2>5. QED
      BY <1>1, <2>1, <2>2, <2>4
  <1>7. QED
    BY <1>3, <1>4, <1>5, <1>6

(***************************************************************************)
(* A request is over, and those of its tab may be waited for no longer.    *)
(***************************************************************************)
SameState(q, r) ==
  /\ q.step = r.step /\ q.answer = r.answer /\ q.user = r.user
  /\ q.secret = r.secret /\ q.enables = r.enables

LEMMA EndedWhat ==
  ASSUME TypeOK, NEW c \in Calls, NEW rest, rest = [call EXCEPT ![c] = Idle]
  PROVE  /\ rest \in [Calls -> Call] /\ rest[c].step = "idle"
         /\ \A d \in Calls : d # c => rest[d] = call[d]
  BY IdleType DEF TypeOK

LEMMA LeftWhat ==
  ASSUME NEW t, NEW calls \in [Calls -> Call], NEW left, left = Unmount(calls, t)
  PROVE  /\ left \in [Calls -> Call]
         /\ \A d \in Calls : /\ SameState(left[d], calls[d])
                             /\ left[d].kind = calls[d].kind /\ left[d].tab = calls[d].tab
                             /\ left[d].email = calls[d].email
                             /\ left[d].password = calls[d].password
                             /\ calls[d].tab = t => ~left[d].live
                             /\ calls[d].tab # t => left[d].live = calls[d].live
  BY UnmountWhat DEF SameState

(***************************************************************************)
(* An answer ends its request.  Whoever else waited on its tab waited in   *)
(* vain, or the tab is as it was.                                          *)
(***************************************************************************)
Ends(c, t, p) ==
  /\ call[c].step = "answered" /\ t = call[c].tab
  /\ UNCHANGED <<accounts, factors>>
  /\ p \in Tab /\ Shown(p) /\ tab' = [tab EXCEPT ![t] = p]
  /\ call' \in [Calls -> Call] /\ call'[c].step = "idle"
  /\ \A d \in Calls : d # c =>
       /\ SameState(call'[d], call[d])
       /\ call'[d].kind = call[d].kind /\ call'[d].tab = call[d].tab
       /\ call'[d].email = call[d].email /\ call'[d].password = call[d].password
       /\ call'[d].live => call[d].live
       /\ call[d].tab = t => ~call'[d].live \/ p = tab[t] \/ call[c].live

LEMMA EndStep ==
  ASSUME IInv, NEW c \in Calls, NEW t, NEW p, Ends(c, t, p)
  PROVE  IInv'
  <1>1. /\ TypeOK /\ CallInv /\ TabInv /\ t \in Tabs
    BY DEF IInv, CallInv, CallOK, Formed, Ends
  <1>2. /\ tab' \in [Tabs -> Tab] /\ tab'[t] = p
        /\ \A v \in Tabs : v # t => tab'[v] = tab[v]
    BY <1>1 DEF TypeOK, Ends
  <1>3. ASSUME NEW v \in Tabs, NEW d \in Calls, Awaits(d, v)'
        PROVE  d # c /\ Awaits(d, v) /\ tab'[v] = tab[v]
    <2>1. d # c /\ Awaits(d, v) /\ call[d].tab = v /\ call'[d].live
      BY <1>3 DEF Awaits, SameState, Ends
    <2>2. CASE v # t
      BY <1>2, <2>1, <2>2
    <2>3. CASE v = t
      <3>1. p = tab[t] \/ call[c].live
        BY <2>1, <2>3 DEF Ends
      <3>2. ~Awaits(c, v)
        BY <1>1, <2>1 DEF TabInv
      <3>3. ~call[c].live
        BY <2>3, <3>2 DEF Awaits, Ends
      <3>4. QED
        BY <1>2, <2>1, <2>3, <3>1, <3>3
    <2>4. QED
      BY <2>2, <2>3
  <1>4. \A v \in Tabs : Shown(tab'[v])
    BY <1>1, <1>2 DEF TabInv, Ends
  <1>5. \A v \in Tabs, d \in Calls : Awaits(d, v)' =>
          /\ tab'[v].submitting
          /\ tab'[v].email = call'[d].email
          /\ call'[d].kind = "enroll" => tab'[v].password = call'[d].password
    BY <1>1, <1>3 DEF TabInv, Ends
  <1>6. \A v \in Tabs, d, e \in Calls : Awaits(d, v)' /\ Awaits(e, v)' => d = e
    BY <1>1, <1>3 DEF TabInv
  <1>7. QED
    BY <1>2, <1>4, <1>5, <1>6, TabStep DEF SameState, Ends

LEMMA LandStep ==
  ASSUME IInv, NEW c \in Calls, Land(c)
  PROVE  IInv'
  <1>1. PICK q, t, n, rest : /\ q = call[c] /\ t = q.tab /\ n = Landed(t, q)
                             /\ rest = [call EXCEPT ![c] = Idle]
    OBVIOUS
  <1>2. /\ q.step = "answered" /\ UNCHANGED <<accounts, factors>>
        /\ tab' = [tab EXCEPT ![t] = n]
        /\ call' = IF SamePage(tab[t].page, n.page) THEN rest ELSE Unmount(rest, t)
    BY <1>1 DEF Land
  <1>3. /\ n \in Tab /\ Shown(n)
        /\ SamePage(tab[t].page, n.page) => n = tab[t] \/ q.live
    BY <1>1, <1>2, LandedWhat
  <1>4. /\ rest \in [Calls -> Call] /\ rest[c].step = "idle"
        /\ \A d \in Calls : d # c => rest[d] = call[d]
    BY <1>1, EndedWhat DEF IInv
  <1>5. PICK left : left = Unmount(rest, t)
    OBVIOUS
  <1>6. /\ left \in [Calls -> Call]
        /\ \A d \in Calls : /\ SameState(left[d], rest[d])
                            /\ left[d].kind = rest[d].kind /\ left[d].tab = rest[d].tab
                            /\ left[d].email = rest[d].email
                            /\ left[d].password = rest[d].password
                            /\ rest[d].tab = t => ~left[d].live
                            /\ rest[d].tab # t => left[d].live = rest[d].live
    BY <1>4, <1>5, LeftWhat
  <1>7. CASE SamePage(tab[t].page, n.page)
    <2>1. Ends(c, t, n)
      BY <1>1, <1>2, <1>3, <1>4, <1>7 DEF SameState, Ends
    <2>2. QED
      BY <2>1, EndStep
  <1>8. CASE ~SamePage(tab[t].page, n.page)
    <2>1. call' = left
      BY <1>2, <1>5, <1>8
    <2>2. call'[c].step = "idle"
      BY <1>4, <1>6, <2>1 DEF SameState
    <2>3. \A d \in Calls : d # c =>
           /\ SameState(call'[d], call[d])
           /\ call'[d].kind = call[d].kind /\ call'[d].tab = call[d].tab
           /\ call'[d].email = call[d].email /\ call'[d].password = call[d].password
           /\ call'[d].live => call[d].live
           /\ call[d].tab = t => ~call'[d].live
      BY <1>4, <1>6, <2>1
    <2>4. Ends(c, t, n)
      BY <1>1, <1>2, <1>3, <1>4, <1>6, <2>1, <2>2, <2>3 DEF Ends
    <2>5. QED
      BY <2>4, EndStep
  <1>9. QED
    BY <1>7, <1>8

LEMMA LoseStep ==
  ASSUME IInv, NEW c \in Calls, Lose(c)
  PROVE  IInv'
  <1>1. PICK q, t, a, rest : /\ q = call[c] /\ t = q.tab /\ a = "error"
                             /\ rest = [call EXCEPT ![c] = Idle]
    OBVIOUS
  <1>2. PICK p : p = Stay(t, q, a)
    OBVIOUS
  <1>3. /\ q.step = "answered" /\ UNCHANGED <<accounts, factors>>
        /\ tab' = [tab EXCEPT ![t] = p] /\ call' = rest
    BY <1>1, <1>2 DEF Lose
  <1>4. a \in Answers /\ a # "taken"
    BY <1>1 DEF Answers
  <1>5. p \in Tab /\ Shown(p) /\ (p = tab[t] \/ q.live)
    BY <1>1, <1>2, <1>3, <1>4, StayWhat
  <1>6. /\ rest \in [Calls -> Call] /\ rest[c].step = "idle"
        /\ \A d \in Calls : d # c => rest[d] = call[d]
    BY <1>1, EndedWhat DEF IInv
  <1>7. QED
    <2>1. Ends(c, t, p)
      BY <1>1, <1>3, <1>5, <1>6 DEF SameState, Ends
    <2>2. QED
      BY <2>1, EndStep

LEMMA NextInv == IInv /\ [Next]_vars => IInv'
  <1> SUFFICES ASSUME IInv, [Next]_vars PROVE IInv'
    OBVIOUS
  <1>1. ASSUME NEW t \in Tabs, Visit(t) PROVE IInv'
    BY <1>1, VisitStep
  <1>2. ASSUME NEW t \in Tabs, NEW c \in Calls,
               HandleSignUp(t, c) \/ HandleEnroll(t, c) \/ HandleConfirm(t, c)
        PROVE  IInv'
    BY <1>2, HandleStep
  <1>3. ASSUME NEW c \in Calls, FindByEmail(c) \/ InsertUser(c) \/ CommitAccount(c)
        PROVE  IInv'
    BY <1>3, FindByEmailStep, InsertUserStep, CommitAccountStep
  <1>4. ASSUME NEW c \in Calls,
               \/ VerifyForEnroll(c) \/ UpsertPending(c)
               \/ VerifyForConfirm(c) \/ CommitConfirm(c)
        PROVE  IInv'
    BY <1>4, VerifyForEnrollStep, UpsertPendingStep, VerifyForConfirmStep, CommitConfirmStep
  <1>5. ASSUME NEW c \in Calls, Fail(c) \/ Land(c) \/ Lose(c) PROVE IInv'
    BY <1>5, FailStep, LandStep, LoseStep
  <1>6. CASE UNCHANGED vars
    <2>1. UNCHANGED <<accounts, factors>> /\ UNCHANGED <<call, tab>>
      BY <1>6 DEF vars, accounts, factors
    <2>2. QED
      BY <2>1, TabStep DEF IInv, TypeOK, TabInv, Awaits
  <1>7. QED
    BY <1>1, <1>2, <1>3, <1>4, <1>5, <1>6 DEF Next

LEMMA Invariance == Spec => []IInv
  BY InitInv, NextInv, PTL DEF Spec

(***************************************************************************)
(* The invariant gives every variable its type.                            *)
(***************************************************************************)
THEOREM OnboardingTypeCorrect == Spec => []TypeOK
  <1>1. IInv => TypeOK
    BY DEF IInv
  <1>2. QED
    BY <1>1, Invariance, PTL

(***************************************************************************)
(* register.js: "No orphan USERS row, ever", and no address with two       *)
(* accounts, however many registrations of it race.                        *)
(***************************************************************************)
THEOREM AccountsStayWhole == Spec => []AccountsAreWhole
  <1>1. IInv => AccountsAreWhole
    BY DEF IInv, AccountInv
  <1>2. QED
    BY <1>1, Invariance, PTL

(***************************************************************************)
(* What SignUp.jsx and TwoFactorSetup.jsx show is so, however late the     *)
(* answer they show is and whatever page it finds.                         *)
(***************************************************************************)
THEOREM PagesTellTheTruth == Spec => []AnswersHold
  <1>1. IInv => AnswersHold
    BY DEF IInv, TabInv, Shown, AnswersHold, Holds
  <1>2. QED
    BY <1>1, Invariance, PTL

(***************************************************************************)
(* Where /enroll did not race with /confirm, a second factor is enabled    *)
(* with the secret of which a code was given, and only so.                 *)
(***************************************************************************)
THEOREM EnabledByProof == Spec => []EnabledUnlessRaced
  <1>1. IInv => EnabledUnlessRaced
    BY DEF IInv, FactorInv
  <1>2. QED
    BY <1>1, Invariance, PTL
=============================================================================
