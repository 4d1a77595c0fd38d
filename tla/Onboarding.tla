----------------------------- MODULE Onboarding -----------------------------
(***************************************************************************)
(* From no account to the first session: SignUp.jsx and POST /api/register,*)
(* then TwoFactorSetup.jsx and the two routes of routes/two-factor.js, with*)
(* visitors in several tabs who submit, leave, come back and overtake each *)
(* other.                                                                  *)
(*                                                                         *)
(* A call outlives the page that made it.  The lock, the counter of        *)
(* failures and the sessions are those of Accounts and are left out here,  *)
(* and so are passwords that the form itself refuses.                      *)
(***************************************************************************)
EXTENDS Naturals, FiniteSets

CONSTANTS
  Tabs,         \* the tabs of all visitors
  Calls,        \* the requests that may be under way at once
  Emails,
  Passwords,    \* those that meet the password rules
  MaxUsers,     \* bound on the user numbers handed out
  MaxSecrets,   \* bound on the secrets generated
  None          \* null

ASSUME OnboardingAssumption ==
  /\ MaxUsers \in Nat /\ MaxSecrets \in Nat
  /\ None \notin Tabs \cup Emails \cup Passwords /\ None \notin Nat

VARIABLES
  users,        \* USERS
  vaults,       \* the user_id of each row of VAULTS
  created,      \* the user_id of each ACCOUNT_CREATED entry
  nextUser,     \* AUTO_INCREMENT of USERS
  config,       \* TWO_FACTOR_CONFIGS, by user_id
  nextSecret,   \* generateSecret never gives the same one twice
  call,         \* the requests
  tab,          \* what each tab shows
  proved,       \* history: the secrets of which a code let a user in
  raced         \* history: the users with an enrolment that was written
                \* between the check of a code and its effect, or after it

vars == <<users, vaults, created, nextUser, config, nextSecret, call, tab,
          proved, raced>>
accounts == <<users, vaults, created, nextUser>>
factors == <<config, nextSecret, proved, raced>>

Ids == 1..MaxUsers
Secrets == 1..MaxSecrets

User == [id : Ids, email : Emails, password : Passwords]
Config == [secret : Secrets \cup {None}, enabled : BOOLEAN]
NoRow == [secret |-> None, enabled |-> FALSE]

(* live: the page that made the call is still mounted.                      *)
Steps == {"idle", "lookup", "hashed", "inserted", "upsert", "enable", "answered"}
Answers == {"none", "created", "secret", "session", "taken", "conflict", "denied", "error"}

Call ==
  [step : Steps, kind : {"register", "enroll", "confirm"},
   tab : Tabs \cup {None}, live : BOOLEAN,
   email : Emails \cup {None}, password : Passwords \cup {None},
   user : Ids \cup {None}, secret : Secrets \cup {None},
   enables : BOOLEAN, answer : Answers]

Idle == [step |-> "idle", kind |-> "register", tab |-> None, live |-> FALSE,
         email |-> None, password |-> None, user |-> None, secret |-> None,
         enables |-> FALSE, answer |-> "none"]

(* setup1 and setup2 are the two steps of one page; elsewhere is any other  *)
(* page.  email: the one that is filled in, by the visitor or for them.     *)
Tab == [page : {"signup", "setup1", "setup2", "vault", "elsewhere"},
        email : Emails \cup {None}, password : Passwords \cup {None},
        secret : Secrets \cup {None}, submitting : BOOLEAN,
        error : Answers]

Mounted(page) == [page |-> page, email |-> None, password |-> None, secret |-> None,
                  submitting |-> FALSE, error |-> "none"]

Init ==
  /\ users = {} /\ vaults = {} /\ created = {} /\ nextUser = 1
  /\ config = [u \in Ids |-> NoRow] /\ nextSecret = 1
  /\ call = [c \in Calls |-> Idle]
  /\ tab = [t \in Tabs |-> Mounted("elsewhere")]
  /\ proved = {} /\ raced = {}

-----------------------------------------------------------------------------
(***************************************************************************)
(* The tab.                                                                *)
(***************************************************************************)
Unmount(calls, t) ==
  [c \in Calls |-> IF calls[c].tab = t THEN [calls[c] EXCEPT !.live = FALSE] ELSE calls[c]]

Visit(t) ==
  \E page \in {"signup", "setup1", "elsewhere"} :
    /\ tab[t].page # page
    /\ page = "setup1" => tab[t].page # "setup2"
    /\ tab' = [tab EXCEPT ![t] = Mounted(page)]
    /\ call' = Unmount(call, t)
    /\ UNCHANGED <<accounts, factors>>

(* Every form refuses a second submission while one is under way.           *)
Send(t, c, filled, request) ==
  /\ ~tab[t].submitting /\ call[c].step = "idle"
  /\ tab' = [tab EXCEPT ![t] = [filled EXCEPT !.submitting = TRUE, !.error = "none"]]
  /\ call' = [call EXCEPT ![c] = [request EXCEPT !.step = "lookup", !.tab = t, !.live = TRUE]]
  /\ UNCHANGED <<accounts, factors>>

HandleSignUp(t, c) ==
  /\ tab[t].page = "signup"
  /\ \E e \in Emails, p \in Passwords :
       Send(t, c, [tab[t] EXCEPT !.email = e],
            [Idle EXCEPT !.email = e, !.password = p])

HandleEnroll(t, c) ==
  /\ tab[t].page = "setup1"
  /\ \E e \in Emails, p \in Passwords :
       Send(t, c, [tab[t] EXCEPT !.email = e, !.password = p],
            [Idle EXCEPT !.kind = "enroll", !.email = e, !.password = p])

(* The code is made from the secret on the screen, or it is wrong.          *)
HandleConfirm(t, c) ==
  /\ tab[t].page = "setup2"
  /\ \E s \in {tab[t].secret, None} :
       Send(t, c, tab[t],
            [Idle EXCEPT !.kind = "confirm", !.email = tab[t].email,
                         !.password = tab[t].password, !.secret = s])

(***************************************************************************)
(* An answer arrives.  An unmounted page sets no state, but its navigate   *)
(* still works; to the page that is open already it changes nothing.       *)
(***************************************************************************)
SamePage(p, q) == p = q \/ {p, q} = {"setup1", "setup2"}

ArriveWithUser(t, q, page) ==       \* faulty variant: the user's number handed on
  IF SamePage(tab[t].page, page) THEN tab[t]
  ELSE [Mounted(page) EXCEPT !.email = IF page = "setup1" THEN q.user ELSE None]

Arrive(t, q, page) ==
  IF SamePage(tab[t].page, page) THEN tab[t]
  ELSE [Mounted(page) EXCEPT !.email = IF page = "setup1" THEN q.email ELSE None]

Stay(t, q, answer) ==
  IF q.live THEN [tab[t] EXCEPT !.submitting = FALSE, !.error = answer] ELSE tab[t]

Landed(t, q) ==
  CASE q.answer = "created" -> Arrive(t, q, "setup1")
    [] q.answer = "session" -> Arrive(t, q, "vault")
    [] q.answer = "secret" /\ q.live ->
         [tab[t] EXCEPT !.page = "setup2", !.secret = q.secret, !.submitting = FALSE]
    [] OTHER -> Stay(t, q, q.answer)

Land(c) ==
  LET q == call[c]
      t == q.tab
      next == Landed(t, q)
      rest == [call EXCEPT ![c] = Idle]
  IN
  /\ q.step = "answered"
  /\ tab' = [tab EXCEPT ![t] = next]
  /\ call' = IF SamePage(tab[t].page, next.page) THEN rest ELSE Unmount(rest, t)
  /\ UNCHANGED <<accounts, factors>>

(* The answer is lost: the fetch rejects.                                   *)
Lose(c) ==
  LET q == call[c] IN
  /\ q.step = "answered"
  /\ tab' = [tab EXCEPT ![q.tab] = Stay(q.tab, q, "error")]
  /\ call' = [call EXCEPT ![c] = Idle]
  /\ UNCHANGED <<accounts, factors>>

-----------------------------------------------------------------------------
(***************************************************************************)
(* POST /api/register.                                                     *)
(***************************************************************************)
Answer(c, answer) ==
  call' = [call EXCEPT ![c].step = "answered", ![c].answer = answer]

Registered(e) == \E u \in users : u.email = e

FindByEmail(c) ==
  LET q == call[c] IN
  /\ q.step = "lookup" /\ q.kind = "register"
  /\ IF Registered(q.email) THEN Answer(c, "taken")
     ELSE call' = [call EXCEPT ![c].step = "hashed"]
  /\ UNCHANGED <<accounts, factors, tab>>

(* UQ_USERS_EMAIL: an address that is being inserted makes others wait, one *)
(* that is there rejects the statement; a number is used up either way.     *)
NeverInserting(e) == FALSE          \* faulty variant: without UQ_USERS_EMAIL

Inserting(e) == \E d \in Calls : call[d].step = "inserted" /\ call[d].email = e

InsertUser(c) ==
  LET q == call[c] IN
  /\ q.step = "hashed" /\ ~Inserting(q.email) /\ nextUser <= MaxUsers
  /\ nextUser' = nextUser + 1
  /\ IF Registered(q.email) THEN Answer(c, "error")
     ELSE call' = [call EXCEPT ![c].step = "inserted", ![c].user = nextUser]
  /\ UNCHANGED <<users, vaults, created, factors, tab>>

(* The vault, the entry, and the commit of all three.                       *)
CommitAccount(c) ==
  LET q == call[c] IN
  /\ q.step = "inserted"
  /\ users' = users \cup {[id |-> q.user, email |-> q.email, password |-> q.password]}
  /\ vaults' = vaults \cup {q.user}
  /\ created' = created \cup {q.user}
  /\ Answer(c, "created")
  /\ UNCHANGED <<nextUser, factors, tab>>

-----------------------------------------------------------------------------
(***************************************************************************)
(* POST /api/2fa/enroll and /confirm, each from its snapshot of the user.  *)
(***************************************************************************)
Addressed(q) == {u \in users : u.email = q.email}   \* faulty variant: any password

Verified(q) == {u \in users : u.email = q.email /\ u.password = q.password}

VerifyForEnroll(c) ==
  LET q == call[c] IN
  /\ q.step = "lookup" /\ q.kind = "enroll"
  /\ \/ Verified(q) = {} /\ Answer(c, "denied")
     \/ \E u \in Verified(q) :
          IF config[u.id].enabled THEN Answer(c, "conflict")
          ELSE call' = [call EXCEPT ![c].step = "upsert", ![c].user = u.id]
  /\ UNCHANGED <<accounts, factors, tab>>

UpsertPending(c) ==
  LET q == call[c] IN
  /\ q.step = "upsert" /\ nextSecret <= MaxSecrets
  /\ config' = [config EXCEPT ![q.user] = [secret |-> nextSecret, enabled |-> FALSE]]
  /\ nextSecret' = nextSecret + 1
  /\ call' = [call EXCEPT ![c].step = "answered", ![c].answer = "secret",
                          ![c].secret = nextSecret]
  /\ raced' = IF \/ config[q.user].enabled
                 \/ \E d \in Calls : call[d].step = "enable" /\ call[d].user = q.user
                THEN raced \cup {q.user} ELSE raced
  /\ UNCHANGED <<accounts, proved, tab>>

HasSecret(q, row) == row.secret # None      \* faulty variant: the code is not checked

Proves(q, row) == row.secret # None /\ q.secret = row.secret

VerifyForConfirm(c) ==
  LET q == call[c] IN
  /\ q.step = "lookup" /\ q.kind = "confirm"
  /\ \/ /\ \A u \in Verified(q) : ~Proves(q, config[u.id])
        /\ Answer(c, "denied")
     \/ \E u \in Verified(q) :
          /\ Proves(q, config[u.id])
          /\ call' = [call EXCEPT ![c].step = "enable", ![c].user = u.id,
                                  ![c].enables = ~config[u.id].enabled]
  /\ UNCHANGED <<accounts, factors, tab>>

(* enableTwoFactorConfig names the user, not the secret.                    *)
CommitConfirm(c) ==
  LET q == call[c] IN
  /\ q.step = "enable"
  /\ config' = [config EXCEPT ![q.user].enabled = @ \/ q.enables]
  /\ proved' = proved \cup {[user |-> q.user, secret |-> q.secret]}
  /\ Answer(c, "session")
  /\ UNCHANGED <<accounts, nextSecret, raced, tab>>

(* A statement rejects, a transaction is rolled back, the process dies.     *)
Fail(c) ==
  /\ call[c].step \notin {"idle", "answered"}
  /\ Answer(c, "error")
  /\ UNCHANGED <<accounts, factors, tab>>

Next ==
  \/ \E t \in Tabs : Visit(t)
  \/ \E t \in Tabs, c \in Calls : HandleSignUp(t, c) \/ HandleEnroll(t, c) \/ HandleConfirm(t, c)
  \/ \E c \in Calls :
       \/ FindByEmail(c) \/ InsertUser(c) \/ CommitAccount(c)
       \/ VerifyForEnroll(c) \/ UpsertPending(c)
       \/ VerifyForConfirm(c) \/ CommitConfirm(c)
       \/ Fail(c) \/ Land(c) \/ Lose(c)

Spec == Init /\ [][Next]_vars

-----------------------------------------------------------------------------
TypeOK ==
  /\ users \subseteq User /\ vaults \subseteq Ids /\ created \subseteq Ids
  /\ nextUser \in Nat /\ nextSecret \in Nat
  /\ config \in [Ids -> Config]
  /\ call \in [Calls -> Call] /\ tab \in [Tabs -> Tab]
  /\ proved \subseteq [user : Ids, secret : Secrets] /\ raced \subseteq Ids

(***************************************************************************)
(* register.js: "No orphan USERS row, ever".  However registrations race   *)
(* and fail, each account has its vault and its entry and neither is there *)
(* without it, an address and a number have one account.                   *)
(***************************************************************************)
AccountsAreWhole ==
  /\ vaults = {u.id : u \in users} /\ created = vaults
  /\ \A u, v \in users : u.email = v.email \/ u.id = v.id => u = v

(***************************************************************************)
(* What a tab shows is so, whatever happened since it asked: the address a *)
(* sign-up hands on to the next page has an account, one that is said to   *)
(* be taken is; whoever is shown a secret has proved the password of the   *)
(* account, and the account has that secret or a later one.                *)
(***************************************************************************)
AnswersHold ==
  \A t \in Tabs : LET p == tab[t] IN
    /\ p.error = "taken" => Registered(p.email)
    /\ p.page = "setup1" /\ p.email # None /\ p.password = None => Registered(p.email)
    /\ p.page = "setup2" => \E u \in users :
         /\ u.email = p.email /\ u.password = p.password
         /\ config[u.id].secret >= p.secret

(***************************************************************************)
(* two-factor.js: a row "only ever flips to TRUE after a live TOTP code    *)
(* proves the user actually holds the secret".                             *)
(***************************************************************************)
EnabledIsProved ==
  \A u \in Ids : config[u].enabled => [user |-> u, secret |-> config[u].secret] \in proved

(***************************************************************************)
(* Where no enrolment raced with a confirmation, the second factor is      *)
(* enabled exactly for the users who got in with it, and with the secret   *)
(* whose code they gave.                                                   *)
(***************************************************************************)
EnabledUnlessRaced ==
  \A u \in Ids \ raced :
    /\ config[u].enabled => [user |-> u, secret |-> config[u].secret] \in proved
    /\ \A p \in proved : p.user = u => config[u].enabled
=============================================================================
