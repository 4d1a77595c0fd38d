# SecureVault in TLA+

This directory is a verification project for SecureVault (SPMS), the password and document
vault in this repository: an Express backend over MySQL and an object store, a React client
and a browser extension. It holds TLA+ modules translated from the source, TLC configurations
that check them on small instances, and proofs that TLAPS checks for every size.

    tlasany Vault.tla                                  parse a module
    tlc -workers 2 -config MCVault.cfg MCVault.tla     model-check a run
    tlapm VaultProofs.tla                              check the proofs of a module

`PROJECT.json` lists the runs, the mutants that show each property can be broken, the source
lines behind every definition, the hazards of the code and what covers them.

## 1. The system

| Component | Source | State | Operations |
| --- | --- | --- | --- |
| Sign-in, lockout, logout | `app/src/routes/session.js`, `ports/users.js`, `services/session-issuer.js` | `USERS` (hash, `failed_attempts`, `is_locked`, `lockout_until`) | login, logout |
| Two-factor enrolment | `routes/two-factor.js`, `services/two-factor-*.js` | `TWO_FACTOR_CONFIGS` (secret, `enabled`) | enroll, confirm (which also signs in) |
| Password reset | `routes/password-reset.js` | both tables above | reset |
| Sessions | `ports/sessions.js` | `SESSIONS` | start, revoke, revokeAllForUser, isRevoked |
| Tokens and middleware | `services/token-service.js`, `middleware/authenticate.js` | none: a signed token slides ten minutes at a time under a twelve-hour cap | mint, renew, verify |
| Credential vault | `routes/credentials.js`, `ports/credentials.js` | `VAULT_ITEMS` with `CREDENTIALS` | add, list, get, update, remove |
| Document vault | `routes/documents.js`, `ports/documents.js`, `ports/blob-store.js` | `VAULT_ITEMS` with `SECURE_DOCUMENTS`, and the bucket | upload, list, download, delete |
| Audit log | `models/audit-entry.js`, `services/audit-log.js`, `ports/audit-reader.js` | `AUDIT_LOG`, append-only | append; keyset pages for a user and for the administrator |
| Password health | `routes/password-health.js`, `ports/password-health.js` | reports, findings, alerts; findings go with their credential by a cascade | create, latest |
| Registration | `routes/register.js`, `ports/vaults.js` | a `USERS` and a `VAULTS` row, `UQ_USERS_EMAIL` | register |
| Transactions | `db/pool.js` | a pool of ten connections | transaction |
| Client session | `client/src/services/*.js` | token, vault key, auto-lock timer, pending login | login, logout, every request, auto-lock |
| Client pages | `client/src/pages/*.jsx` | React state of a page | handlers that await a request and then set state |
| Browser extension | `extension/*.js`, `ExtensionBridge.jsx` | pending callbacks by domain, the vault tab | request, forward, register, removal of a tab |
| Cryptography, policies, generators | `services/crypto.js`, `client/src/services/vault-crypto.js`, ... | none | pure functions |
| Infrastructure | `terraform/`, `.github/` | none of the program | |

**How they interact.** A handler is a chain of awaited calls, so Node runs other handlers
between any two of them. It reads the user once, with `findByEmail`, and decides on that
snapshot. What must commit together runs in `transaction(fn)`, with the audit entry on the same
connection (`context: tx`); failure counting, the clearing of the counter and the sighting of a
device run outside it. The object store is in no transaction: an upload writes the blob before
the rows and compensates, a deletion removes it after the commit. Credentials and documents
share `VAULT_ITEMS`, its numbering and its ownership join; a health report refers to credentials and
loses its findings with them. The pages of the client read a list or a page once and edit it after
each answer; the extension reaches the vault only through messages to one of the open tabs.

**What is hard.** Snapshots that are stale when used; single statements of concurrent requests on
one row; two stores and one transaction; a commit whose acknowledgement is lost; the process dying
between two steps; compensation that itself fails; an id of one type in the routes of the other;
rows that are read by several statements while others change them; log entries that take their
time before they are there; in the client, answers that arrive after a logout, after the page or
the dialog they were for, or after each other; a service worker that is stopped; and under all of
it a pool of ten connections in which a login needs two. `PROJECT.json` lists each such place with
its line.

**What makes each component correct.**

* Sign-in: the lock and the counter agree, the guesses that still count after the lock are
  bounded, a lock stays, and the tables never say what the log does not.
* Sessions: a session is live until its own logout or a reset of its own account is logged, its
  number is never given out again; it survives a reset only if the reset overtook its login.
* Enrolment: the secret that is enabled is one that a confirmation verified; enabling is logged
  exactly when it happens; enrolling again never disables.
* Tokens and the tab: no token outlives its session's cap or an idle window, or changes hands;
  a session that is over stays over; the lock that will fire is the one on the screen; a running
  countdown ends the session.
* Pool: connections come back whatever rejects, and every request comes to its end.
* Health reports: a report is there whole or not at all, only about one's own credentials, and
  what three statements read is one report.
* Audit pages: a walk through the pages repeats nothing and skips nothing that was there; nobody
  reads another's log without leaving a record.
* Onboarding: no account without its vault, no two of one address; a page says only what is so;
  a second factor is enabled by a code for the secret that is enabled.
* Extension: a form that waits is waited for by somebody who will answer.
* Pages: when the handlers are done the page shows the vault, and the plaintext in a dialog is
  that of its row.
* Vault: everybody sees, edits and deletes only what is their own; nothing is shown that is not
  logged; rows and log change together; a document has its blob; a blob without a row has a
  reason.

## 2. The modules

| Module | What it is | Models |
| --- | --- | --- |
| `UserRow` | operators on the rows of one account | the statements of `ports/users.js`, the verdicts of `session-issuer.js` |
| `Accounts` | the state machine of sign-in | `routes/session.js`, `two-factor.js`, `password-reset.js`, `ports/sessions.js` |
| `AccountLedger` | what sign-in promises, without requests | abstract; `Accounts` implements it |
| `Vault` | the state machine of the vault | `routes/credentials.js`, `documents.js`, their ports, the blob store |
| `VaultLedger` | what the vault promises, without calls, blobs or failures | abstract; `Vault` implements it |
| `Browser` | one tab of the client and the sliding sessions behind it | `client/src/services/*`, `token-service.js`, `authenticate.js`, `ports/sessions.js` |
| `SessionLedger` | where a tab's tokens come from, without fetches, timers or the order of answers | abstract; `Browser` implements it |
| `Pool` | the connections and who waits for them | `db/pool.js` under the routes; mysql2's pool as an external part |
| `HealthReports` | the state machine of password health | `routes/password-health.js` and its port, beside the credentials routes |
| `ReportLedger` | what password health promises, without requests, tables or clocks | abstract; `HealthReports` implements it |
| `AuditPages` | a growing log and those who page through it | `ports/audit-reader.js`, `routes/pagination.js`, `audit.js`, `admin-audit.js`, `Activity.jsx` |
| `Onboarding` | from no account to the first session, in several tabs | `routes/register.js`, `two-factor.js`, `SignUp.jsx`, `TwoFactorSetup.jsx` |
| `Extension` | the messages between forms, worker and vault tab | `extension/*.js`, `ExtensionBridge.jsx`, the mounting in `App.jsx`; Chrome's messaging as an external part |
| `VaultScreen` | the two vault pages and the handlers that wait on them | `Credentials.jsx`, `Documents.jsx`, `vault-health-analyzer.js` |
| `MCAccounts`, `MCVault`, `MCBrowser`, `MCPool`, `MCHealth`, `MCAudit`, `MCOnboarding`, `MCExtension`, `MCScreen` | instances for TLC | |
| `AccountsProofs`, `VaultProofs`, `BrowserProofs`, `PoolProofs`, `HealthProofs`, `AuditProofs`, `OnboardingProofs` | theorems about the module of that name | |
| `ClientProofs` | theorems about `Extension` and `VaultScreen` | |

`Accounts`, `Vault`, `Browser` and `HealthReports` are composed with the abstract module each
implements; `AuditPages` and `Onboarding` compose routes of the server with the pages that call them. `Browser`
and `Pool` look at the same requests from the other ends, the tab that sends them and the connections
that serve them, and keep of the routes only what those ends can see.

### Accounts

A request is a process: `pc[r]` is the call it awaits, `req[r]` what it holds across awaits.
`user`, `twoFactor`, `sessions` and `audit` are the committed tables, `nextSession` the
`AUTO_INCREMENT` of `SESSIONS`, which a rollback does not give back. Every handler begins with
`Begin` (its snapshot and the checks on it) and each later action is one awaited statement, or
the commit of a transaction: `Login`, `LogFailure`, `CountFailure`; `Enroll`, `UpsertPending`;
`Confirm`; `Reset`, `ChangePassword`; `Logout`, `EndSession`; and the transaction that login and
confirmation share, `StartSession`, `RecordDevice`, `CommitLogin`, followed by `ClearFailures`.
`Fail` ends a request anywhere: a rejected statement, a rollback, a crash. The row locks that
InnoDB holds during that transaction (`UserRowFree`, `ConfigRowFree`) are taken from how the
statements use foreign keys and updates; they forbid some interleavings, and nothing else does.

A password stands for its hash, a secret for every code made from it. `RecordFailed` is MySQL's
left-to-right `UPDATE`, which reads columns already assigned. A slot of `Requests` serves one
request after another, so its number is the concurrency, not the length of the run.

### Vault

A call is made once and names what it creates: the item number, the key of the blob, the
ciphertext. `items` is `VAULT_ITEMS` joined with its subtype, `blobs` the keys in the bucket,
`audit` the log, `served` what each call was shown. `mishaps` is a history variable: which blob
a failure touched and how; properties use it to excuse exactly what that failure explains.
A read is three steps (`Get...`/`List...`, `LogRead`, `Respond`), an upload is `Upload` or
`PutFails`, then one of `StoreDocument`, `StoreRejected`, `StoreUnacknowledged` (the commit was
made, its acknowledgement lost) or `RefetchRejected` (the SELECT that `add` returns without
awaiting), then the compensation `RemoveBlob` or `RemoveFails`. A deletion of a document is
`FindDocument`, `EraseDocument`, `RemoveBlob`. The writes of the credentials routes are one step
each, their transaction; they reach documents too, because their `UPDATE` and `DELETE` join
`VAULTS` but not `CREDENTIALS`. `Crash` ends a call anywhere.

### Browser

`token`, `expiresAt`, `timer` and `key` are the module state of `token-store.js`, `session.js` and
`vault-key-store.js`. Each fetch is a `call` with a step: it carries the token the tab held when
it was sent, the server verifies it (`Verify`), looks the session up (`LookUp`, `Refuse`), renews
the token when the lookup is answered (`Admit`), and the answer is taken in when it arrives
(`Deliver`) or never (`Lost`). Between `LookUp` and `Admit` the row may go, and the renewal is made
all the same; or the cap may pass, and `mint` throws: `Admit` is then disabled, and what is left of
the request is an error without session headers, which is `Lost`.
A login is `Login`, `StartRow`, `Grant`, `BeginSession`, then its own `GET /session`, then
`DeriveKey`, each after an await; a logout revokes on the server and clears the tab whatever the
answer was. `Capture` and `EndSession` are `captureRefreshedSession` and `endSession`. A `Token`
has its session, user, start and expiry; a `Row` its start, from which `expires_at` follows.
`StartRow` and `Grant` are two steps because the row's time is taken before the token's.
`ResetElsewhere` is what a password reset in another browser does to the table.

To `SessionLedger` the tab's token is `held`, all tokens in the tab or in a fetch are `issued`, those
of fetches past `Verify` and past `LookUp` are `accepted` and `found`, and a session number is `used`
when its row was committed or given up.

### Pool

`owner` says who holds a connection, `queue` who waits for one, `step` what each request awaits.
A request makes a statement (`LookUp`), then holds a connection from `GetConnection` to `Commit`
or `Rollback`; a login or confirmation also waits for a second one meanwhile (`SeeDevice`,
`Sighted`) and makes one more statement afterwards (`ClearFailures`, `Cleared`). `Ask` and
`Release` are mysql2's: a connection that comes back goes to the first in the queue.

### HealthReports

A request that writes has taken its snapshot (`Submit`), inserted the report (`CreateReport`), the
findings (`AddFindings`, or the refusal that undoes everything), and commits with alerts and audit
entry (`CommitReport`). What it has not committed is in `req[r]`; the tables hold what is. A read
is `ReadLatest`, `ReadFindings`, `ReadAlerts`, three statements that see three states of the
database. `Latest` is a set, because `ORDER BY generated_at` does not tell two reports of one
second apart. The credentials come and go beside it: `DeleteItem` cascades to findings (`Cascade`)
and waits for the share lock that an inserted finding holds on its credential (`ShareLocked`). The
browser computes the labels, so a claim is any valid set of findings about any items. `submitted`,
`told` and `floor` are history: what was asked to be written, what a user has been answered with.

### AuditPages

`tx[w]` is a transaction that appends: an ordinary route owes one entry, an administrator's read
the `Copies` in both logs. `Mint` builds an entry and takes its time, `Insert` gives it its number,
`Commit` makes it visible, `Disclose` answers the administrator; `Abandon` is a rollback or a
crash. `ReadPage` is the keyset query with its one row too many. `page[u]` is the state of
`Activity.jsx`; `Serve` and `Show` are the answer made and the answer taken in, `LoadFails` leaves
entries and cursor of the page before. `seen` keeps what each cursor of a walk showed, `known` what
there was to see when it began. `jumped` is set by a Next under an error: the cursor then used
belongs to another page, and nothing is claimed of that walk.

### Onboarding

`call[c]` is a request of `register`, `enroll` or `confirm`, which outlives the page that made it
(`live`). `FindByEmail`, `InsertUser`, `CommitAccount` are the registration: an insertion of an
address that another transaction is inserting waits (`Inserting`), one that is there rejects, and
the number is used up either way. `VerifyForEnroll`, `UpsertPending` and `VerifyForConfirm`,
`CommitConfirm` are the two routes over `config`; lock, counter and sessions are in `Accounts`.
`tab[t]` is what a tab shows; `Land` takes an answer in as the page does, with `navigate` working
after an unmount and state setters not, `Lose` is a fetch that rejects, `Visit` any navigation.
`raced` names the users for whom an enrolment was written over a confirmation under way, or over
an enabled configuration.

### Extension

`ask` are the questions of forms and popups, those that wait being `pendingRequests`; `chain` is
what each has set off: `get` on the way to the tab, `posted` to the window, `list` awaited by the
bridge, `forward` on the way back. Any answer for a domain answers all its questions. A tab logs
in, locks, unmounts the bridge, closes or reloads (`Unload`), its registration and its removal being
messages of their own; `Restart` is the browser stopping the worker. A tab without the bridge
acknowledges and drops the question: `dropped` remembers the domains this happened to while
somebody waited.

### VaultScreen

`job[j]` is a handler that waits: on the API (`Serve`), a decryption or an analysis; `list` is the
list it closed over. `NextItems` is what each handler makes of `Base`: the credentials page edits
the list of the click, the documents page the list it finds. `dialog` is the dialog shown, with its
row and plaintext. The order of the rows is left out, so `Without` may reorder what it keeps.
`Leave` unmounts the page: reads are forgotten, writes under way go on.
`crossed` is history: what overlapping handlers, a failed load or a lost answer may have spoilt,
until it is read again.

## 3. What the runs check

| Run | Instance | Shows |
| --- | --- | --- |
| `accounts` | 1 account, 2 requests at once, 2 passwords, threshold 3, 2 sessions, a clock | types, log and tables, sessions, lock and counter, bound on guesses, permanence of the lock, what a reset kicks, refinement of `AccountLedger` |
| `vault` | 2 accounts, 4 calls | types, rows and blobs, orphans, disclosure, refinement of `VaultLedger` |
| `browser` | 1 user, 2 fetches in flight, 2 sessions, idle window 2, cap 3, clock up to 4 | types, timer and countdown, tokens keep to their sessions and what is found can be renewed, a session that is over stays over, a running countdown ends the session |
| `pool` | 3 connections, 3 requests at once, at most 2 logins | types, connections and their use, no lock-up, every request ends |
| `health` | 2 users, 2 credentials, 2 requests at once, an alerting label and another, 2 reports, a clock | types, whole reports, reads of one report, none older than before, refinement of `ReportLedger` |
| `audit_pages` | an administrator, a user who reads, 2 transactions at once, pages of 1, 3 entries, 2 times, walks of 4 pages | types, nothing skipped, nothing repeated, administrators' reads recorded |
| `onboarding` | 2 tabs, 2 requests at once, 1 address, 2 passwords, 2 user numbers, 2 secrets | types, whole accounts, truthful pages, the factor enabled by its code |
| `extension` | 2 tabs, 2 questions at once, 1 domain | types, no question forgotten, every question ends |
| `screens` | either page, 2 rows, a weak and a strong password, 2 handlers at once | types, the list and badges are the vault's, the plaintext is the row's |
| `reset_race`, `vault_locks`, `enabled_is_proved` | as above, with a clock that stands still in the first | a counterexample each |

The last three are counterexamples: each checks one sentence of the repository that the code does
not keep, and its trace is the shortest way to see it (section 6).

**Why the bounds are enough.** Two requests give every race of a snapshot against one other
writer. Threshold 3 leaves room for a counter below, at and past the lock; the constants 5 and 15
only scale it (the theorems hold for any threshold of two or more). Two sessions let a second
login follow a logout or a rollback. What one account's logout or reset could do to another's
sessions takes two accounts, which are left to the theorem. Four calls let a document be stored,
found for deletion, read, and deleted by the other route, with every failure in between. Two
accounts are all that ownership can tell apart, since nothing in the code compares more than two.
Two fetches let one overtake the other, and a login be answered after a logout; a window of two
and a cap of three make a full, a clamped and a refused renewal of one session possible within
four ticks. One user is enough there because a token is compared with nothing but its own
session's row; the theorems have any number. Three connections with two logins are the tightest
pool that does not lock up: both logins and a write hold all three and both logins wait.

In `health` two reports and a deletion let a read fall between any two of them, and two
credentials let one be deleted and another stay. In `audit_pages` three entries on pages of one
make a walk with a middle, while two transactions insert in one order and commit in the other; two
times give entries of one millisecond and of different ones. In `onboarding` a second address
would only add accounts that nothing relates to the first; two passwords are two people who want
the same address, and two secrets an enrolment that replaces another's. In `extension` one domain
is where questions are answered for each other; two tabs let one replace the other as the vault.
In `screens` two handlers are an overlap, and two rows with two passwords make every badge. Its
guard `"list" \notin crossed` in `Submit` is a bound as well: a list that may be spoilt is not
edited further until it is read again, and nothing is claimed of it until then.

`MaxSessions`, `MaxClock`, `MaxLogins`, `MaxReports`, `MaxEntries`, `MaxStack`, `MaxUsers`,
`MaxSecrets` and `Items` are guards in `StartSession`, `StartRow`, `Grant`, `Tick`, `Arrive` (of
`Pool`), `Submit` and `CreateReport`, `Act`, `AdminRead` and `Insert`, `HandleNext`, `InsertUser`,
`UpsertPending`, `AddItem` and `Serve`. `StartRow` and `Grant` ask that the whole life of a session
fits in the clock, so that no property holds because time ran out, and leave a second between a
row and its token. `MaxLogins` is no bound of the code: with as many logins at once as connections
the pool locks up (section 6). The theorems hold for any value of them all, `NeverStuck` for
`MaxLogins` below the number of connections.

**Deadlock** is checked in every run but `vault`, which stops when every call has been made: its
configuration says `CHECK_DEADLOCK FALSE`.

**Fairness.** Most modules assume none: the backend retries nothing and has no background work, and
a user need not go on. `Browser` assumes weak fairness of `Tick` and `AutoLock`: time passes, and the
browser's event loop runs a timer that is due. Nothing obliges the user to act, the network to
answer or the server to answer, and `ArmedSessionEnds` holds without. `Pool` assumes weak
fairness of what each request does next: a statement that has a connection is answered or
rejected (MySQL ends lock waits by a timeout or by choosing a victim), and Node runs the
continuation. Waiting in the queue is not a step of the request, so fairness gives it nothing.
`Extension` assumes weak fairness of `Deliver(a)`: Chrome delivers the messages of a chain, and the
bridge's list and decryption end, by an answer or by the error that it catches. No tab is obliged
to log in, to stay open or to show the bridge.

**Symmetry** is used for requests, secrets, calls, fetches (in `vault_locks`), accounts, credentials, transactions,
tabs, handlers and the passwords of `onboarding`, which nothing tells apart but their names, and
never in a run with a liveness property.

## 4. What is proved

For any number of accounts, requests, calls, tabs or credentials, and any value of the other
constants that the named assumptions of the modules admit (the lockout threshold is at least 2;
requests and connections are finite; the idle window and the cap are positive; the initial
password is a password; `None`, `Over` and `NoSecret` are not values of what they stand in for):

| Theorem | Says |
| --- | --- |
| `AccountsProofs!TypeCorrect` | `Accounts` is well typed |
| `AccountsProofs!LockFollowsCounter` | flag and counter never drift apart |
| `AccountsProofs!LockNeverLifted` | once nobody is under way with an unlocked snapshot, a lock is for good |
| `AccountsProofs!GuessesAreBounded` | flag and counter agree, and the counter passes the threshold by at most the guesses in flight |
| `AccountsProofs!ResetsKick` | a session outlives a reset only by being overtaken by it between check and transaction |
| `AccountsProofs!TablesAreAudited` | what the tables say is in the log |
| `AccountsProofs!EndsAreAccountedFor` | a session lives until its end is logged |
| `AccountsProofs!AccountsImplementsLedger` | `Accounts` implements `AccountLedger` |
| `VaultProofs!TypeCorrect` | `Vault` is well typed |
| `VaultProofs!DisclosuresLogged` | what is shown is one's own, and logged |
| `VaultProofs!RowsKeepBlobs` | a document has its blob, but for a lost acknowledgement |
| `VaultProofs!OrphansExplained` | an unreachable blob has a cause |
| `VaultProofs!VaultImplementsLedger` | `Vault` implements `VaultLedger` |
| `BrowserProofs!TypeCorrect` | `Browser` is well typed |
| `BrowserProofs!CountdownCorrect` | timer and countdown are one deadline |
| `BrowserProofs!TokensCorrect` | a token keeps to its session, cap and window |
| `BrowserProofs!FoundCanBeRenewed` | what the lookup finds can be renewed at that moment, however late |
| `BrowserProofs!WindowSlides` | both of these, as the run checks them |
| `BrowserProofs!BrowserImplementsLedger` | `Browser` implements `SessionLedger` |
| `BrowserProofs!SessionsEndForGood` | a session that is over is found no more, and renewed only by who had found it |
| `PoolProofs!TypeCorrect` | `Pool` is well typed |
| `PoolProofs!NoConnectionLeaks` | a request holds what it uses |
| `PoolProofs!PoolNeverStuck` | with fewer logins than connections there is no lock-up |
| `HealthProofs!HealthTypeCorrect` | `HealthReports` is well typed |
| `HealthProofs!ReportsStayWhole` | a report is there with all it came with, or not at all |
| `HealthProofs!FindingsStayOwn` | a finding is about a credential of its report's vault |
| `HealthProofs!ReadsReturnOneReport` | three statements read one report |
| `HealthProofs!ReadsNeverGoBack` | no report is shown after a newer one |
| `HealthProofs!HealthImplementsLedger` | `HealthReports` implements `ReportLedger` |
| `AuditProofs!AuditTypeCorrect` | `AuditPages` is well typed |
| `AuditProofs!AdminReadsRecorded` | an administrator's answer has its own committed records |
| `AuditProofs!PagesSkipNothing` | a walk skips no entry it could have known |
| `AuditProofs!PagesRepeatNothing` | a walk repeats none and ends on a page with entries |
| `OnboardingProofs!OnboardingTypeCorrect` | `Onboarding` is well typed |
| `OnboardingProofs!AccountsStayWhole` | account, vault and entry go together, one to an address |
| `OnboardingProofs!PagesTellTheTruth` | what a tab shows is so in the tables |
| `OnboardingProofs!EnabledByProof` | without a race, enabled means proved with that secret |
| `ClientProofs!ExtensionTypeCorrect` | `Extension` is well typed |
| `ClientProofs!NobodyForgotten` | a question that waits has a chain on its way, but for a lost one |
| `ClientProofs!ScreenTypeCorrect` | `VaultScreen` is well typed |
| `ClientProofs!ListOfTheVault` | a page whose handlers are done lists the vault, with its badges |
| `ClientProofs!SecretOfTheViewed` | the plaintext in a dialog is that of its row |

**Accounts.** The bound on guesses is not inductive: `GuessBound` adds, per account, the set of
requests that are still to count a failure of it, and shows counter plus guesses in flight never
passes threshold plus requests, because a request that has not read yet cannot become a guess
once the account is locked. The permanence of the lock needs only the lock lemma: the two
actions that reset the counter run in requests that `LockedForGood` excludes. That a reset kicks
every session but for one race, the one of `reset_race`, is an induction on steps too: a login brings
only the password it found, and a reset waits for the logins that are in their transactions
(`UserRowFree`), so only one that has not begun its own can be overtaken. The audit theorems
rest on `Numbering`: a session number is in the log, in the table or in flight at most once, and
below `nextSession`; and on `ReadyToCommit`: what a login will need to commit is there before it
commits. The refinement takes its steps from `CommitLogin`, `EndSession`,
`ChangePassword` and `UpsertPending`; every other action stutters.

**Vault.** `RowsHaveBlobs` is not inductive, because it does not say that an upload past its put
still has its blob, nor why a removal cannot hit a live row. The strengthening `IInv` of
`VaultProofs` says where things come from: an item was stored by the call of its own
number, whose entry is in the log (`ItemInv`); what a call under way relies on (`CallInv`: an
upload's blob is there, a committed deletion's item is gone); numbers are unique; a storing
entry names a call that is past its commit (`LogInv`, from which a number is fresh). Every step
changes one call, so `StepKeeps` proves once what a step does to all others, and each action is
left with its own item, record, entry and answer. The two blob theorems and the refinement then
follow from `IInv` in two-state arguments.

**Browser.** What a token says of its session is only true because of what is in flight: a row
that is not committed yet has a number no token and no other row has (`MintOK`), and every token
in a call satisfies `TokenOK` at each of its steps (`CallsInv`). From the row's start being no
later than the token's follows that a lookup that finds the row finds a token below its cap. In the
refinement each server step on a token is one step of the ledger, and whatever the client does is
its `Moves`, for the tab only takes in, drops and sends tokens that there are. That a session that
is over stays over is then read off the ledger: no step of it opens a used number or takes a
session that is gone back in.

**Pool.** `NothingLeaks` counts connections per request; each action asks for one, gives one back
or does neither, and three lemmas say what that does to the requests that are not acting, the
head of the queue among them. `NeverStuck` is a pigeonhole: a request that holds a connection and
waits is a login in its sighting, with exactly that one; if every holder waited there would be as
many logins as connections.

**Health.** `IInv` of `HealthProofs` says where a report number is: in one request or in the table,
never in two places (`Stored`, `Holds`, `Distinct`); that a request past its findings names live
credentials of its own snapshot, which the share lock keeps true; and that a read's report and
labels stay in what was submitted. `NeverOlder` needs `ToldOK`: what a user was told is still there
to be found. The refinement has one lemma per step of the ledger, a commit publishing and a
deletion pruning every report at once.

**Audit.** The writing side (`WriteInv`) is about numbers: handed out once and upwards, a read's owed
copies either still to do or in its draft, drafts apart from each other, from the log and from what
was disclosed. The reading side (`ReadInv`) follows a walk: its cursors go down (`Descends`), and
each page that was left holds exactly the known entries between its cursor and the next one
(`Walked`), as does the page on display and the answer on its way. That the log grows meanwhile
changes nothing below a cursor that was known, which is where the order being total and the sets
being finite are used. Both page theorems are then one argument: an entry above the last cursor
lies between two neighbouring points of the walk, and two slices do not overlap.

**Onboarding.** Each call stands on something that nobody takes back, for accounts are not deleted
and secrets only replaced by later ones (`Grows`): an insertion on an unused number and address
(`Newcomer`, which the unique key keeps apart from other insertions), an enrolment or confirmation
on a user it verified (`Owner`), an answer on what it says (`Told`). A page waits for one live call
and shows what that call was about (`TabInv`), so an answer lands in the page it was for.

**Extension.** `NobodyIsForgotten` needs that a question that is not yet asked has no chain
(`SentIsFresh`): asking then adds its own, a lost chain of an awaited domain is remembered, and
every answer clears the questions of its domain with the chain that brought it.

**VaultScreen.** What is promised holds when the handlers are done, so the invariant says what a
waiting handler will do. On the credentials page (`CredentialsInv`) at most one handler writes while
the list is not spoilt; it holds the list on display, which is the vault until the server has acted,
and afterwards what it makes of that list is the vault (`Consistent`). On the documents page
(`DocumentsInv`) any number write at once: the rows on display less those deleted plus those added by
answers not yet taken in are the vault (`Settled`), which needs that an id is never given again and
that nobody deletes a row the page has not shown yet. Before the first load nothing is claimed of the
list but of the load's answer. The badges are those of the list, or an analysis of that very list is
under way (`BadgesInv`), and the decryptions of a dialog are of its row (`SecretInv`). A list is the
vault when it has its rows and no id twice (`Same`); the lemmas about `SetToSeq`, the added, edited and
deleted row rest on sequences being functions, not on induction.

**Left to TLC.** The counterexample runs, and liveness (`ArmedSessionEnds`, `EveryRequestEnds`,
`EveryQuestionEnds`), which is out of the prover's reach. Every safety property of the passing runs
has its theorem. The other way round, `Browser!LedgerSpec` is in no run: beside the liveness of
`browser` it would take that run past its time, and the theorem has it for every instance.

## 5. What is abstracted and what is not modelled

* Times: `expires_at` and the limits of a token are in `Browser`, not in `Accounts`, whose
  sessions end only by logout and reset. The thirty-second window of a TOTP code is in neither: a
  code stands for its secret, so replay inside the window is not visible.
* One clock stands for the browser's, the server's and the database's.
* `Browser` has one tab: another tab shares no state with it but the table, which
  `ResetElsewhere` changes. The other routes of a page are one request kind.
* `findByEmail` of an unknown address, 400, 404, 409 answers that change nothing are stuttering.
* The bucket is the GCS one, which reads lazily; the in-memory store of the tests answers a
  missing blob earlier. A put or delete that rejects may or may not have been made.
* A transaction's own reads are taken at its commit. Where the code reads before it writes in
  one transaction, the row lock of the write makes the two agree or the write match no row.
* In `HealthReports` the score and the wording of alerts are data; a snapshot is taken by the first
  statement of a transaction (REPEATABLE READ), and an `INSERT` sees rows that are committed since.
* In `AuditPages` cursors are the pairs they encode, and a page never asks for an account that is
  not there. `Onboarding` leaves out the lock, whose effect is one more refusal, and bodies that the
  forms or the policy refuse.
* In `VaultScreen` a ciphertext is the password in it; titles, the filter, the order of rows and
  masking are left out. One browser edits the vault: another one's edits are shown only after
  the page is opened again, by design of the code.
* In `Extension` which credentials match a domain, and which fields are filled, is left out.
* Not modelled of the client: Login, TwoFactorVerify and ForgotPassword (forms over one awaited
  call each, whose server side is `Accounts`), the clipboard, the download of a document.
* Field validation of audit entries, bcrypt, AES-GCM and policies are pure and left out.
* Not modelled at all: the ports that no route reaches (`password-reset-store.js`,
  `email-service.js`, `unimplemented-ports.js`), and Terraform and the pipelines, which are
  declarations.

## 6. Where the code and its own words differ

| Run | The code | What it says |
| --- | --- | --- |
| `reset_race` | a login that verified the old password survives a reset | a reset must kick every live session (`ports/sessions.js:52`) |
| `vault_locks` | stores the vault key after its session has ended | the end of a session actually locks the vault (`session.js:24`) |
| `enabled_is_proved` | a confirmation enables whatever secret an overlapping enrolment has left in the row | enabled only after a code proves that secret (`routes/two-factor.js:13`) |

These three are races, each with a run. The models also have the following, which differ from what
the repository says and have no run of their own; the first is plain in `RecordFailed` of `UserRow`
and the others in the action named.

* The account locks at the fourth failure, not the fifth: the `UPDATE` reads the column it has just
  incremented (`ports/users.js:92`, against the comment at line 83).
* The lock never ends: `lockout_until` is written and not read (`ports/users.js:48`, against "for
  fifteen minutes" at line 13). `LockIsPermanent` states what the code does.
* A commit whose acknowledgement is lost makes an upload remove the blob of a row that is there
  (`StoreUnacknowledged`; `routes/documents.js:152`, against "a dangling row is not" at line 240).
* The id of a document in `DELETE /api/credentials` deletes the document's row, logs a credential's
  deletion and leaves the blob (`ports/credentials.js:202`).
* An answer that arrives after the logout brings its renewed token with it (`Capture`;
  `api-client.js:39`, against `auth-service.js:41`).
* A request whose session is revoked between the lookup and its answer is still handed a renewed
  token (`Admit`; `authenticate.js:151`, against "must not be handed a freshly renewed token" at line
  149). No later lookup accepts it (`RevokedForGood`).
* If the cap passes between the lookup and its answer, `renew` throws and the request ends with an
  error (`Admit`, `Lost`; `authenticate.js:166`, against "cannot throw in practice" at line 164).
* With ten logins or confirmations at once, each holding a connection and waiting for a second, the
  pool stands still (`SeeDevice`; `server.js:62`).
* Findings go with their credential by `ON DELETE CASCADE` (`Cascade`;
  `docs/action_plan/DATABASE.md:291`), although `ports/password-health.js:197` and
  `PasswordHealth.jsx:117` say that a finding of a deleted credential is still returned.
* A second view dialog may show the item of the first, whose call answered late, and keep a
  plaintext that was decrypted for the other (`Viewed`, `Decrypted`; `Credentials.jsx:299`).
* Two handlers of the credentials page that overlap leave out each other's change until the page is
  read again (`Landed`; `Credentials.jsx:159`); the documents page does not, but for its first load.
* Next after a failed load follows the cursor of the page before (`HandleNext`; `Activity.jsx:47`).
* The error of an old question clears a vault tab that has registered since (`Unresponsive`;
  `background.js:43`); a tab without the bridge leaves a question waiting (`HandleMessage`).

Outside the models: the timer that clears the clipboard is cancelled when its page unmounts
(`Credentials.jsx:276`, `TwoFactorSetup.jsx:49`), so a password copied before leaving stays there.

## 7. Plan

Done, in this order: `UserRow`, `Accounts`, `AccountLedger`; `Vault`, `VaultLedger`; `Browser`,
`SessionLedger`; `Pool`; `HealthReports`, `ReportLedger`; `AuditPages`; `Onboarding`; `Extension`;
`VaultScreen`; each with its runs and its theorems. Next, most important behaviour first:

1. `Browser` with the routes of `Vault` behind `Admit`, for requests under way when their session is
   revoked.
2. One-time codes with their time step: a code is accepted for as long as its window lasts and by
   any number of requests.
3. `ForgotPassword`, and the pending login that `Login` hands to `TwoFactorVerify`.
