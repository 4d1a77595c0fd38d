---------------------------- MODULE HealthReports ----------------------------
(***************************************************************************)
(* The password-health routes (routes/password-health.js) over their port  *)
(* (ports/password-health.js): a report, its findings and its alerts are   *)
(* written in one transaction and read back by three statements outside    *)
(* one, while credentials come and go.                                     *)
(*                                                                         *)
(* The browser computes the labels, so a request may claim any finding     *)
(* about any item.  What a transaction has written and not committed is in *)
(* its request; the tables hold what is committed.  The score is part of   *)
(* the report's row and means nothing to the server.                       *)
(***************************************************************************)
EXTENDS Naturals, FiniteSets

CONSTANTS
  Users,       \* the users, each with one vault
  Items,       \* the credentials there may ever be
  Requests,    \* the requests that may be under way at once
  Statuses,    \* VALID_STATUSES, the labels of a finding: weak, reused, ok
  Alerting,    \* ALERT_STATUSES, those that raise an alert: weak, reused
  MaxReports,  \* bound on the report numbers handed out
  MaxClock,    \* bound on the clock
  None         \* no user

ASSUME HealthAssumption ==
  /\ None \notin Users
  /\ Alerting \subseteq Statuses
  /\ MaxReports \in Nat /\ MaxClock \in Nat

VARIABLES
  owner,       \* whose vault an item was created in, None before that
  live,        \* the items that have not been deleted
  reports,     \* PASSWORD_HEALTH_REPORTS
  findings,    \* REPORT_FINDINGS
  alerts,      \* SECURITY_ALERTS; nothing marks one as read
  logged,      \* how many HEALTH_REPORT_GENERATED entries a user has
  nextReport,  \* AUTO_INCREMENT of the reports
  clock,       \* CURRENT_TIMESTAMP, in seconds
  req,         \* the requests
  submitted,   \* history: what the transaction of a report was asked to write
  told         \* history: the newest generated_at a user has been answered with

vars == <<owner, live, reports, findings, alerts, logged, nextReport, clock,
          req, submitted, told>>

Finding == [item : Items, status : Statuses]

(* isValidFindings: no item is named twice, and no finding at all is fine.  *)
ValidFindings == {c \in SUBSET Finding :
                    \A f, g \in c : f.item = g.item => f = g}

Report == [id : Nat, vault : Users, at : Nat]

(* The key of an alert is its own; one is raised for each flagged finding.  *)
ReportFinding == [report : Nat, item : Items, status : Statuses]

Flagged(c) == {f \in c : f.status \in Alerting}

Of(id, c) == {[report |-> id, item |-> f.item, status |-> f.status] : f \in c}

ItemsOf(c) == {f.item : f \in c}

(***************************************************************************)
(* vault: the transaction has its snapshot.  report: its row is inserted.  *)
(* findings: so are its findings.  latest: a read has chosen its report.   *)
(* labels: it has read the findings.                                       *)
(***************************************************************************)
Steps == {"idle", "vault", "report", "findings", "latest", "labels"}

Request ==
  [step  : Steps,
   user  : Users \cup {None},
   claim : SUBSET Finding,          \* the findings of the body
   owned : SUBSET Items,            \* the items the snapshot says are the user's
   id    : Nat, at : Nat,           \* the report written, or read
   got   : SUBSET Finding,          \* the findings read
   floor : Nat]                     \* history: told, when the read was made

Idle == [step |-> "idle", user |-> None, claim |-> {}, owned |-> {},
         id |-> 0, at |-> 0, got |-> {}, floor |-> 0]

Init ==
  /\ owner = [i \in Items |-> None] /\ live = {}
  /\ reports = {} /\ findings = {} /\ alerts = {}
  /\ logged = [u \in Users |-> 0]
  /\ nextReport = 1 /\ clock = 0
  /\ req = [r \in Requests |-> Idle]
  /\ submitted = [id \in {} |-> {}]
  /\ told = [u \in Users |-> 0]

tables == <<owner, live, reports, findings, alerts, logged>>

Put(r, q) == req' = [req EXCEPT ![r] = q]

AtLeast(m, n) == IF m < n THEN n ELSE m

-----------------------------------------------------------------------------
(***************************************************************************)
(* POST /: the body is checked, the transaction begins with the lookup of  *)
(* the vault, and that lookup is its snapshot (REPEATABLE READ).           *)
(***************************************************************************)
OwnersNow(u) == {owner[i] : i \in live}     \* faulty variant: the wrong column

OwnedNow(u) == {i \in live : owner[i] = u}

Submit(r) ==
  /\ req[r].step = "idle" /\ nextReport <= MaxReports
  /\ \E u \in Users, c \in ValidFindings :
       Put(r, [Idle EXCEPT !.step = "vault", !.user = u, !.claim = c,
                           !.owned = OwnedNow(u)])
  /\ UNCHANGED <<tables, nextReport, clock, submitted, told>>

CreateReport(r) ==
  /\ req[r].step = "vault" /\ nextReport <= MaxReports
  /\ nextReport' = nextReport + 1
  /\ Put(r, [req[r] EXCEPT !.step = "report", !.id = nextReport, !.at = clock])
  /\ UNCHANGED <<tables, clock, submitted, told>>

(***************************************************************************)
(* addFindings: every item must be the caller's by the snapshot, else the  *)
(* whole transaction is undone and the answer is 404.  The INSERT looks at *)
(* the rows themselves: a credential that is gone fails its foreign key,   *)
(* one that is there is locked against deletion until the transaction ends.*)
(***************************************************************************)
AddFindings(r) ==
  LET q == req[r] IN
  /\ q.step = "report"
  /\ IF ItemsOf(q.claim) \subseteq q.owned \cap live
       THEN Put(r, [q EXCEPT !.step = "findings"])
       ELSE Put(r, Idle)
  /\ UNCHANGED <<tables, nextReport, clock, submitted, told>>

(* addAlerts, the audit entry, and the commit that makes it all visible.    *)
RaisedForAll(c) == c       \* faulty variant: no look at ALERT_STATUSES

Raised(c) == Flagged(c)

CommitReport(r) ==
  LET q == req[r] IN
  /\ q.step = "findings"
  /\ reports' = reports \cup {[id |-> q.id, vault |-> q.user, at |-> q.at]}
  /\ findings' = findings \cup Of(q.id, q.claim)
  /\ alerts' = alerts \cup Of(q.id, Raised(q.claim))
  /\ logged' = [logged EXCEPT ![q.user] = @ + 1]
  /\ submitted' = [id \in DOMAIN submitted \cup {q.id} |->
                     IF id = q.id THEN q.claim ELSE submitted[id]]
  /\ told' = [told EXCEPT ![q.user] = AtLeast(@, q.at)]
  /\ Put(r, Idle)
  /\ UNCHANGED <<owner, live, nextReport, clock>>

-----------------------------------------------------------------------------
(***************************************************************************)
(* GET /: getLatestReport orders by generated_at alone, so of two reports  *)
(* of one second it may take either.                                       *)
(***************************************************************************)
AnyReport(u) == {p \in reports : p.vault = u}     \* faulty variant: no ORDER BY

Latest(u) == {p \in reports : /\ p.vault = u
                              /\ \A o \in reports : o.vault = u => o.at <= p.at}

ReadLatest(r) ==
  /\ req[r].step = "idle"
  /\ \E u \in Users : \E p \in Latest(u) :
       Put(r, [Idle EXCEPT !.step = "latest", !.user = u, !.id = p.id,
                           !.at = p.at, !.floor = told[u]])
  /\ UNCHANGED <<tables, nextReport, clock, submitted, told>>

(* A vault that was never analysed is answered with no report.             *)
ReadNothing(r) ==
  /\ req[r].step = "idle"
  /\ \E u \in Users : Latest(u) = {}
  /\ UNCHANGED vars

(* Two LEFT JOINs for the labels; they neither add nor remove a row.        *)
FindingsOfAll(id) ==        \* faulty variant: without WHERE report_id = ?
  {f \in Finding : \E g \in findings : g.item = f.item /\ g.status = f.status}

FindingsOf(id) == {f \in Finding : Of(id, {f}) \subseteq findings}

ReadFindings(r) ==
  /\ req[r].step = "latest"
  /\ Put(r, [req[r] EXCEPT !.step = "labels", !.got = FindingsOf(req[r].id)])
  /\ UNCHANGED <<tables, nextReport, clock, submitted, told>>

(* The unread alerts, and the answer.                                       *)
ReadAlerts(r) ==
  /\ req[r].step = "labels"
  /\ told' = [told EXCEPT ![req[r].user] = AtLeast(@, req[r].at)]
  /\ Put(r, Idle)
  /\ UNCHANGED <<tables, nextReport, clock, submitted>>

(* A statement rejects, the transaction is rolled back, the process dies.   *)
Fail(r) ==
  /\ req[r].step # "idle"
  /\ Put(r, Idle)
  /\ UNCHANGED <<tables, nextReport, clock, submitted, told>>

-----------------------------------------------------------------------------
(***************************************************************************)
(* What the credentials routes do to the same rows: their transactions,    *)
(* one step each.  A deletion cascades to the findings; it waits for the   *)
(* locks of a transaction that has just inserted findings of the item.     *)
(***************************************************************************)
AddItem(i) ==
  /\ owner[i] = None
  /\ \E u \in Users : owner' = [owner EXCEPT ![i] = u]
  /\ live' = live \cup {i}
  /\ UNCHANGED <<reports, findings, alerts, logged, nextReport, clock, req,
                 submitted, told>>

NoLock(i) == FALSE          \* faulty variant: without the foreign key

ShareLocked(i) == \E r \in Requests : /\ req[r].step = "findings"
                                      /\ i \in ItemsOf(req[r].claim)

Cascade(i) == {f \in findings : f.item # i}

DeleteItem(i) ==
  /\ i \in live /\ ~ShareLocked(i)
  /\ live' = live \ {i}
  /\ findings' = Cascade(i)
  /\ UNCHANGED <<owner, reports, alerts, logged, nextReport, clock, req,
                 submitted, told>>

Tick ==
  /\ clock < MaxClock
  /\ clock' = clock + 1
  /\ UNCHANGED <<tables, nextReport, req, submitted, told>>

Next ==
  \/ \E r \in Requests :
       \/ Submit(r) \/ CreateReport(r) \/ AddFindings(r) \/ CommitReport(r)
       \/ ReadLatest(r) \/ ReadNothing(r) \/ ReadFindings(r) \/ ReadAlerts(r) \/ Fail(r)
  \/ \E i \in Items : AddItem(i) \/ DeleteItem(i)
  \/ Tick

Spec == Init /\ [][Next]_vars

-----------------------------------------------------------------------------
TypeOK ==
  /\ owner \in [Items -> Users \cup {None}] /\ live \subseteq Items
  /\ reports \subseteq Report
  /\ findings \subseteq ReportFinding /\ alerts \subseteq ReportFinding
  /\ logged \in [Users -> Nat]
  /\ nextReport \in Nat /\ clock \in Nat
  /\ req \in [Requests -> Request]
  /\ submitted \in [DOMAIN submitted -> ValidFindings]
  /\ DOMAIN submitted \subseteq Nat
  /\ told \in [Users -> Nat]

(***************************************************************************)
(* A report is there with everything it was submitted with, or not at all  *)
(* (routes/password-health.js, "a report that commits without its          *)
(* findings/alerts/audit entry would be a health report that lies"): its   *)
(* findings are those submitted, but for credentials that were deleted     *)
(* since; each flagged one has its alert, deleted or not; and there is one *)
(* entry for each report.                                                  *)
(***************************************************************************)
ReportsAreWhole ==
  /\ findings = UNION {Of(p.id, {f \in submitted[p.id] : f.item \in live}) :
                         p \in reports}
  /\ alerts = UNION {Of(p.id, Flagged(submitted[p.id])) : p \in reports}
  /\ \A u \in Users : logged[u] = Cardinality({p \in reports : p.vault = u})

(***************************************************************************)
(* Business rule 6: a finding is about a credential of the vault its       *)
(* report is about, whatever a request claimed and whatever was deleted    *)
(* between the check and the INSERT.                                       *)
(***************************************************************************)
FindingsAreOwn ==
  \A f \in findings : \E p \in reports :
    /\ p.id = f.report
    /\ owner[f.item] = p.vault

(***************************************************************************)
(* What the three statements of a read put together is one report of the   *)
(* reader's own, not parts of two: the findings are some that were         *)
(* submitted with it, and one that is missing was deleted.                 *)
(***************************************************************************)
ReadsAreOneReport ==
  \A r \in Requests : LET q == req[r] IN
    q.step = "labels" =>
      /\ [id |-> q.id, vault |-> q.user, at |-> q.at] \in reports
      /\ q.got \subseteq submitted[q.id]
      /\ \A f \in submitted[q.id] \ q.got : f.item \notin live

(***************************************************************************)
(* Nobody is shown a report that was generated before one whose answer     *)
(* they already had when they asked; reports of the same second are not    *)
(* told apart.                                                             *)
(***************************************************************************)
NeverOlder ==
  \A r \in Requests : req[r].step \in {"latest", "labels"} => req[r].at >= req[r].floor

-----------------------------------------------------------------------------
(***************************************************************************)
(* The health ledger: see ReportLedger.                                    *)
(***************************************************************************)
Book == {[id |-> p.id, vault |-> p.vault,
          findings |-> FindingsOf(p.id),
          alerts |-> {f \in Finding : Of(p.id, {f}) \subseteq alerts}] : p \in reports}

Ledger == INSTANCE ReportLedger WITH book <- Book

(* A report appears in one step, and only a deletion takes from it.         *)
LedgerSpec == Ledger!Spec
=============================================================================
