---------------------------- MODULE ReportLedger ----------------------------
(***************************************************************************)
(* What password health promises, without requests, transactions, clocks   *)
(* or tables: reports appear whole, about credentials that are there and   *)
(* are the owner's, and afterwards lose the findings of credentials that   *)
(* are deleted and nothing else.  HealthReports implements it.             *)
(***************************************************************************)
CONSTANTS Users, Items, Statuses, Alerting, None

VARIABLES
  owner,  \* whose vault an item was created in
  live,   \* the items that are there
  book    \* the reports, each with its findings and alerts

Finding == [item : Items, status : Statuses]

Init == owner = [i \in Items |-> None] /\ live = {} /\ book = {}

(* A credential is created or deleted.                                      *)
Create(i, u) ==
  /\ owner[i] = None
  /\ owner' = [owner EXCEPT ![i] = u] /\ live' = live \cup {i}
  /\ UNCHANGED book

Prune(p, i) == [p EXCEPT !.findings = {f \in @ : f.item # i}]

Delete(i) ==
  /\ i \in live /\ live' = live \ {i}
  /\ book' = {Prune(p, i) : p \in book}
  /\ UNCHANGED owner

(* A report, with alerts for what is flagged.                               *)
Publish(p) ==
  /\ \A o \in book : o.id # p.id
  /\ p.findings \subseteq {f \in Finding : f.item \in live /\ owner[f.item] = p.vault}
  /\ \A f, g \in p.findings : f.item = g.item => f = g
  /\ p.alerts = {f \in p.findings : f.status \in Alerting}
  /\ book' = book \cup {p}
  /\ UNCHANGED <<owner, live>>

Next ==
  \/ \E i \in Items, u \in Users : Create(i, u)
  \/ \E i \in Items : Delete(i)
  \/ \E p \in book' : Publish(p)

Spec == Init /\ [][Next]_<<owner, live, book>>
=============================================================================
