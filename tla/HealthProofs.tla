---------------------------- MODULE HealthProofs ----------------------------
(***************************************************************************)
(* Theorems about HealthReports, for any number of users, credentials,     *)
(* requests and labels and any bounds.                                     *)
(***************************************************************************)
EXTENDS HealthReports, FiniteSetTheorems, TLAPS

------------------------------------------------------------------------------
(***************************************************************************)
(* The inductive invariant.  A number is given out once, to a request      *)
(* (Distinct) and then to the report it commits (Stored); what was         *)
(* submitted is about credentials of the report's vault; a request still   *)
(* holds what it relies on (ReqOK); and what a user was told is there to   *)
(* be found (ToldOK).                                                      *)
(***************************************************************************)
Numbered(r) == req[r].step \in {"report", "findings"}

Stored ==
  /\ IsFiniteSet(reports)
  /\ \A p \in reports : p.id < nextReport /\ p.id \in DOMAIN submitted
  /\ \A p, o \in reports : p.id = o.id => p = o
  /\ \A id \in DOMAIN submitted : \E p \in reports : p.id = id
  /\ \A p \in reports : \A f \in submitted[p.id] : owner[f.item] = p.vault
  /\ \A i \in live : owner[i] # None

Writes(r) ==
  req[r].step \in {"vault", "report", "findings"} =>
    /\ req[r].user \in Users
    /\ req[r].claim \in ValidFindings
    /\ \A i \in req[r].owned : owner[i] = req[r].user

Holds(r) ==
  /\ Numbered(r) => req[r].id < nextReport /\ req[r].id \notin DOMAIN submitted
  /\ req[r].step = "findings" => ItemsOf(req[r].claim) \subseteq req[r].owned \cap live

Reads(r) ==
  req[r].step \in {"latest", "labels"} =>
    /\ req[r].user \in Users
    /\ [id |-> req[r].id, vault |-> req[r].user, at |-> req[r].at] \in reports
    /\ req[r].floor <= req[r].at

Labels(r) ==
  req[r].step = "labels" =>
    /\ req[r].got \subseteq submitted[req[r].id]
    /\ \A f \in submitted[req[r].id] \ req[r].got : f.item \notin live

ReqOK(r) == Writes(r) /\ Holds(r) /\ Reads(r) /\ Labels(r)

Distinct ==
  \A r, w \in Requests : r # w /\ Numbered(r) /\ Numbered(w) => req[r].id # req[w].id

ToldOK == \A u \in Users : told[u] > 0 => \E p \in reports : p.vault = u /\ told[u] <= p.at

IInv ==
  /\ TypeOK
  /\ Stored
  /\ \A r \in Requests : ReqOK(r)
  /\ Distinct
  /\ ToldOK
  /\ ReportsAreWhole

OthersKeep(r) == \A w \in Requests : w # r => req'[w] = req[w]

------------------------------------------------------------------------------
LEMMA PutOne ==
  ASSUME TypeOK, NEW r \in Requests, NEW q \in Request, Put(r, q)
  PROVE  /\ req' \in [Requests -> Request]
         /\ req'[r] = q
         /\ OthersKeep(r)
  BY DEF TypeOK, Put, OthersKeep

LEMMA IdleType ==
  /\ Idle \in Request /\ Idle.step = "idle"
  BY DEF Idle, Request, Steps

LEMMA ClaimType ==
  ASSUME NEW c \in ValidFindings
  PROVE  c \in SUBSET Finding
  BY DEF ValidFindings

(***************************************************************************)
(* ReportsAreWhole, row by row.                                            *)
(***************************************************************************)
FindingRow(x) ==
  \E p \in reports : \E f \in submitted[p.id] :
    f.item \in live /\ x = [report |-> p.id, item |-> f.item, status |-> f.status]

AlertRow(x) ==
  \E p \in reports : \E f \in submitted[p.id] :
    f.status \in Alerting /\ x = [report |-> p.id, item |-> f.item, status |-> f.status]

Counted == \A u \in Users : logged[u] = Cardinality({p \in reports : p.vault = u})

LEMMA FindingRows ==
  (\A x : x \in findings <=> FindingRow(x))
    <=> findings = UNION {Of(p.id, {f \in submitted[p.id] : f.item \in live}) : p \in reports}
  <1>1. \A x : x \in UNION {Of(p.id, {f \in submitted[p.id] : f.item \in live}) : p \in reports}
                <=> FindingRow(x)
    BY DEF FindingRow, Of
  <1>2. QED
    BY <1>1

LEMMA AlertRows ==
  (\A x : x \in alerts <=> AlertRow(x))
    <=> alerts = UNION {Of(p.id, Flagged(submitted[p.id])) : p \in reports}
  <1>1. \A x : x \in UNION {Of(p.id, Flagged(submitted[p.id])) : p \in reports}
                <=> AlertRow(x)
    BY DEF AlertRow, Of, Flagged
  <1>2. QED
    BY <1>1

RowsAreWhole ==
  /\ \A x : x \in findings <=> FindingRow(x)
  /\ \A x : x \in alerts <=> AlertRow(x)
  /\ Counted

LEMMA WholeRows == ReportsAreWhole <=> RowsAreWhole
  BY FindingRows, AlertRows DEF ReportsAreWhole, RowsAreWhole, Counted

LEMMA InitHolds == Init => IInv
  <1> SUFFICES ASSUME Init PROVE IInv
    OBVIOUS
  <1> USE DEF Init
  <1>1. TypeOK
    BY IdleType DEF TypeOK
  <1>2. Stored
    BY FS_EmptySet DEF Stored
  <1>3. \A r \in Requests : ReqOK(r)
    BY IdleType DEF ReqOK, Writes, Holds, Reads, Labels, Numbered
  <1>4. Distinct /\ ToldOK
    BY IdleType DEF Distinct, ToldOK, Numbered
  <1>5. ReportsAreWhole
    BY FS_EmptySet DEF ReportsAreWhole
  <1>6. QED
    BY <1>1, <1>2, <1>3, <1>4, <1>5 DEF IInv

(***************************************************************************)
(* A step of one request that leaves the tables alone.                     *)
(***************************************************************************)
LEMMA OneRequest ==
  ASSUME IInv, NEW r \in Requests,
         req' \in [Requests -> Request], OthersKeep(r),
         UNCHANGED <<tables, clock, submitted, told>>,
         nextReport' = nextReport \/ nextReport' = nextReport + 1,
         ReqOK(r)',
         Numbered(r)' => \A w \in Requests \ {r} : Numbered(w) => req[w].id # req'[r].id
  PROVE  IInv'
  <1> USE DEF tables
  <1>1. TypeOK'
    BY DEF IInv, TypeOK
  <1>2. nextReport \in Nat /\ nextReport' \in Nat /\ nextReport <= nextReport'
    BY DEF IInv, TypeOK
  <1>3. Stored'
    <2>1. \A p \in reports : p.id \in Nat
      BY DEF IInv, TypeOK, Report
    <2>2. QED
      BY <1>2, <2>1 DEF IInv, Stored
  <1>4. ASSUME NEW w \in Requests, w # r PROVE ReqOK(w)'
    <2>1. req'[w] = req[w] /\ ReqOK(w)
      BY <1>4 DEF OthersKeep, IInv
    <2>2. req[w].id \in Nat
      BY DEF IInv, TypeOK, Request
    <2>3. QED
      BY <1>2, <2>1, <2>2 DEF ReqOK, Writes, Holds, Reads, Labels, Numbered
  <1>5. Distinct'
    BY DEF IInv, Distinct, Numbered, OthersKeep
  <1>6. ToldOK' /\ ReportsAreWhole'
    BY DEF IInv, ToldOK, ReportsAreWhole
  <1>7. QED
    BY <1>1, <1>3, <1>4, <1>5, <1>6 DEF IInv

LEMMA SubmitStep ==
  ASSUME IInv, NEW r \in Requests, Submit(r)
  PROVE  IInv'
  <1>1. PICK u \in Users, c \in ValidFindings :
          Put(r, [Idle EXCEPT !.step = "vault", !.user = u, !.claim = c,
                              !.owned = OwnedNow(u)])
    BY DEF Submit
  <1>2. OwnedNow(u) \subseteq Items /\ \A i \in OwnedNow(u) : owner[i] = u
    BY DEF OwnedNow, IInv, TypeOK
  <1>3. PICK q : q = [Idle EXCEPT !.step = "vault", !.user = u, !.claim = c,
                                  !.owned = OwnedNow(u)]
    OBVIOUS
  <1>4. q \in Request /\ q.step = "vault" /\ q.user = u /\ q.claim = c /\ q.owned = OwnedNow(u)
    BY <1>2, <1>3, ClaimType DEF Idle, Request, Steps
  <1>5. req' \in [Requests -> Request] /\ req'[r] = q /\ OthersKeep(r)
    BY <1>1, <1>3, <1>4, PutOne DEF IInv
  <1>6. ReqOK(r)' /\ ~Numbered(r)'
    BY <1>2, <1>4, <1>5 DEF Submit, tables, ReqOK, Writes, Holds, Reads, Labels, Numbered
  <1>7. QED
    BY <1>5, <1>6, OneRequest DEF Submit

LEMMA CreateReportStep ==
  ASSUME IInv, NEW r \in Requests, CreateReport(r)
  PROVE  IInv'
  <1>1. PICK q : q = [req[r] EXCEPT !.step = "report", !.id = nextReport, !.at = clock]
    OBVIOUS
  <1>2. req[r] \in Request /\ req[r].step = "vault" /\ ReqOK(r)
    BY DEF IInv, TypeOK, CreateReport
  <1>3. /\ q \in Request /\ q.step = "report" /\ q.id = nextReport
        /\ q.user = req[r].user /\ q.claim = req[r].claim /\ q.owned = req[r].owned
    BY <1>1, <1>2 DEF Request, Steps, IInv, TypeOK
  <1>4. req' \in [Requests -> Request] /\ req'[r] = q /\ OthersKeep(r)
    BY <1>1, <1>3, PutOne DEF IInv, CreateReport
  <1>5. /\ nextReport \in Nat /\ nextReport' = nextReport + 1
        /\ nextReport \notin DOMAIN submitted
    BY DEF IInv, TypeOK, Stored, CreateReport
  <1>6. ReqOK(r)'
    BY <1>2, <1>3, <1>4, <1>5 DEF CreateReport, tables, ReqOK, Writes, Holds, Reads, Labels, Numbered
  <1>7. \A w \in Requests \ {r} : Numbered(w) => req[w].id # req'[r].id
    BY <1>3, <1>4, <1>5 DEF IInv, ReqOK, Holds
  <1>8. QED
    BY <1>4, <1>5, <1>6, <1>7, OneRequest DEF CreateReport

LEMMA FailStep ==
  ASSUME IInv, NEW r \in Requests, Put(r, Idle),
         UNCHANGED <<tables, nextReport, clock, submitted, told>>
  PROVE  IInv'
  <1>1. req' \in [Requests -> Request] /\ req'[r] = Idle /\ OthersKeep(r)
    BY IdleType, PutOne DEF IInv
  <1>2. ReqOK(r)' /\ ~Numbered(r)'
    BY <1>1, IdleType DEF ReqOK, Writes, Holds, Reads, Labels, Numbered
  <1>3. QED
    BY <1>1, <1>2, OneRequest

LEMMA AddFindingsStep ==
  ASSUME IInv, NEW r \in Requests, AddFindings(r)
  PROVE  IInv'
  <1>1. CASE ItemsOf(req[r].claim) \subseteq req[r].owned \cap live
    <2>1. PICK q : q = [req[r] EXCEPT !.step = "findings"]
      OBVIOUS
    <2>2. req[r] \in Request /\ req[r].step = "report" /\ ReqOK(r)
      BY DEF IInv, TypeOK, AddFindings
    <2>3. /\ q \in Request /\ q.step = "findings" /\ q.id = req[r].id
          /\ q.user = req[r].user /\ q.claim = req[r].claim /\ q.owned = req[r].owned
      BY <2>1, <2>2 DEF Request, Steps
    <2>4. req' \in [Requests -> Request] /\ req'[r] = q /\ OthersKeep(r)
      BY <1>1, <2>1, <2>3, PutOne DEF IInv, AddFindings
    <2>5. ReqOK(r)'
      BY <1>1, <2>2, <2>3, <2>4
      DEF AddFindings, tables, ReqOK, Writes, Holds, Reads, Labels, Numbered, ItemsOf
    <2>6. \A w \in Requests \ {r} : Numbered(w) => req[w].id # req'[r].id
      BY <2>2, <2>3, <2>4 DEF IInv, Distinct, Numbered
    <2>7. QED
      BY <2>4, <2>5, <2>6, OneRequest DEF AddFindings
  <1>2. CASE ~(ItemsOf(req[r].claim) \subseteq req[r].owned \cap live)
    BY <1>2, FailStep DEF AddFindings
  <1>3. QED
    BY <1>1, <1>2

LEMMA ReadLatestStep ==
  ASSUME IInv, NEW r \in Requests, ReadLatest(r)
  PROVE  IInv'
  <1>1. PICK u \in Users, p \in reports :
          /\ p \in Latest(u)
          /\ Put(r, [Idle EXCEPT !.step = "latest", !.user = u, !.id = p.id,
                                 !.at = p.at, !.floor = told[u]])
    BY DEF ReadLatest, Latest
  <1>2. /\ p \in reports /\ p.vault = u
        /\ \A o \in reports : o.vault = u => o.at <= p.at
        /\ p \in Report /\ p.id \in Nat /\ p.at \in Nat
        /\ p = [id |-> p.id, vault |-> u, at |-> p.at]
    BY <1>1 DEF Latest, IInv, TypeOK, Report
  <1>3. told[u] \in Nat /\ told[u] <= p.at
    <2>1. told[u] \in Nat
      BY DEF IInv, TypeOK
    <2>2. CASE told[u] > 0
      <3>1. PICK o \in reports : o.vault = u /\ told[u] <= o.at
        BY <2>2 DEF IInv, ToldOK
      <3>2. o.at \in Nat /\ o.at <= p.at
        BY <1>2, <3>1 DEF IInv, TypeOK, Report
      <3>3. QED
        BY <1>2, <2>1, <3>1, <3>2
    <2>3. QED
      BY <1>2, <2>1, <2>2
  <1>4. PICK q : q = [Idle EXCEPT !.step = "latest", !.user = u, !.id = p.id,
                                  !.at = p.at, !.floor = told[u]]
    OBVIOUS
  <1>5. /\ q \in Request /\ q.step = "latest" /\ q.user = u /\ q.id = p.id
        /\ q.at = p.at /\ q.floor = told[u]
    BY <1>2, <1>3, <1>4 DEF Idle, Request, Steps
  <1>6. req' \in [Requests -> Request] /\ req'[r] = q /\ OthersKeep(r)
    BY <1>1, <1>4, <1>5, PutOne DEF IInv
  <1>7. ReqOK(r)' /\ ~Numbered(r)'
    BY <1>2, <1>3, <1>5, <1>6
    DEF ReadLatest, tables, ReqOK, Writes, Holds, Reads, Labels, Numbered
  <1>8. QED
    BY <1>6, <1>7, OneRequest DEF ReadLatest

(***************************************************************************)
(* What FindingsOf reads of a report is what was submitted with it, but    *)
(* for the credentials that are gone; the same for the alerts, whatever    *)
(* became of the credentials.                                              *)
(***************************************************************************)
LEMMA FindingsWhat ==
  ASSUME IInv, NEW p \in reports
  PROVE  FindingsOf(p.id) = {f \in submitted[p.id] : f.item \in live}
  <1>1. \A o \in reports : submitted[o.id] \subseteq Finding
    BY ClaimType DEF IInv, TypeOK, Stored
  <1>2. \A x : x \in findings <=> FindingRow(x)
    BY WholeRows DEF IInv, RowsAreWhole
  <1>3. \A f \in Finding : f \in FindingsOf(p.id)
                             <=> [report |-> p.id, item |-> f.item, status |-> f.status] \in findings
    BY DEF FindingsOf, Of
  <1>4. ASSUME NEW f \in Finding
        PROVE  f \in FindingsOf(p.id) <=> f \in submitted[p.id] /\ f.item \in live
    <2>1. CASE f \in submitted[p.id] /\ f.item \in live
      BY <1>2, <1>3, <2>1 DEF FindingRow
    <2>2. CASE f \in FindingsOf(p.id)
      <3>1. PICK o \in reports, g \in Finding :
              /\ g \in submitted[o.id]
              /\ g.item \in live
              /\ [report |-> p.id, item |-> f.item, status |-> f.status]
                   = [report |-> o.id, item |-> g.item, status |-> g.status]
        BY <1>1, <1>2, <1>3, <2>2 DEF FindingRow
      <3>2. o = p /\ g \in Finding
        BY <1>1, <3>1 DEF IInv, Stored
      <3>3. g = f
        BY <3>1, <3>2 DEF Finding
      <3>4. QED
        BY <2>2, <3>1, <3>2, <3>3
    <2>3. QED
      BY <2>1, <2>2
  <1>5. FindingsOf(p.id) \subseteq Finding
    BY DEF FindingsOf
  <1>6. QED
    BY <1>1, <1>4, <1>5

LEMMA AlertsWhat ==
  ASSUME IInv, NEW p \in reports
  PROVE  {f \in Finding : Of(p.id, {f}) \subseteq alerts} = Flagged(submitted[p.id])
  <1>1. \A o \in reports : submitted[o.id] \subseteq Finding
    BY ClaimType DEF IInv, TypeOK, Stored
  <1>2. \A x : x \in alerts <=> AlertRow(x)
    BY WholeRows DEF IInv, RowsAreWhole
  <1>3. \A f \in Finding : Of(p.id, {f}) \subseteq alerts
                             <=> [report |-> p.id, item |-> f.item, status |-> f.status] \in alerts
    BY DEF Of
  <1>4. ASSUME NEW f \in Finding
        PROVE  Of(p.id, {f}) \subseteq alerts <=> f \in Flagged(submitted[p.id])
    <2>1. CASE f \in Flagged(submitted[p.id])
      BY <1>2, <1>3, <2>1 DEF AlertRow, Flagged
    <2>2. CASE Of(p.id, {f}) \subseteq alerts
      <3>1. PICK o \in reports, g \in Finding :
              /\ g \in submitted[o.id]
              /\ g \in Flagged(submitted[o.id])
              /\ [report |-> p.id, item |-> f.item, status |-> f.status]
                   = [report |-> o.id, item |-> g.item, status |-> g.status]
        BY <1>1, <1>2, <1>3, <2>2 DEF AlertRow, Flagged
      <3>2. o = p /\ g \in Finding
        BY <1>1, <3>1 DEF IInv, Stored, Flagged
      <3>3. g = f
        BY <3>1, <3>2 DEF Finding
      <3>4. QED
        BY <2>2, <3>1, <3>2, <3>3
    <2>3. QED
      BY <2>1, <2>2
  <1>5. QED
    BY <1>1, <1>4 DEF Flagged

LEMMA ReadFindingsStep ==
  ASSUME IInv, NEW r \in Requests, ReadFindings(r)
  PROVE  IInv'
  <1>1. PICK q : q = [req[r] EXCEPT !.step = "labels", !.got = FindingsOf(req[r].id)]
    OBVIOUS
  <1>2. req[r] \in Request /\ req[r].step = "latest" /\ ReqOK(r)
    BY DEF IInv, TypeOK, ReadFindings
  <1>3. PICK p \in reports : p = [id |-> req[r].id, vault |-> req[r].user, at |-> req[r].at]
    BY <1>2 DEF ReqOK, Reads
  <1>4. FindingsOf(req[r].id) = {f \in submitted[req[r].id] : f.item \in live}
    BY <1>3, FindingsWhat
  <1>5. FindingsOf(req[r].id) \in SUBSET Finding
    BY DEF FindingsOf
  <1>6. /\ q \in Request /\ q.step = "labels" /\ q.id = req[r].id /\ q.user = req[r].user
        /\ q.at = req[r].at /\ q.floor = req[r].floor /\ q.got = FindingsOf(req[r].id)
    BY <1>1, <1>2, <1>5 DEF Request, Steps
  <1>7. req' \in [Requests -> Request] /\ req'[r] = q /\ OthersKeep(r)
    BY <1>1, <1>6, PutOne DEF IInv, ReadFindings
  <1>8. UNCHANGED <<tables, clock, submitted, told>> /\ nextReport' = nextReport
    BY DEF ReadFindings
  <1>9. Writes(r)' /\ Holds(r)' /\ ~Numbered(r)'
    BY <1>6, <1>7 DEF Writes, Holds, Numbered
  <1>10. Reads(r)'
    BY <1>2, <1>6, <1>7, <1>8 DEF tables, ReqOK, Reads
  <1>11. Labels(r)'
    BY <1>4, <1>6, <1>7, <1>8 DEF tables, Labels
  <1>12. QED
    BY <1>7, <1>8, <1>9, <1>10, <1>11, OneRequest DEF ReqOK

------------------------------------------------------------------------------
(***************************************************************************)
(* The steps that answer: the request is idle, a user has been told.       *)
(***************************************************************************)
LEMMA AtLeastWhat ==
  ASSUME NEW m \in Nat, NEW n \in Nat
  PROVE  AtLeast(m, n) \in Nat /\ AtLeast(m, n) \in {m, n}
  BY DEF AtLeast

LEMMA ReadAlertsStep ==
  ASSUME IInv, NEW r \in Requests, ReadAlerts(r)
  PROVE  IInv'
  <1>1. /\ req' \in [Requests -> Request] /\ req'[r] = Idle /\ OthersKeep(r)
        /\ UNCHANGED <<owner, live, reports, findings, alerts, logged, nextReport, clock, submitted>>
    BY IdleType, PutOne DEF IInv, ReadAlerts, tables
  <1>2. /\ req[r].user \in Users /\ req[r].at \in Nat
        /\ [id |-> req[r].id, vault |-> req[r].user, at |-> req[r].at] \in reports
    BY DEF IInv, TypeOK, Request, ReadAlerts, ReqOK, Reads
  <1>3. told' = [told EXCEPT ![req[r].user] = AtLeast(@, req[r].at)]
    BY DEF ReadAlerts
  <1>4. told' \in [Users -> Nat] /\ ToldOK'
    <2>1. told \in [Users -> Nat] /\ ToldOK
      BY DEF IInv, TypeOK
    <2>2. /\ told' \in [Users -> Nat]
          /\ \A u \in Users : \/ told'[u] = told[u]
                              \/ u = req[r].user /\ told'[u] = req[r].at
      BY <1>2, <1>3, <2>1, AtLeastWhat
    <2>3. QED
      BY <1>1, <1>2, <2>1, <2>2 DEF ToldOK
  <1>5. TypeOK'
    BY <1>1, <1>4 DEF IInv, TypeOK
  <1>9. Stored' /\ ReportsAreWhole'
    BY <1>1 DEF IInv, Stored, ReportsAreWhole
  <1>6. \A w \in Requests : ReqOK(w)'
    <2>1. ReqOK(r)'
      BY <1>1, IdleType DEF ReqOK, Writes, Holds, Reads, Labels, Numbered
    <2>2. ASSUME NEW w \in Requests, w # r PROVE ReqOK(w)'
      BY <1>1, <2>2 DEF IInv, OthersKeep, ReqOK, Writes, Holds, Reads, Labels, Numbered
    <2>3. QED
      BY <2>1, <2>2
  <1>7. Distinct'
    BY <1>1, IdleType DEF IInv, Distinct, Numbered, OthersKeep
  <1>8. QED
    BY <1>4, <1>5, <1>6, <1>7, <1>9 DEF IInv

(***************************************************************************)
(* The commit.  A counter of a set grows with the set.                     *)
(***************************************************************************)
LEMMA OneMore ==
  ASSUME IsFiniteSet(reports), NEW x, x \notin reports, reports' = reports \cup {x},
         NEW u
  PROVE  Cardinality({p \in reports' : p.vault = u}) =
           IF x.vault = u THEN Cardinality({p \in reports : p.vault = u}) + 1
                          ELSE Cardinality({p \in reports : p.vault = u})
  <1> DEFINE old == {p \in reports : p.vault = u}
  <1>1. IsFiniteSet(old)
    BY FS_Subset
  <1>2. x \notin old
    OBVIOUS
  <1>3. CASE x.vault = u
    <2>1. {p \in reports' : p.vault = u} = old \cup {x}
      BY <1>3
    <2>2. QED
      BY <1>1, <1>2, <1>3, <2>1, FS_AddElement
  <1>4. CASE x.vault # u
    <2>1. {p \in reports' : p.vault = u} = old
      BY <1>4
    <2>2. QED
      BY <1>4, <2>1
  <1>5. QED
    BY <1>3, <1>4

LEMMA CommitReportStep ==
  ASSUME IInv, NEW r \in Requests, CommitReport(r)
  PROVE  IInv'
  <1>1. PICK id, u, c, x :
          /\ id = req[r].id /\ u = req[r].user /\ c = req[r].claim
          /\ x = [id |-> id, vault |-> u, at |-> req[r].at]
    OBVIOUS
  <1>2. /\ req[r] \in Request /\ req[r].step = "findings" /\ ReqOK(r) /\ Numbered(r)
    BY DEF IInv, TypeOK, CommitReport, Numbered
  <1>3. /\ u \in Users /\ c \in ValidFindings /\ id \in Nat /\ req[r].at \in Nat
        /\ id < nextReport /\ id \notin DOMAIN submitted
        /\ \A f \in c : f.item \in live /\ owner[f.item] = u
    BY <1>1, <1>2 DEF ReqOK, Writes, Holds, Request, ItemsOf
  <1>4. /\ req' \in [Requests -> Request] /\ req'[r] = Idle /\ OthersKeep(r)
    BY IdleType, PutOne DEF IInv, CommitReport
  <1>5. /\ reports' = reports \cup {x}
        /\ findings' = findings \cup Of(id, c)
        /\ alerts' = alerts \cup Of(id, Flagged(c))
        /\ logged' = [logged EXCEPT ![u] = @ + 1]
        /\ told' = [told EXCEPT ![u] = AtLeast(@, x.at)]
        /\ UNCHANGED <<owner, live, nextReport, clock>>
    BY <1>1 DEF CommitReport, Raised
  <1>6. submitted' = [n \in DOMAIN submitted \cup {id} |-> IF n = id THEN c ELSE submitted[n]]
    BY <1>1 DEF CommitReport
  <1>7. /\ DOMAIN submitted' = DOMAIN submitted \cup {id}
        /\ submitted'[id] = c
        /\ \A n \in DOMAIN submitted : submitted'[n] = submitted[n]
    BY <1>3, <1>6
  <1>8. x \in Report /\ x.id = id /\ x.vault = u /\ x.at = req[r].at
    BY <1>1, <1>3 DEF Report
  <1>9. \A p \in reports : p.id # id /\ p.id \in DOMAIN submitted
    BY <1>3 DEF IInv, Stored
  <1>10. x \notin reports
    BY <1>8, <1>9
  <1>11. c \subseteq Finding
    BY <1>3, ClaimType
  <1>12. told' \in [Users -> Nat] /\ ToldOK'
    <2>1. told \in [Users -> Nat] /\ ToldOK
      BY DEF IInv, TypeOK
    <2>2. /\ told' \in [Users -> Nat]
          /\ \A v \in Users : \/ told'[v] = told[v]
                              \/ v = u /\ told'[v] = x.at
      <3>1. told[u] \in Nat /\ x.at \in Nat
        BY <1>3, <1>8, <2>1
      <3>2. AtLeast(told[u], x.at) \in Nat /\ AtLeast(told[u], x.at) \in {told[u], x.at}
        BY <3>1, AtLeastWhat
      <3>3. QED
        BY <1>3, <1>5, <2>1, <3>2
    <2>3. QED
      BY <1>3, <1>5, <1>8, <2>1, <2>2 DEF ToldOK
  <1>13. TypeOK'
    <2>1. Of(id, c) \subseteq ReportFinding /\ Of(id, Flagged(c)) \subseteq ReportFinding
      BY <1>3, <1>11 DEF Of, Flagged, ReportFinding, Finding
    <2>2. submitted' \in [DOMAIN submitted' -> ValidFindings] /\ DOMAIN submitted' \subseteq Nat
      BY <1>3, <1>6, <1>7 DEF IInv, TypeOK
    <2>3. logged' \in [Users -> Nat]
      BY <1>3, <1>5 DEF IInv, TypeOK
    <2>4. QED
      BY <1>4, <1>5, <1>8, <1>12, <2>1, <2>2, <2>3 DEF IInv, TypeOK
  <1>14. Stored'
    <2>1. IsFiniteSet(reports')
      BY <1>5, FS_AddElement DEF IInv, Stored
    <2>2. QED
      BY <1>3, <1>5, <1>7, <1>8, <1>9, <2>1 DEF IInv, Stored
  <1>15. ReportsAreWhole'
    <2>1. /\ \A y : y \in findings <=> FindingRow(y)
          /\ \A y : y \in alerts <=> AlertRow(y)
          /\ Counted
      BY WholeRows DEF IInv, RowsAreWhole
    <2>2. ASSUME NEW y PROVE y \in findings' <=> FindingRow(y)'
      BY <1>3, <1>5, <1>7, <1>8, <1>9, <2>1 DEF FindingRow, Of
    <2>3. ASSUME NEW y PROVE y \in alerts' <=> AlertRow(y)'
      BY <1>3, <1>5, <1>7, <1>8, <1>9, <2>1 DEF AlertRow, Of, Flagged
    <2>4. Counted'
      <3>1. ASSUME NEW v \in Users
            PROVE  logged'[v] = Cardinality({p \in reports' : p.vault = v})
        <4>1. logged[v] = Cardinality({p \in reports : p.vault = v})
          BY <2>1 DEF Counted
        <4>2. logged'[v] = IF v = u THEN logged[v] + 1 ELSE logged[v]
          BY <1>3, <1>5 DEF IInv, TypeOK
        <4>3. QED
          <5>1. IsFiniteSet(reports)
            BY DEF IInv, Stored
          <5>2. Cardinality({p \in reports' : p.vault = v}) =
                  IF x.vault = v THEN Cardinality({p \in reports : p.vault = v}) + 1
                                 ELSE Cardinality({p \in reports : p.vault = v})
            BY <1>5, <1>10, <5>1, OneMore
          <5>3. QED
            BY <1>8, <4>1, <4>2, <5>2
      <3>2. QED
        BY <3>1 DEF Counted
    <2>5. RowsAreWhole'
      BY <2>2, <2>3, <2>4 DEF RowsAreWhole
    <2>6. QED
      BY <2>5, WholeRows, PTL
  <1>16. \A w \in Requests : ReqOK(w)'
    <2>1. ReqOK(r)'
      BY <1>4, IdleType DEF ReqOK, Writes, Holds, Reads, Labels, Numbered
    <2>2. ASSUME NEW w \in Requests, w # r PROVE ReqOK(w)'
      <3>1. req'[w] = req[w] /\ ReqOK(w)
        BY <1>4, <2>2 DEF OthersKeep, IInv
      <3>2. Numbered(w) => req[w].id # id
        BY <1>1, <1>2, <2>2 DEF IInv, Distinct
      <3>3. Writes(w)' /\ Reads(w)'
        BY <1>5, <3>1 DEF ReqOK, Writes, Reads
      <3>4. Holds(w)'
        BY <1>5, <1>7, <3>1, <3>2 DEF ReqOK, Holds, Numbered
      <3>5. Labels(w)'
        <4>1. req[w].step = "labels" => req[w].id \in DOMAIN submitted
          BY <1>9, <3>1 DEF ReqOK, Reads
        <4>2. QED
          BY <1>5, <1>7, <3>1, <4>1 DEF ReqOK, Labels
      <3>6. QED
        BY <3>3, <3>4, <3>5 DEF ReqOK
    <2>3. QED
      BY <2>1, <2>2
  <1>17. Distinct'
    BY <1>4, IdleType DEF IInv, Distinct, Numbered, OthersKeep
  <1>18. QED
    BY <1>12, <1>13, <1>14, <1>15, <1>16, <1>17 DEF IInv

------------------------------------------------------------------------------
(***************************************************************************)
(* Credentials come and go.  What a report or a request speaks of has an   *)
(* owner, so it is not the credential that is new; what a transaction has  *)
(* locked is not the one that goes.                                        *)
(***************************************************************************)
LEMMA AddItemStep ==
  ASSUME IInv, NEW i \in Items, AddItem(i)
  PROVE  IInv'
  <1>1. PICK u \in Users : owner' = [owner EXCEPT ![i] = u]
    BY DEF AddItem
  <1>2. /\ owner[i] = None /\ live' = live \cup {i}
        /\ UNCHANGED <<reports, findings, alerts, logged, nextReport, clock, req, submitted, told>>
        /\ None \notin Users
    BY HealthAssumption DEF AddItem
  <1>3. \A j \in Items : owner'[j] = IF j = i THEN u ELSE owner[j]
    BY <1>1 DEF IInv, TypeOK
  <1>4. TypeOK'
    BY <1>1, <1>2 DEF IInv, TypeOK
  <1>5. \A p \in reports : \A f \in submitted[p.id] :
          f \in Finding /\ f.item \in Items /\ f.item # i /\ owner[f.item] = p.vault
    <2>1. \A p \in reports : p.vault \in Users /\ submitted[p.id] \subseteq Finding
      BY ClaimType DEF IInv, TypeOK, Stored, Report
    <2>2. QED
      BY <1>2, <2>1 DEF IInv, Stored, Finding
  <1>6. Stored'
    <2>1. \A j \in live' : owner'[j] # None
      BY <1>2, <1>3 DEF IInv, TypeOK, Stored
    <2>2. \A p \in reports : \A f \in submitted[p.id] : owner'[f.item] = p.vault
      BY <1>3, <1>5
    <2>3. QED
      BY <1>2, <2>1, <2>2 DEF IInv, Stored
  <1>7. ReportsAreWhole'
    <2>1. RowsAreWhole
      BY WholeRows DEF IInv
    <2>2. \A y : FindingRow(y)' <=> FindingRow(y)
      BY <1>2, <1>5 DEF FindingRow
    <2>3. RowsAreWhole'
      BY <1>2, <2>1, <2>2 DEF RowsAreWhole, AlertRow, Counted
    <2>4. QED
      BY <2>3, WholeRows, PTL
  <1>8. ASSUME NEW w \in Requests PROVE ReqOK(w)'
    <2>1. ReqOK(w) /\ req[w] \in Request
      BY DEF IInv, TypeOK
    <2>2. Writes(w)'
      BY <1>2, <1>3, <2>1 DEF ReqOK, Writes, Request
    <2>3. Holds(w)' /\ Reads(w)'
      BY <1>2, <2>1 DEF ReqOK, Holds, Reads, Numbered
    <2>4. Labels(w)'
      BY <1>2, <1>5, <2>1 DEF ReqOK, Reads, Labels
    <2>5. QED
      BY <2>2, <2>3, <2>4 DEF ReqOK
  <1>9. Distinct' /\ ToldOK'
    BY <1>2 DEF IInv, Distinct, Numbered, ToldOK
  <1>10. QED
    BY <1>4, <1>6, <1>7, <1>8, <1>9 DEF IInv

LEMMA DeleteItemStep ==
  ASSUME IInv, NEW i \in Items, DeleteItem(i)
  PROVE  IInv'
  <1>1. /\ live' = live \ {i} /\ findings' = Cascade(i) /\ ~ShareLocked(i)
        /\ UNCHANGED <<owner, reports, alerts, logged, nextReport, clock, req, submitted, told>>
    BY DEF DeleteItem
  <1>2. TypeOK' /\ Stored'
    BY <1>1 DEF IInv, TypeOK, Stored, Cascade
  <1>3. ReportsAreWhole'
    <2>1. RowsAreWhole
      BY WholeRows DEF IInv
    <2>2. \A y : y \in findings' <=> FindingRow(y)'
      BY <1>1, <2>1 DEF RowsAreWhole, FindingRow, Cascade
    <2>3. RowsAreWhole'
      BY <1>1, <2>1, <2>2 DEF RowsAreWhole, AlertRow, Counted
    <2>4. QED
      BY <2>3, WholeRows, PTL
  <1>4. ASSUME NEW w \in Requests PROVE ReqOK(w)'
    <2>1. ReqOK(w)
      BY DEF IInv
    <2>2. Writes(w)' /\ Reads(w)' /\ Labels(w)'
      BY <1>1, <2>1 DEF ReqOK, Writes, Reads, Labels
    <2>3. Holds(w)'
      BY <1>1, <2>1 DEF ReqOK, Holds, Numbered, ShareLocked
    <2>4. QED
      BY <2>2, <2>3 DEF ReqOK
  <1>5. Distinct' /\ ToldOK'
    BY <1>1 DEF IInv, Distinct, Numbered, ToldOK
  <1>6. QED
    BY <1>2, <1>3, <1>4, <1>5 DEF IInv

LEMMA StillStep ==
  ASSUME IInv, UNCHANGED <<tables, nextReport, req, submitted, told>>, clock' \in Nat
  PROVE  IInv'
  <1> USE DEF tables
  <1>1. TypeOK'
    BY DEF IInv, TypeOK
  <1>4. Stored' /\ Distinct' /\ ToldOK' /\ ReportsAreWhole'
    BY DEF IInv, Stored, Distinct, Numbered, ToldOK, ReportsAreWhole
  <1>2. \A r \in Requests : ReqOK(r)'
    BY DEF IInv, ReqOK, Writes, Holds, Reads, Labels, Numbered
  <1>3. QED
    BY <1>1, <1>2, <1>4 DEF IInv

LEMMA NextHolds == IInv /\ [Next]_vars => IInv'
  <1> SUFFICES ASSUME IInv, [Next]_vars PROVE IInv'
    OBVIOUS
  <1>1. ASSUME NEW r \in Requests,
               \/ Submit(r) \/ CreateReport(r) \/ AddFindings(r) \/ CommitReport(r)
               \/ ReadLatest(r) \/ ReadFindings(r) \/ ReadAlerts(r) \/ Fail(r)
        PROVE  IInv'
    BY <1>1, SubmitStep, CreateReportStep, AddFindingsStep, CommitReportStep,
       ReadLatestStep, ReadFindingsStep, ReadAlertsStep, FailStep DEF Fail
  <1>2. CASE UNCHANGED vars
    BY <1>2, StillStep DEF vars, tables, IInv, TypeOK
  <1>3. CASE Tick
    BY <1>3, StillStep DEF Tick, IInv, TypeOK
  <1>4. CASE \E i \in Items : AddItem(i) \/ DeleteItem(i)
    BY <1>4, AddItemStep, DeleteItemStep
  <1>5. QED
    BY <1>1, <1>2, <1>3, <1>4 DEF Next, ReadNothing

LEMMA Invariance == Spec => []IInv
  BY InitHolds, NextHolds, PTL DEF Spec

------------------------------------------------------------------------------
(***************************************************************************)
(* The variables of HealthReports have their types.                        *)
(***************************************************************************)
THEOREM HealthTypeCorrect == Spec => []TypeOK
  <1>1. IInv => TypeOK
    BY DEF IInv
  <1>2. QED
    BY <1>1, Invariance, PTL

(***************************************************************************)
(* A report is stored whole or not at all, with its alerts and its audit   *)
(* entry, and loses only the findings of credentials that were deleted.    *)
(***************************************************************************)
THEOREM ReportsStayWhole == Spec => []ReportsAreWhole
  <1>1. IInv => ReportsAreWhole
    BY DEF IInv
  <1>2. QED
    BY <1>1, Invariance, PTL

(***************************************************************************)
(* Business rule 6 of routes/password-health.js: a stored finding is about *)
(* a credential of the vault its report is about.                          *)
(***************************************************************************)
THEOREM FindingsStayOwn == Spec => []FindingsAreOwn
  <1>1. IInv => FindingsAreOwn
    <2> SUFFICES ASSUME IInv PROVE FindingsAreOwn
      OBVIOUS
    <2>1. \A x \in findings : FindingRow(x)
      BY WholeRows DEF IInv, RowsAreWhole
    <2>2. QED
      BY <2>1 DEF FindingsAreOwn, FindingRow, IInv, Stored
  <1>2. QED
    BY <1>1, Invariance, PTL

(***************************************************************************)
(* The three statements of a read return parts of one report, the          *)
(* reader's own, however they interleave with submissions and deletions.   *)
(***************************************************************************)
THEOREM ReadsReturnOneReport == Spec => []ReadsAreOneReport
  <1>1. IInv => ReadsAreOneReport
    BY DEF IInv, ReqOK, Reads, Labels, ReadsAreOneReport
  <1>2. QED
    BY <1>1, Invariance, PTL

(***************************************************************************)
(* A reader is never shown a report older than one they had the answer of  *)
(* when they asked.                                                        *)
(***************************************************************************)
THEOREM ReadsNeverGoBack == Spec => []NeverOlder
  <1>1. IInv => NeverOlder
    BY DEF IInv, TypeOK, Request, ReqOK, Reads, NeverOlder
  <1>2. QED
    BY <1>1, Invariance, PTL

------------------------------------------------------------------------------
(***************************************************************************)
(* HealthReports implements ReportLedger.  The book changes when a report  *)
(* commits and when a credential goes; the lemmas say how.                 *)
(***************************************************************************)
AlertsOf(id) == {f \in Finding : Of(id, {f}) \subseteq alerts}

Page(p) == [id |-> p.id, vault |-> p.vault,
            findings |-> FindingsOf(p.id), alerts |-> AlertsOf(p.id)]

LEMMA BookPages == Book = {Page(p) : p \in reports}
  BY DEF Book, Page, AlertsOf

LEMMA RowOf ==
  ASSUME NEW f, NEW id, NEW rows
  PROVE  Of(id, {f}) \subseteq rows
           <=> [report |-> id, item |-> f.item, status |-> f.status] \in rows
  BY DEF Of

LEMMA PruneWhat ==
  ASSUME NEW id, NEW v, NEW fs, NEW as, NEW i
  PROVE  Ledger!Prune([id |-> id, vault |-> v, findings |-> fs, alerts |-> as], i)
           = [id |-> id, vault |-> v, findings |-> {f \in fs : f.item # i}, alerts |-> as]
  <1>1. PICK p : p = [id |-> id, vault |-> v, findings |-> fs, alerts |-> as]
    OBVIOUS
  <1>2. PICK left : left = {f \in fs : f.item # i}
    OBVIOUS
  <1>3. p.findings = fs
    BY <1>1
  <1>4. Ledger!Prune(p, i) = [p EXCEPT !.findings = left]
    BY <1>2, <1>3 DEF Ledger!Prune
  <1>5. PICK q : q = [p EXCEPT !.findings = left]
    OBVIOUS
  <1>6. q \in [id : {id}, vault : {v}, findings : {left}, alerts : {as}]
    BY <1>1, <1>5
  <1>7. q = [id |-> id, vault |-> v, findings |-> left, alerts |-> as]
    BY <1>6
  <1>8. QED
    BY <1>1, <1>2, <1>4, <1>5, <1>7

(* The rows of a report that is new.                                        *)
LEMMA NewRows ==
  ASSUME NEW id, NEW c \in SUBSET Finding, NEW rows, \A y \in rows : y.report # id
  PROVE  {f \in Finding : Of(id, {f}) \subseteq rows \cup Of(id, c)} = c
  <1>1. ASSUME NEW f \in Finding
        PROVE  [report |-> id, item |-> f.item, status |-> f.status] \in rows \cup Of(id, c)
                 <=> f \in c
    <2>1. CASE f \in c
      BY <2>1 DEF Of
    <2>2. ASSUME NEW g \in c,
                 [report |-> id, item |-> f.item, status |-> f.status]
                   = [report |-> id, item |-> g.item, status |-> g.status]
          PROVE  f \in c
      <3>1. g \in Finding /\ f.item = g.item /\ f.status = g.status
        BY <2>2
      <3>2. QED
        BY <3>1 DEF Finding
    <2>3. QED
      BY <2>1, <2>2 DEF Of
  <1>2. QED
    BY <1>1, RowOf

LEMMA LedgerInit == Init => Ledger!Init
  BY DEF Init, Ledger!Init, Book

LEMMA AddItemCreates ==
  ASSUME NEW i \in Items, AddItem(i)
  PROVE  Ledger!Next
  <1>1. Book' = Book
    BY DEF AddItem, Book, FindingsOf
  <1>2. PICK u \in Users : Ledger!Create(i, u)
    BY <1>1 DEF AddItem, Ledger!Create
  <1>3. QED
    BY <1>2 DEF Ledger!Next

LEMMA DeleteItemPrunes ==
  ASSUME IInv, NEW i \in Items, DeleteItem(i)
  PROVE  Ledger!Next
  <1>1. /\ i \in live /\ live' = live \ {i} /\ findings' = Cascade(i)
        /\ UNCHANGED <<owner, reports, alerts>>
    BY DEF DeleteItem
  <1>2. ASSUME NEW p \in reports PROVE Page(p)' = Ledger!Prune(Page(p), i)
    <2>1. FindingsOf(p.id)' = {f \in FindingsOf(p.id) : f.item # i}
      BY <1>1, RowOf DEF FindingsOf, Cascade
    <2>2. AlertsOf(p.id)' = AlertsOf(p.id)
      BY <1>1 DEF AlertsOf
    <2>3. QED
      BY <1>1, <2>1, <2>2, PruneWhat DEF Page
  <1>3. Book' = {Ledger!Prune(b, i) : b \in Book}
    BY <1>1, <1>2 DEF Book, Page, AlertsOf
  <1>4. Ledger!Delete(i)
    BY <1>1, <1>3 DEF Ledger!Delete
  <1>5. QED
    BY <1>4 DEF Ledger!Next

LEMMA CommitPublishes ==
  ASSUME IInv, NEW r \in Requests, CommitReport(r)
  PROVE  Ledger!Next
  <1>1. PICK id, u, c, x :
          /\ id = req[r].id /\ u = req[r].user /\ c = req[r].claim
          /\ x = [id |-> id, vault |-> u, at |-> req[r].at]
    OBVIOUS
  <1>2. /\ c \in ValidFindings /\ c \subseteq Finding
        /\ id \notin DOMAIN submitted
        /\ \A f \in c : f.item \in live /\ owner[f.item] = u
    BY <1>1, ClaimType DEF IInv, CommitReport, ReqOK, Writes, Holds, Numbered, ItemsOf
  <1>3. /\ reports' = reports \cup {x} /\ x.id = id /\ x.vault = u
        /\ findings' = findings \cup Of(id, c)
        /\ alerts' = alerts \cup Of(id, Flagged(c))
        /\ UNCHANGED <<owner, live>>
    BY <1>1 DEF CommitReport, Raised
  <1>4. \A p \in reports : p.id # id
    BY <1>2 DEF IInv, Stored
  <1>5. /\ \A y \in findings : y.report # id
        /\ \A y \in alerts : y.report # id
    BY <1>4, WholeRows DEF IInv, RowsAreWhole, FindingRow, AlertRow
  <1>6. ASSUME NEW p \in reports PROVE Page(p)' = Page(p)
    <2>1. FindingsOf(p.id)' = FindingsOf(p.id)
      BY <1>3, <1>4, RowOf DEF FindingsOf, Of
    <2>2. AlertsOf(p.id)' = AlertsOf(p.id)
      BY <1>3, <1>4, RowOf DEF AlertsOf, Of
    <2>3. QED
      BY <2>1, <2>2 DEF Page
  <1>7. PICK page : page = [id |-> id, vault |-> u, findings |-> c, alerts |-> Flagged(c)]
    OBVIOUS
  <1>8. Page(x)' = page
    <2>1. FindingsOf(id)' = c
      BY <1>2, <1>3, <1>5, NewRows DEF FindingsOf
    <2>2. AlertsOf(id)' = Flagged(c)
      <3>1. Flagged(c) \in SUBSET Finding
        BY <1>2 DEF Flagged
      <3>2. QED
        BY <1>3, <1>5, <3>1, NewRows DEF AlertsOf
    <2>3. QED
      BY <1>3, <1>7, <2>1, <2>2 DEF Page
  <1>9. Book' = Book \cup {page}
    BY <1>3, <1>6, <1>8 DEF Book, Page, AlertsOf
  <1>10. Ledger!Publish(page)
    <2>1. \A o \in Book : o.id # page.id
      BY <1>4, <1>7 DEF Book
    <2>2. /\ page.findings \subseteq {f \in Ledger!Finding : f.item \in live /\ owner[f.item] = page.vault}
          /\ \A f, g \in page.findings : f.item = g.item => f = g
          /\ page.alerts = {f \in page.findings : f.status \in Alerting}
      BY <1>2, <1>7 DEF ValidFindings, Flagged, Finding, Ledger!Finding
    <2>3. QED
      BY <1>3, <1>9, <2>1, <2>2 DEF Ledger!Publish
  <1>11. QED
    BY <1>9, <1>10 DEF Ledger!Next

LEMMA QuietSteps ==
  ASSUME NEW r \in Requests,
         \/ Submit(r) \/ CreateReport(r) \/ AddFindings(r)
         \/ ReadLatest(r) \/ ReadNothing(r) \/ ReadFindings(r) \/ ReadAlerts(r) \/ Fail(r)
  PROVE  UNCHANGED <<owner, live, Book>>
  <1>1. UNCHANGED tables
    BY DEF Submit, CreateReport, AddFindings, ReadLatest, ReadNothing, ReadFindings,
       ReadAlerts, Fail, tables, vars
  <1>2. QED
    BY <1>1 DEF tables, Book, FindingsOf

LEMMA LedgerNext == IInv /\ [Next]_vars => [Ledger!Next]_<<owner, live, Book>>
  <1> SUFFICES ASSUME IInv, [Next]_vars PROVE [Ledger!Next]_<<owner, live, Book>>
    OBVIOUS
  <1>1. CASE UNCHANGED vars \/ Tick
    BY <1>1 DEF vars, Tick, tables, Book, FindingsOf
  <1>2. CASE \E i \in Items : AddItem(i) \/ DeleteItem(i)
    BY <1>2, AddItemCreates, DeleteItemPrunes
  <1>3. CASE \E r \in Requests : CommitReport(r)
    BY <1>3, CommitPublishes
  <1>4. CASE \E r \in Requests :
               \/ Submit(r) \/ CreateReport(r) \/ AddFindings(r)
               \/ ReadLatest(r) \/ ReadNothing(r) \/ ReadFindings(r) \/ ReadAlerts(r) \/ Fail(r)
    BY <1>4, QuietSteps
  <1>5. QED
    BY <1>1, <1>2, <1>3, <1>4 DEF Next

(***************************************************************************)
(* HealthReports implements ReportLedger: reports appear in one step,      *)
(* about credentials that are there and are the owner's, and a deletion is *)
(* the only thing that takes from them.                                    *)
(***************************************************************************)
THEOREM HealthImplementsLedger == Spec => LedgerSpec
  BY LedgerInit, LedgerNext, Invariance, PTL DEF Spec, LedgerSpec, Ledger!Spec
=============================================================================
