----------------------------- MODULE AuditPages -----------------------------
(***************************************************************************)
(* The audit log as it is read: keyset pages (ports/audit-reader.js,       *)
(* routes/pagination.js) for the owner's Activity page (Activity.jsx) and  *)
(* for the administrator (routes/admin-audit.js), over a log that grows    *)
(* meanwhile.  An entry takes its time when it is built, its number when   *)
(* it is inserted, and is there for others when its transaction commits.   *)
(*                                                                         *)
(* What an entry says happened, and from where, is left out: of the        *)
(* actions only audit_log.read means anything here, the one entry with a   *)
(* target or an actor.                                                     *)
(***************************************************************************)
EXTENDS Naturals, Sequences, FiniteSets

CONSTANTS
  Users,        \* the owners of logs
  Admins,       \* those of them with the administrator's role
  Viewers,      \* those of them who look at their Activity page
  Writers,      \* the transactions that may be under way at once
  LIMIT,        \* entries on a page: 7 in Activity.jsx
  MaxEntries,   \* bound on the entry numbers handed out
  MaxClock,     \* bound on the clock, in milliseconds
  MaxStack,     \* bound on the cursors kept for Previous
  None          \* null

ASSUME AuditAssumption ==
  /\ Admins \subseteq Users /\ Viewers \subseteq Users /\ None \notin Users
  /\ LIMIT \in Nat \ {0}
  /\ MaxEntries \in Nat /\ MaxClock \in Nat /\ MaxStack \in Nat
  /\ None \notin [time : Nat, id : Nat]

VARIABLES
  log,          \* AUDIT_ENTRIES, committed
  nextEntry,    \* its AUTO_INCREMENT
  clock,        \* Date.now()
  tx,           \* the transactions that append
  page,         \* the Activity page of each viewer
  disclosed,    \* history: the answers given to administrators
  seen,         \* history: what a page last showed for each of its cursors
  known,        \* history: the log when the page last read its top
  jumped        \* history: Next was pressed under an error since then

vars == <<log, nextEntry, clock, tx, page, disclosed, seen, known, jumped>>
history == <<disclosed, seen, known, jumped>>

Cursor == [time : Nat, id : Nat]

(* target: in an administrator's copy, whose log was read.  actor: in the   *)
(* copy of the one who was read, by whom.                                   *)
Text == [user : Users, target : Users \cup {None}, actor : Users \cup {None}]

Entry == [id : Nat, time : Nat, text : Text]

Plain(u) == [user |-> u, target |-> None, actor |-> None]

(***************************************************************************)
(* A transaction: what it has still to log, the time of the entry it is    *)
(* logging, what it has inserted; for an administrator's read, who read    *)
(* what, and whether the record of it is committed.                        *)
(***************************************************************************)
Tx == [todo : Seq(Text), minted : Nat \cup {None}, draft : SUBSET Entry,
       reader : Users \cup {None}, target : Users \cup {None}, recorded : BOOLEAN]

NoTx == [todo |-> <<>>, minted |-> None, draft |-> {},
         reader |-> None, target |-> None, recorded |-> FALSE]

(* The state of Activity.jsx; answer is a response on its way to it.        *)
Answer == [entries : SUBSET Entry, next : Cursor \cup {None}]

Activity ==
  [open : BOOLEAN, loading : BOOLEAN, error : BOOLEAN,
   cursor : Cursor \cup {None}, next : Cursor \cup {None},
   stack : Seq(Cursor \cup {None}), entries : SUBSET Entry,
   answer : Answer \cup {None}]

Closed == [open |-> FALSE, loading |-> FALSE, error |-> FALSE, cursor |-> None,
           next |-> None, stack |-> <<>>, entries |-> {}, answer |-> None]

Init ==
  /\ log = {} /\ nextEntry = 1 /\ clock = 0
  /\ tx = [w \in Writers |-> NoTx]
  /\ page = [u \in Viewers |-> Closed]
  /\ disclosed = {}
  /\ seen = [u \in Viewers |-> [c \in {} |-> {}]]
  /\ known = [u \in Viewers |-> {}]
  /\ jumped = [u \in Viewers |-> FALSE]

-----------------------------------------------------------------------------
(***************************************************************************)
(* The keyset order: (event_time, entry_id), a total one.                  *)
(***************************************************************************)
Older(e, f) == e.time < f.time \/ (e.time = f.time /\ e.id < f.id)

Position(e) == [time |-> e.time, id |-> e.id]

(* WHERE user_id = ? AND strictly older than the cursor.                    *)
BehindByTime(u, c) ==       \* faulty variant: a cursor of the time alone
  {e \in log : e.text.user = u /\ (c # None => e.time < c.time)}

Behind(u, c) == {e \in log : e.text.user = u /\ (c # None => Older(e, c))}

(* ORDER BY event_time DESC, entry_id DESC LIMIT n.                         *)
Newest(S, n) == {e \in S : Cardinality({f \in S : Older(e, f)}) < n}

Last(S) == {e \in S : \A f \in S : f # e => Older(e, f)}

ReadPageRow(u, c) ==        \* faulty variant: the row itself for a cursor
  LET rows == Newest(Behind(u, c), LIMIT + 1)
      entries == Newest(rows, LIMIT)
  IN [entries |-> entries,
      next    |-> IF Cardinality(rows) > LIMIT THEN CHOOSE e \in Last(entries) : TRUE ELSE None]

ReadPageFull(u, c) ==       \* faulty variant: a full page has a next one
  LET entries == Newest(Behind(u, c), LIMIT)
  IN [entries |-> entries,
      next    |-> IF Cardinality(entries) = LIMIT
                    THEN Position(CHOOSE e \in Last(entries) : TRUE) ELSE None]

(* One row more than the page tells whether there is a next page.           *)
ReadPage(u, c) ==
  LET rows == Newest(Behind(u, c), LIMIT + 1)
      entries == Newest(rows, LIMIT)
  IN [entries |-> entries,
      next    |-> IF Cardinality(rows) > LIMIT
                    THEN Position(CHOOSE e \in Last(entries) : TRUE) ELSE None]

-----------------------------------------------------------------------------
(***************************************************************************)
(* Writing.  An ordinary route logs one action of its caller in its        *)
(* transaction.                                                            *)
(***************************************************************************)
Act(w) ==
  /\ tx[w] = NoTx /\ nextEntry <= MaxEntries
  /\ \E u \in Users : tx' = [tx EXCEPT ![w] = [NoTx EXCEPT !.todo = <<Plain(u)>>]]
  /\ UNCHANGED <<log, nextEntry, clock, page, history>>

(***************************************************************************)
(* GET /api/admin/audit/:userId: the page is read, then recordRead begins; *)
(* its first entry is the administrator's copy, its second the target's,   *)
(* unless they are one.  Which page it was makes no difference.            *)
(***************************************************************************)
OwnCopy(a, t) == <<[Plain(a) EXCEPT !.target = t]>>   \* faulty variant: no second copy

Copies(a, t) ==
  <<[Plain(a) EXCEPT !.target = t]>>
    \o (IF t # a THEN <<[Plain(t) EXCEPT !.actor = a]>> ELSE <<>>)

AdminRead(w) ==
  /\ tx[w] = NoTx /\ nextEntry <= MaxEntries
  /\ \E a \in Admins, t \in Users :
       tx' = [tx EXCEPT ![w] = [NoTx EXCEPT !.todo = Copies(a, t),
                                            !.reader = a, !.target = t]]
  /\ UNCHANGED <<log, nextEntry, clock, page, history>>

(* logAction builds the entry, and with it its time ...                     *)
Mint(w) ==
  /\ tx[w].todo # <<>> /\ tx[w].minted = None
  /\ tx' = [tx EXCEPT ![w].minted = clock]
  /\ UNCHANGED <<log, nextEntry, clock, page, history>>

(* ... and appends it: the database gives it its number.                    *)
Insert(w) ==
  LET t == tx[w]
      e == [id |-> nextEntry, time |-> t.minted, text |-> Head(t.todo)]
  IN
  /\ t.minted # None /\ nextEntry <= MaxEntries
  /\ tx' = [tx EXCEPT ![w] = [t EXCEPT !.todo = Tail(@), !.minted = None,
                                       !.draft = @ \cup {e}]]
  /\ nextEntry' = nextEntry + 1
  /\ UNCHANGED <<log, clock, page, history>>

Commit(w) ==
  LET t == tx[w] IN
  /\ t.todo = <<>> /\ t.draft # {} /\ ~t.recorded
  /\ log' = log \cup t.draft
  /\ tx' = [tx EXCEPT ![w] = IF t.reader = None THEN NoTx ELSE [t EXCEPT !.recorded = TRUE]]
  /\ UNCHANGED <<nextEntry, clock, page, history>>

(* The administrator is answered after the record of it is committed.       *)
Disclose(w) ==
  LET t == tx[w] IN
  /\ t.reader # None /\ t.recorded
  /\ disclosed' = disclosed \cup
       {[reader |-> t.reader, target |-> t.target, record |-> t.draft]}
  /\ tx' = [tx EXCEPT ![w] = NoTx]
  /\ UNCHANGED <<log, nextEntry, clock, page, seen, known, jumped>>

(* A rollback, or the process dies: numbers are not given back.             *)
Abandon(w) ==
  /\ tx[w] # NoTx
  /\ tx' = [tx EXCEPT ![w] = NoTx]
  /\ UNCHANGED <<log, nextEntry, clock, page, history>>

Tick ==
  /\ clock < MaxClock
  /\ clock' = clock + 1
  /\ UNCHANGED <<log, nextEntry, tx, page, history>>

-----------------------------------------------------------------------------
(***************************************************************************)
(* Reading.  While a page loads its buttons are not there; an answer for a *)
(* page that was left is ignored.                                          *)
(***************************************************************************)
Open(u) ==
  /\ ~page[u].open
  /\ page' = [page EXCEPT ![u] = [Closed EXCEPT !.open = TRUE, !.loading = TRUE]]
  /\ UNCHANGED <<log, nextEntry, clock, tx, history>>

Leave(u) ==
  /\ page[u].open
  /\ page' = [page EXCEPT ![u] = Closed]
  /\ UNCHANGED <<log, nextEntry, clock, tx, history>>

(* GET /api/audit?limit&cursor.                                             *)
Serve(u) ==
  LET p == page[u] IN
  /\ p.loading /\ p.answer = None
  /\ page' = [page EXCEPT ![u].answer = ReadPage(u, p.cursor)]
  /\ IF p.cursor = None
       THEN /\ known' = [known EXCEPT ![u] = {e \in log : e.text.user = u}]
            /\ jumped' = [jumped EXCEPT ![u] = FALSE]
       ELSE UNCHANGED <<known, jumped>>
  /\ UNCHANGED <<log, nextEntry, clock, tx, disclosed, seen>>

Put(f, c, v) == [d \in DOMAIN f \cup {c} |-> IF d = c THEN v ELSE f[d]]

Show(u) ==
  LET p == page[u] IN
  /\ p.loading /\ p.answer # None
  /\ page' = [page EXCEPT ![u] = [p EXCEPT !.loading = FALSE, !.answer = None,
                                           !.entries = p.answer.entries,
                                           !.next = p.answer.next]]
  /\ seen' = [seen EXCEPT ![u] = Put(@, p.cursor, p.answer.entries)]
  /\ UNCHANGED <<log, nextEntry, clock, tx, disclosed, known, jumped>>

(* The catch: entries and next are still those of the page before.          *)
LoadFails(u) ==
  LET p == page[u] IN
  /\ p.loading
  /\ page' = [page EXCEPT ![u] = [p EXCEPT !.loading = FALSE, !.answer = None,
                                           !.error = TRUE]]
  /\ UNCHANGED <<log, nextEntry, clock, tx, history>>

(* The effect of Activity runs when currentCursor changes, not otherwise.   *)
Turn(p, c, stack) ==
  LET q == [p EXCEPT !.cursor = c, !.stack = stack]
  IN IF c = p.cursor THEN q ELSE [q EXCEPT !.loading = TRUE, !.error = FALSE]

HandleNext(u) ==
  LET p == page[u] IN
  /\ p.open /\ ~p.loading /\ p.next # None /\ Len(p.stack) < MaxStack
  /\ page' = [page EXCEPT ![u] = Turn(p, p.next, Append(p.stack, p.cursor))]
  /\ jumped' = [jumped EXCEPT ![u] = @ \/ p.error]
  /\ UNCHANGED <<log, nextEntry, clock, tx, disclosed, seen, known>>

HandlePrevious(u) ==
  LET p == page[u]
      n == Len(p.stack)
  IN
  /\ p.open /\ ~p.loading /\ n > 0
  /\ page' = [page EXCEPT ![u] = Turn(p, p.stack[n], SubSeq(p.stack, 1, n - 1))]
  /\ UNCHANGED <<log, nextEntry, clock, tx, history>>

Next ==
  \/ \E w \in Writers :
       \/ Act(w) \/ AdminRead(w) \/ Mint(w) \/ Insert(w) \/ Commit(w)
       \/ Disclose(w) \/ Abandon(w)
  \/ \E u \in Viewers :
       \/ Open(u) \/ Leave(u) \/ Serve(u) \/ Show(u) \/ LoadFails(u)
       \/ HandleNext(u) \/ HandlePrevious(u)
  \/ Tick

Spec == Init /\ [][Next]_vars

-----------------------------------------------------------------------------
TypeOK ==
  /\ log \subseteq Entry /\ nextEntry \in Nat /\ clock \in Nat
  /\ tx \in [Writers -> Tx]
  /\ page \in [Viewers -> Activity]
  /\ disclosed \subseteq [reader : Users, target : Users, record : SUBSET Entry]
  /\ seen = [u \in Viewers |-> seen[u]]
  /\ \A u \in Viewers : /\ DOMAIN seen[u] \subseteq Cursor \cup {None}
                      /\ seen[u] \in [DOMAIN seen[u] -> SUBSET Entry]
  /\ known \in [Viewers -> SUBSET Entry]
  /\ jumped \in [Viewers -> BOOLEAN]

Settled(u) == page[u].open /\ ~page[u].loading /\ ~page[u].error /\ ~jumped[u]

(* The cursors that led to the page, its own included.                      *)
Trail(u) == {page[u].stack[i] : i \in 1..Len(page[u].stack)} \cup {page[u].cursor}

(***************************************************************************)
(* pagination.js: an audit view that loses a row is a defect, and entries  *)
(* appended at the head cannot shift a cursor.  Of the entries that were   *)
(* there when the walk read its first page, those down to the last one     *)
(* shown are on the pages of the walk, and all of them are when there is   *)
(* no next page.                                                           *)
(***************************************************************************)
NothingSkipped ==
  \A u \in Viewers : Settled(u) =>
    \A e \in known[u] :
      (page[u].next # None => ~Older(e, page[u].next))
        => \E c \in Trail(u) : e \in seen[u][c]

(***************************************************************************)
(* ... nor is an entry repeated: no two pages of a walk share one, and the *)
(* page behind a cursor is never empty.                                    *)
(***************************************************************************)
NothingRepeated ==
  \A u \in Viewers : Settled(u) =>
    /\ \A c, d \in Trail(u) : c # d => seen[u][c] \cap seen[u][d] = {}
    /\ page[u].cursor # None => page[u].entries # {}

(***************************************************************************)
(* An administrator is told nothing of a log without a record of it that   *)
(* is committed: a copy in the administrator's log and, of another's log,  *)
(* one in that log; no record is that of two reads.                        *)
(***************************************************************************)
Witnessed(d) ==
  /\ d.record \subseteq log
  /\ \E e \in d.record : e.text = [Plain(d.reader) EXCEPT !.target = d.target]
  /\ d.target # d.reader =>
       \E e \in d.record : e.text = [Plain(d.target) EXCEPT !.actor = d.reader]

ReadsAreRecorded ==
  /\ \A d \in disclosed : Witnessed(d)
  /\ \A d, e \in disclosed : d # e => d.record \cap e.record = {}
=============================================================================
